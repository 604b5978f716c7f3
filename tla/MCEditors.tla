------------------------------ MODULE MCEditors ------------------------------
(***************************************************************************)
(* Instances of the envelope editor, the sample processor, the grids, and  *)
(* the parameters of the other processors with their synthesisers.  They   *)
(* do not meet: a behaviour is one of the envelope editor, for one of the  *)
(* envelopes of the program, one of the sample processor, one of the grid  *)
(* editor and the sheet, or one of the parameters of a processor.          *)
(***************************************************************************)
EXTENDS Integers, Sequences, FiniteSets, TLC

CONSTANTS None, Near, MaxActions, MoreActions,
          Kinds, Pointers, HandleDist, RemoveDist, Far,
          Slots, MaxX, Rows, Snap, Hits, MaxEntries, Freqs, Formats, ImportLength, Beginnings,
          Unit, Styles, DefaultGrid, GridIds, Columns, GridRows, PatternLength, Areas, Lengths, Offsets,
          Spacings, PartCounts, Warps, Pixels, Heights, GridBeginnings,
          ProcTypes, Impl, ParamUnit, CurveNear, Mappings, MaxNodes,
          ValueLevels, Bases, PreWarps, PostWarps, Synths, MaxTones, MaxWarps, MaxLevels

VARIABLES which, store, view, signals, actions, done, session, task, failed

vars == <<which, store, view, signals, actions, done, session, task, failed>>

E == INSTANCE Envelope
S == INSTANCE Samples
G == INSTANCE Grids WITH Rows <- GridRows, Beginnings <- GridBeginnings
P == INSTANCE ProcParams WITH Types <- ProcTypes, Unit <- ParamUnit, Near <- CurveNear
Y == INSTANCE Synths WITH Values <- ValueLevels, MaxActions <- MoreActions

-----------------------------------------------------------------------------
(* Envelopes: what the processors and controls give to the view.           *)
No == <<FALSE, FALSE>>

(* The force envelope of a processor: x grows, y is fixed, nodes loop.     *)
TimeEnv == [rangeX |-> <<0, 6>>, rangeY |-> <<0, 2>>, adjustX |-> <<FALSE, TRUE>>, adjustY |-> No,
            first |-> <<TRUE, FALSE>>, last |-> No, max |-> 3, enabled |-> TRUE,
            nodes |-> <<<<0, 2>>, <<6, 0>>>>, marks |-> <<1, 2>>]

(* The release envelope: it ends in silence; it is off at first.           *)
ReleaseEnv == [TimeEnv EXCEPT !.last = <<FALSE, TRUE>>, !.marks = <<>>, !.enabled = FALSE]

(* The resonance of a PADsynth processor: both ends are fixed.             *)
ResonanceEnv == [TimeEnv EXCEPT !.adjustX = No, !.adjustY = <<FALSE, TRUE>>, !.last = <<TRUE, FALSE>>,
                                !.marks = <<>>]

MCKinds == {TimeEnv, ReleaseEnv, ResonanceEnv}
(* On and off the nodes, and far enough from them to remove one.           *)
MCPointers == {<<0, 2>>, <<3, 0>>, <<3, 2>>, <<3, 9>>, <<6, 0>>}

(* Samples: none, and one with a loop that both maps play.                 *)
Empty == [samples |-> [n \in Slots |-> None], maps |-> [m \in {"note", "hit"} |-> <<>>]]
At(h, x, list) == [k \in {<<h, x>>} |-> list]
Looped == [length |-> 5, rate |-> 2, freq |-> 2, bits |-> 16, mode |-> "uni", start |-> 2, end |-> 4]
Playing == [samples |-> [n \in Slots |-> IF n = 1 THEN Looped ELSE None],
            maps |-> [note |-> At(0, 0, <<1>>), hit |-> At(1, 2, <<1, 1>>)]]
MCBeginnings == {Empty, Playing}

(* Grids: none, and one that the pattern uses, with an offset and a line   *)
(* past its end, beside the default one as an overlay grid.                *)
MCDefault == [length |-> 8, offset |-> 0, spacing |-> [s \in Styles |-> 2], lines |-> <<<<0, 0>>, <<4, 1>>>>]
ShortGrid == [MCDefault EXCEPT !.length = 4, !.offset = 2, !.lines = <<<<0, 0>>, <<2, 2>>, <<4, 1>>>>]
NoGrids == [store |-> [grids |-> [id \in GridIds |-> None], base |-> 0, overlays |-> [c \in Columns |-> <<>>]],
            session |-> [grid |-> None, line |-> None, count |-> 2, style |-> 1, warp |-> FALSE,
                         default |-> None, shown |-> TRUE, at |-> <<0, 0>>, area |-> None]]
UsedGrid == [store |-> [grids |-> [id \in GridIds |-> IF id = 1 THEN ShortGrid ELSE None], base |-> 1,
                        overlays |-> [c \in Columns |-> IF c = 0 THEN <<<<3, 0>>, <<6, None>>>> ELSE <<>>]],
             session |-> [NoGrids.session EXCEPT !.grid = 1, !.line = 2, !.default = 1]]
MCGridBeginnings == {NoGrids, UsedGrid}
MCAreas == {<<0, 1, 0, 9>>, <<0, 0, 3, 6>>, <<0, 1, 0, 3>>}

(* Parameters of processors: new ones, and ones made with data of older    *)
(* versions or of other programs, whose pairs may be out of order.         *)
MCTypes == {"compress", "envgen", "force", "rangemap", "ks", "delay", "filter", "phaser", "bitcrusher", "looper",
            "stream", "freeverb", "slope", "volume", "panning", "gaincomp", "playback", "padsynth"}
MCImpl ==
    [t \in MCTypes |->
        {<<>>} \cup
        (CASE t = "compress" -> {[up |-> 2, down |-> 1, upOn |-> TRUE]}
          [] t = "envgen" -> {[yMin |-> 2, yMax |-> 1, floor |-> TRUE, ceil |-> TRUE, ceilStart |-> 0]}
          [] t = "rangemap" -> {[fromMin |-> 2]}
          [] t = "ks" -> {[minRate |-> 2, rates |-> TRUE]}
          [] t = "delay" -> {[initDelay |-> 2]}
          [] t = "filter" -> {[filter |-> 2]}
          [] t = "force" -> {[release |-> TRUE, ramp |-> TRUE]}
          [] t = "gaincomp" -> {[mapped |-> TRUE, nodes |-> <<<<0, 0>>, <<8, 16>>, <<16, 12>>>>],
                                [mapped |-> TRUE, nodes |-> <<<<-16, -4>>, <<-8, -12>>, <<8, 4>>, <<16, -12>>>>]}
          [] t = "padsynth" -> {[phases |-> TRUE, lowest |-> 2]}
          [] OTHER -> {})]
MCMappings ==
    {<<<<0, 4>>, <<16, 16>>>>, <<<<0, 2>>, <<2, 8>>, <<16, 0>>>>, <<<<0, 0>>, <<4, 8>>, <<16, 16>>>>,
     <<<<0, 2>>, <<4, 8>>, <<8, 8>>, <<16, 0>>>>, <<<<-16, 16>>, <<0, 8>>, <<16, 0>>>>,
     <<<<-16, -16>>, <<-4, 12>>, <<8, -4>>, <<12, 8>>, <<16, 16>>>>}

(* Synthesisers: new ones, tones with holes and half-written slots, waves  *)
(* without a definition and with one that is valid in parts.               *)
Slot(p, v, n) == [pitch |-> p, volume |-> v, panning |-> n]
NoWave == [base |-> None, pre |-> <<>>, post |-> <<>>]
HalfValid ==
    [base |-> "Saw", post |-> <<<<"Scale", 1>>>>,
     pre |-> <<<<"Bogus", 0>>, <<"Scale", 1>>, <<"Shift", 9>>, <<"Shift", 1>>, <<"Scale", 0>>, <<"Shift", 2>>>>]
Additive(slots) ==
    [kind |-> "tones", slots |-> slots, def |-> NoWave, wave |-> None, levels |-> <<>>,
     harmonics |-> [wave |-> None, levels |-> <<>>]]
PADsynth(def, wave, levels) ==
    [Additive(<<>>) EXCEPT !.kind = "padsynth", !.def = def, !.wave = wave, !.levels = levels]
MCSynths ==
    {Additive(<<>>), Additive(0 :> Slot(2, None, 1) @@ 2 :> Slot(1, 0, None)),
     Additive(0 :> Slot(0, None, None) @@ 1 :> Slot(1, None, None) @@ 2 :> Slot(2, 2, None)),
     Additive(0 :> Slot(0, None, None) @@ 1 :> Slot(1, 1, None) @@ 2 :> Slot(2, 2, None)),
     PADsynth(NoWave, None, <<>>), PADsynth(NoWave, "file", <<<<1, 1>>, <<2, 0>>>>),
     PADsynth(HalfValid, "file", <<<<1, 0>>>>)}

-----------------------------------------------------------------------------
Init ==
    \/ /\ which = "envelope"
       /\ E!Init
       /\ session = None /\ task = None /\ failed = "no"
    \/ /\ which = "samples"
       /\ S!Init
       /\ done = None
    \/ /\ which = "grids"
       /\ G!Init
       /\ task = None
    \/ which = "params" /\ P!Init /\ task = None
    \/ which = "synths" /\ Y!Init /\ task = None

EnvelopeStep ==
    /\ which = "envelope"
    /\ E!Next
    /\ UNCHANGED <<which, session, task, failed>>

SampleStep ==
    /\ which = "samples"
    /\ S!Next
    /\ UNCHANGED <<which, done>>

GridStep ==
    /\ which = "grids"
    /\ G!Next
    /\ UNCHANGED <<which, task>>

ParamStep ==
    /\ which = "params"
    /\ P!Next
    /\ UNCHANGED <<which, task>>

SynthStep ==
    /\ which = "synths"
    /\ Y!Next
    /\ UNCHANGED <<which, task>>

Next == EnvelopeStep \/ SampleStep \/ GridStep \/ ParamStep \/ SynthStep

Spec == Init /\ [][Next]_vars

-----------------------------------------------------------------------------
OfEnvelopes(Formula) == which = "envelope" => Formula
OfSamples(Formula) == which = "samples" => Formula
OfGrids(Formula) == which = "grids" => Formula
OfParams(Formula) == which = "params" => Formula
OfSynths(Formula) == which = "synths" => Formula

EnvelopeTypeOK == OfEnvelopes(E!TypeOK)
(* Every edited envelope is one that the engine takes.                     *)
EnvelopeIsSound == OfEnvelopes(E!EnvelopeIsSound)
(* Locked coordinates of the end nodes never change.                       *)
LocksHold == OfEnvelopes(E!LocksHold)
(* Loop markers are nodes, the start not after the end.                    *)
MarksAreNodes == OfEnvelopes(E!MarksAreNodes)
(* Markers go with their nodes when nodes come and go.                     *)
MarksFollowTheirNodes == OfEnvelopes(E!MarksFollowTheirNodes)
(* A drag changes the node that was pressed and no other.                  *)
DragMovesOneNode == OfEnvelopes(E!DragMovesOneNode)
(* The view shows the envelope when no update is due.                      *)
ViewShowsEnvelope == OfEnvelopes(E!ViewShowsEnvelope)

SampleTypeOK == OfSamples(S!TypeOK)
(* No input meets a failing assertion or a sample that is gone.            *)
SampleInputsSucceed == OfSamples(S!SampleInputsSucceed)
(* Entries of the maps play samples that exist.                            *)
EntriesPlaySamples == OfSamples(S!EntriesPlaySamples)
(* The lists of the maps are no longer than the engine takes.              *)
ListsFit == OfSamples(S!ListsFit)
(* A loop that is on lies in its sample.                                   *)
LoopsAreInSamples == OfSamples(S!LoopsAreInSamples)
(* The selected point of a map exists.                                     *)
SelectedPointExists == OfSamples(S!SelectedPointExists)
(* The widgets show and allow what the data says.                          *)
WidgetsShowSamples == OfSamples(S!WidgetsShowSamples)
(* Points of a map are moved, never onto one another: one goes only when   *)
(* it is dragged off the map.                                              *)
PointsAreNotMerged ==
    [][which = "samples" =>
          \A m \in S!Maps : Cardinality(DOMAIN store'.maps[m]) < Cardinality(DOMAIN store.maps[m]) =>
              session.moving = m /\ session'.point[m] = None]_vars
(* A task that makes samples overwrites none.                              *)
CopiesFillFreeSlots ==
    [][which = "samples" /\ task # None /\ task.do \in {"import", "xfade"} =>
          \A n \in S!SampleIds : store'.samples[n] = store.samples[n]]_vars

GridTypeOK == OfGrids(G!TypeOK)
(* Every grid is one that the program takes.                               *)
GridsAreSound == OfGrids(G!GridsAreSound)
(* The assertions of the grid editor hold.                                 *)
GridHandlersSucceed == OfGrids(G!HandlersSucceed)
(* The base grid of the pattern exists.                                    *)
BaseExists == OfGrids(G!BaseExists)
(* The grid editor and the tools show and allow what the grids say.        *)
ViewShowsGrids == OfGrids(G!ViewShowsGrids)
(* The overlay grids of a column are in order and none is superfluous.     *)
OverlaysAreReduced == OfGrids(G!OverlaysAreReduced)
(* A chosen grid is used where it was chosen for and nowhere else.         *)
ChoiceIsExact == OfGrids(G!ChoiceIsExact)
(* The cursor moves between the lines that are drawn.                      *)
CursorReachesDrawnLines == OfGrids(G!CursorReachesDrawnLines)
(* An input for the selected line leaves the other lines as they are.      *)
LineEditsHitTheirLine ==
    [][which = "grids" /\ done'.name = "line" /\ actions' # actions =>
          G!OtherLines(G!Shifted(G!GridOf(store'.grids, session.grid)), session.line)
            = G!OtherLines(G!Lines, session.line)]_vars
(* Subdividing adds lines between the selected one and the next, no more.  *)
SubdivisionAddsBetween ==
    [][which = "grids" /\ done'.name = "subdivide" /\ actions' # actions => G!IsSubdivided]_vars

ParamsTypeOK == OfParams(P!ParamsTypeOK)
(* Values that bound one another are in order once one has been set.       *)
SetPairsAreOrdered == OfParams(P!SetPairsAreOrdered)
(* The widgets of a processor show its parameters.                         *)
EditorShowsParams == OfParams(P!EditorShowsParams)
(* The button that applies parameters follows what was applied.            *)
ApplyButtonFollows == OfParams(P!ApplyButtonFollows)
(* The assertions of the setters hold.                                     *)
ParamHandlersSucceed == OfParams(P!ParamHandlersSucceed)
(* The mapping of the gain compression is a function on its whole range.   *)
MappingIsSound == OfParams(P!MappingIsSound)
(* Changing the symmetry of a mapping keeps its right half.                *)
RightHalfIsKept ==
    [][(which = "params" /\ done' = "symmetry" /\ actions' # actions) => P!KeepsRightHalf]_vars

SynthTypeOK == OfSynths(Y!SynthTypeOK)
(* The tones are the list that the edits were meant to make.               *)
TonesAreAsMeant == OfSynths(Y!TonesAreAsMeant)
(* The editors of tones, waves and levels show what is stored.             *)
EditorShowsSynth == OfSynths(Y!EditorShowsSynth)
(* The harmonics of PADsynth belong to the wave and the levels shown.      *)
HarmonicsFollow == OfSynths(Y!HarmonicsFollow)
(* No wave is made of a function that is not known.                        *)
SynthHandlersSucceed == OfSynths(Y!SynthHandlersSucceed)
(* Moving a warp exchanges it with the one beside it.                      *)
WarpMovesSwap ==
    [][(which = "synths" /\ done'.name = "move" /\ actions' # actions) => Y!MoveSwaps]_vars

(* What the editors make is what the engine and the program take, and what *)
(* the input meant, in the middle of a drag too: a drag takes one node,    *)
(* markers go with their nodes, a grid is used where it was chosen for, a  *)
(* curve is a function, bounds are in order.                               *)
EditedDataIsSound ==
    /\ EnvelopeTypeOK /\ EnvelopeIsSound /\ LocksHold /\ MarksAreNodes
    /\ MarksFollowTheirNodes /\ DragMovesOneNode
    /\ SampleTypeOK /\ EntriesPlaySamples /\ ListsFit /\ LoopsAreInSamples
    /\ GridTypeOK /\ GridsAreSound /\ BaseExists /\ OverlaysAreReduced /\ ChoiceIsExact
    /\ ParamsTypeOK /\ SetPairsAreOrdered /\ MappingIsSound
    /\ SynthTypeOK /\ TonesAreAsMeant /\ HarmonicsFollow

(* Views and widgets show and allow what the data says, so that no input   *)
(* meets something that is gone, and the cursor goes to what is drawn.     *)
ViewsShowData ==
    /\ ViewShowsEnvelope
    /\ SampleInputsSucceed /\ SelectedPointExists /\ WidgetsShowSamples
    /\ GridHandlersSucceed /\ ViewShowsGrids /\ CursorReachesDrawnLines
    /\ ParamHandlersSucceed /\ EditorShowsParams /\ ApplyButtonFollows
    /\ SynthHandlersSucceed /\ EditorShowsSynth

(* An edit of one point, sample, line or warp, or of one half of a curve,  *)
(* leaves all the others alone.                                            *)
OthersStayAsTheyAre ==
    /\ PointsAreNotMerged /\ CopiesFillFreeSlots
    /\ LineEditsHitTheirLine /\ SubdivisionAddsBetween
    /\ RightHalfIsKept /\ WarpMovesSwap
=============================================================================
