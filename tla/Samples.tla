------------------------------- MODULE Samples -------------------------------
(***************************************************************************)
(* The sample processor (tracker/ui/model/procparams/sampleparams.py) and  *)
(* its editors (tracker/ui/views/processor/sampleproc.py, sampleview.py):  *)
(* samples with their loops, the note map and the hit map whose points     *)
(* hold lists of samples, and the tasks that make samples anew.            *)
(*                                                                         *)
(* Both maps are a line here: one coordinate of a point is what the mouse  *)
(* changes.  A point of the hit map also belongs to a hit.  What the       *)
(* widgets show and allow is as of their last update; a hand is slower     *)
(* than an update, and while a task runs the windows are disabled.         *)
(***************************************************************************)
EXTENDS Integers, Sequences, FiniteSets, SequencesExt

CONSTANTS None,
          Slots,       \* the sample numbers, 0.._SAMPLES_MAX - 1
          MaxX,        \* the pixels of a map are 0..MaxX
          Rows,        \* "on": the pointer is at the height of the points; "off": below, at the labels
          Near, Snap,  \* point_focus_dist_max, move_snap_dist
          Hits,
          MaxEntries,  \* RandomList._LENGTH_MAX
          Freqs, Formats, ImportLength,
          MaxActions,  \* bound of the model: inputs
          Beginnings

VARIABLES store,   \* [samples, maps]
          session, \* the selected sample, hit and points, and the mouse on a map
          view,    \* what the widgets show and allow
          task,    \* the task that runs
          signals,
          failed,  \* why an input or a task raised an exception
          actions

vars == <<store, session, view, task, signals, failed, actions>>

Maps == {"note", "hit"}
Xs == 0..MaxX
Abs(n) == IF n < 0 THEN -n ELSE n
Least(a, b) == IF a < b THEN a ELSE b
Most(a, b) == IF a > b THEN a ELSE b
Clamp(n, lo, hi) == Least(Most(lo, n), hi)
Get(value) == IF value = None THEN 0 ELSE value

-----------------------------------------------------------------------------
(* The model: what the store holds.                                        *)

SampleIds == {n \in Slots : store.samples[n] # None}
FreeIds == Slots \ SampleIds
FirstOf(ids) == CHOOSE n \in ids : \A k \in ids : n <= k
FirstFree(k) == {n \in FreeIds : Cardinality({f \in FreeIds : f < n}) < k}

Selected == session.sample
HasSample == Selected \in SampleIds
Header == store.samples[Selected]

Here(m) == IF m = "note" THEN 0 ELSE session.hit
Points(m) == {x \in Xs : <<Here(m), x>> \in DOMAIN store.maps[m]}
Point(m) == session.point[m]
HasPoint(m) == Point(m) # None /\ Point(m) \in Points(m)
ListAt(m) == store.maps[m][<<Here(m), Point(m)>>]

PutList(m, x, list) == [store EXCEPT !.maps[m] = [k \in DOMAIN @ \union {<<Here(m), x>>} |->
                                                     IF k = <<Here(m), x>> THEN list ELSE @[k]]]
Without(map, key) == [k \in DOMAIN map \ {key} |-> map[k]]
WithPointMoved(m, from, to) ==
    [store EXCEPT !.maps[m] = [k \in (DOMAIN @ \ {<<Here(m), from>>}) \union {<<Here(m), to>>} |->
                                  IF k = <<Here(m), to>> THEN @[<<Here(m), from>>] ELSE @[k]]]

Other(map, n) == [k \in DOMAIN map |-> SelectSeq(map[k], LAMBDA e : e # n)]
(* remove_sample: with all references to it                                *)
WithoutSample(s, n) ==
    [s EXCEPT !.samples[n] = None, !.maps = [m \in Maps |-> Other(@[m], n)]]

Length(s) == IF s = None THEN 0 ELSE s.length
Mode(s) == IF s = None THEN "off" ELSE s.mode
Start(s) == IF s = None THEN 0 ELSE Get(s.start)
End(s) == IF s = None THEN 0 ELSE Get(s.end)
HasValidLoop(s) == Start(s) < End(s) /\ End(s) <= Length(s)

WithLoopMode(s, mode) ==
    LET old == HasValidLoop(s)
    IN IF mode = "off" THEN [s EXCEPT !.mode = mode]
       ELSE [s EXCEPT !.mode = mode,
                      !.start = IF old THEN Start(s) ELSE 0, !.end = IF old THEN End(s) ELSE s.length]

-----------------------------------------------------------------------------
(* The view: what the widgets show and allow after an update.              *)

Chosen == IF HasSample THEN Header ELSE None

Tools == [import |-> FreeIds # {}, remove |-> Selected # None /\ SampleIds # {}]

ListOf(m) ==
    [count |-> IF HasPoint(m) THEN Len(ListAt(m)) ELSE 0,
     adder |-> HasPoint(m) /\ Len(ListAt(m)) < MaxEntries /\ SampleIds # {},
     items |-> SampleIds]

EntryOf(m) == IF HasPoint(m) THEN Point(m) ELSE None

(* _update_loop, and the button for the cut                                *)
LoopOf ==
    LET s == Chosen
        on == Mode(s) # "off" /\ HasValidLoop(s)
    IN [on |-> on,
        startMax |-> IF on THEN End(s) - 1 ELSE Most(0, Length(s) - 1),
        endMin |-> IF on THEN Start(s) + 1 ELSE Least(1, Length(s)),
        endMax |-> Length(s),
        xfader |-> FreeIds # {} /\ Mode(s) = "uni" /\ Start(s) > 0 /\ End(s) - Start(s) >= 2,
        cut |-> Length(s) > 0 /\ Mode(s) # "off" /\ End(s) < Length(s)]

(* The signals each widget is registered for.                              *)
ToolSignals == {<<"list">>, <<"select">>}
RowSignals == {<<"list">>, <<"xfade">>}
EditorSignals == {<<"list">>, <<"select">>, <<"xfade">>, <<"cut">>}
LoopSignals == EditorSignals \union {<<"loop">>, <<"resample">>, <<"format">>}
EntrySignals(m) == {<<m, "selection">>, <<m, "move">>, <<m, "hit">>}
(* Wrong: the lists of entries do not see that a sample is removed.        *)
ListSignalsFew(m) == {<<m, "selection">>, <<m, "hit">>, <<"format">>, <<"xfade">>}
ListSignals(m) == ListSignalsFew(m) \union {<<m, "list">>}

Renewed(names, new, old) == IF signals \intersect names # {} THEN new ELSE old

Update ==
    /\ signals # {}
    /\ view' = [tools |-> Renewed(ToolSignals, Tools, view.tools),
                rows |-> Renewed(RowSignals, SampleIds, view.rows),
                enabled |-> Renewed(EditorSignals, HasSample, view.enabled),
                loop |-> Renewed(LoopSignals, LoopOf, view.loop),
                entry |-> [m \in Maps |-> Renewed(EntrySignals(m), EntryOf(m), view.entry[m])],
                list |-> [m \in Maps |-> Renewed(ListSignals(m), ListOf(m), view.list[m])]]
    /\ signals' = {}
    /\ UNCHANGED <<store, session, task, failed, actions>>

Init ==
    /\ store \in Beginnings
    /\ session = [sample |-> None, hit |-> FirstOf(Hits), point |-> [m \in Maps |-> None],
                  moving |-> None, snapping |-> FALSE, offset |-> 0]
    /\ view = [tools |-> Tools, rows |-> SampleIds, enabled |-> FALSE, loop |-> LoopOf,
               entry |-> [m \in Maps |-> None], list |-> [m \in Maps |-> ListOf(m)]]
    /\ task = None
    /\ signals = {}
    /\ failed = "no"
    /\ actions = 0

-----------------------------------------------------------------------------
(* Inputs.                                                                 *)

CanAct == signals = {} /\ task = None /\ session.moving = None /\ failed = "no" /\ actions < MaxActions
Acts == actions' = actions + 1
Signals(names) == signals' = signals \union names
Raises(why) == failed' = why /\ UNCHANGED <<store, session, view, task, signals>>
Quiet == UNCHANGED <<view, task, failed>>

NearestPoints(m, x) == {p \in Points(m) : \A q \in Points(m) : Abs(p - (x - 1)) <= Abs(q - (x - 1))}
IsFocused(p, x, row) == row = "on" /\ Abs(p - (x - 1)) <= Near

PressPoint(m, x, row) ==
    \E p \in NearestPoints(m, x) :
        /\ CanAct
        /\ IsFocused(p, x, row)
        /\ session' = [session EXCEPT !.point[m] = p, !.moving = m, !.snapping = TRUE, !.offset = x - p]
        /\ Signals({<<m, "selection">>})
        /\ Acts
        /\ Quiet
        /\ UNCHANGED store

(* Only the nearest point is compared with the new one; add_note_map_point *)
(* and add_hit_map_point assert that no point is there.                    *)
PressAdd(m, x, row) ==
    /\ CanAct
    /\ \A p \in NearestPoints(m, x) : ~IsFocused(p, x, row)
    /\ NearestPoints(m, x) # {x}
    /\ IF x \in Points(m) THEN Raises("assertion")
       ELSE /\ store' = PutList(m, x, <<>>)
            /\ session' = [session EXCEPT !.point[m] = x, !.moving = m, !.snapping = TRUE, !.offset = 0]
            /\ Signals({<<m, "selection">>})
            /\ Quiet
    /\ Acts

CanDrag == session.moving # None /\ task = None /\ failed = "no"

CanPut(m, x) == x \notin Points(m)

(* Where the pointer has the point, within the map.                        *)
Placed(x) == Clamp(x - session.offset, 0, MaxX)

Drag(x) ==
    LET m == session.moving
        p == Point(m)
        to == Placed(x)
        snaps == session.snapping /\ Abs(x - session.offset - p) < Snap
        moves == ~snaps /\ CanPut(m, to)
    IN /\ CanDrag
       /\ store' = IF moves THEN WithPointMoved(m, p, to) ELSE store
       /\ session' = [session EXCEPT !.snapping = snaps, !.point[m] = IF moves THEN to ELSE @]
       /\ Signals(IF moves THEN {<<m, "move">>} ELSE {})
       /\ Quiet
       /\ UNCHANGED actions

Deselected(m) == [session EXCEPT !.moving = None, !.point[m] = None]

(* The pointer leaves the area in which a point is kept.                   *)
DragOff ==
    LET m == session.moving
    IN /\ CanDrag
       /\ store' = [store EXCEPT !.maps[m] = Without(@, <<Here(m), Point(m)>>)]
       /\ session' = Deselected(m)
       /\ Signals({<<m, "selection">>})
       /\ Quiet
       /\ UNCHANGED actions

Release ==
    /\ CanDrag
    /\ session' = [session EXCEPT !.moving = None]
    /\ Quiet
    /\ UNCHANGED <<store, signals, actions>>

(* A spin box of the selected point.  When another point is there the spin *)
(* box keeps the number all the same.                                      *)
MoveEntry(m, x) ==
    /\ CanAct
    /\ view.entry[m] \notin {None, x}
    /\ view' = [view EXCEPT !.entry[m] = x]
    /\ IF CanPut(m, x)
       THEN /\ store' = WithPointMoved(m, Point(m), x)
            /\ session' = [session EXCEPT !.point[m] = x]
            /\ Signals({<<m, "move">>})
       ELSE UNCHANGED <<store, session, signals>>
    /\ Acts
    /\ UNCHANGED <<task, failed>>

SelectHit(h) ==
    /\ CanAct
    /\ h # session.hit
    /\ session' = [session EXCEPT !.hit = h]
    /\ Signals({<<"hit", "hit">>})
    /\ Acts
    /\ Quiet
    /\ UNCHANGED store

(* The entries of the selected point: the button that adds one, and the    *)
(* row of an index that the update has made.                               *)
EditList(m, list) ==
    /\ CanAct
    /\ HasPoint(m)
    /\ store' = PutList(m, Point(m), list)
    /\ Signals({<<m, "list">>})
    /\ Acts
    /\ Quiet
    /\ UNCHANGED session

AddEntry(m) ==
    /\ view.list[m].adder
    /\ EditList(m, Append(ListAt(m), IF SampleIds = {} THEN 0 ELSE FirstOf(SampleIds)))

RemoveEntry(m, i) ==
    /\ i \in 1..view.list[m].count
    /\ EditList(m, RemoveAt(ListAt(m), i))

ChangeEntry(m, i, n) ==
    /\ i \in 1..view.list[m].count
    /\ n \in view.list[m].items
    /\ EditList(m, [ListAt(m) EXCEPT ![i] = n])

SelectSample(n) ==
    /\ CanAct
    /\ n \in view.rows
    /\ session' = [session EXCEPT !.sample = n]
    /\ Signals({<<"select">>})
    /\ Acts
    /\ Quiet
    /\ UNCHANGED store

RemovalSignals == {<<"list">>} \union {<<m, "list">> : m \in Maps}

RemoveSample ==
    /\ CanAct
    /\ view.tools.remove
    /\ store' = WithoutSample(store, Selected)
    /\ Signals(RemovalSignals)
    /\ Acts
    /\ Quiet
    /\ UNCHANGED session

(* The editor of the selected sample.                                      *)
EditSample(s, signal) ==
    /\ CanAct
    /\ view.enabled
    /\ IF HasSample
       THEN store' = [store EXCEPT !.samples[Selected] = s] /\ Signals({<<signal>>}) /\ Quiet /\ UNCHANGED session
       ELSE Raises("no header")
    /\ Acts

ChangeLoopMode(mode) == EditSample(WithLoopMode(Chosen, mode), "loop")
ChangeFreq(f) == EditSample([Chosen EXCEPT !.freq = f], "freq")
ChangeLoopStart(v) == view.loop.on /\ v \in 0..view.loop.startMax /\ EditSample([Chosen EXCEPT !.start = v], "loop")
ChangeLoopEnd(v) ==
    /\ view.loop.on
    /\ v \in view.loop.endMin..view.loop.endMax
    /\ EditSample([Chosen EXCEPT !.end = v], "loop")

-----------------------------------------------------------------------------
(* Tasks: they begin in a dialog, read at their first step, write at their *)
(* last, and end when the engine has confirmed what they wrote.            *)

StartTask(t) ==
    /\ task' = t
    /\ Acts
    /\ UNCHANGED <<store, session, view, signals, failed>>

ImportSamples(k) ==
    /\ CanAct
    /\ view.tools.import
    /\ k <= Cardinality(FreeIds)
    /\ StartTask([do |-> "import", ids |-> FirstFree(k), stage |-> "begun"])

Resample(f) ==
    /\ CanAct
    /\ view.enabled
    /\ f # Header.freq
    /\ StartTask([do |-> "resample", id |-> Selected, freq |-> f, stage |-> "begun"])

ConvertFormat(bits) ==
    /\ CanAct
    /\ view.enabled
    /\ bits # Header.bits
    /\ StartTask([do |-> "format", id |-> Selected, bits |-> bits, stage |-> "begun"])

CreateXfade(length) ==
    /\ CanAct
    /\ view.enabled
    /\ view.loop.xfader
    /\ length \in 1..Least(Start(Header), End(Header) - Start(Header))
    /\ StartTask([do |-> "xfade", id |-> Selected, length |-> length, stage |-> "begun"])

PostLoopCut ==
    /\ CanAct
    /\ view.enabled
    /\ view.loop.cut
    /\ StartTask([do |-> "cut", id |-> Selected, stage |-> "begun"])

Target == store.samples[task.id]
IsTask(name) == task # None /\ task.stage = "begun" /\ task.do = name /\ failed = "no"
Stores(s) == store' = s /\ task' = [task EXCEPT !.stage = "stored"] /\ UNCHANGED <<session, view, signals, failed, actions>>
TaskRaises(why) == failed' = why /\ UNCHANGED <<store, session, view, task, signals, actions>>

NewSample == [length |-> ImportLength, rate |-> FirstOf(Freqs), freq |-> FirstOf(Freqs),
              bits |-> FirstOf(Formats), mode |-> "off", start |-> None, end |-> None]

ImportEnds ==
    /\ IsTask("import")
    /\ Stores([store EXCEPT !.samples = [n \in Slots |-> IF n \in task.ids THEN NewSample ELSE @[n]]])

(* A file that cannot be read: nothing is imported.                        *)
ImportFails ==
    /\ IsTask("import")
    /\ task' = None
    /\ UNCHANGED <<store, session, view, signals, failed, actions>>

(* Python's round: halves go to the even neighbour.                        *)
Rounded(a, b) ==
    LET q == a \div b
        r == a % b
    IN IF 2 * r < b \/ (2 * r = b /\ q % 2 = 0) THEN q ELSE q + 1

(* The bounds of the loop for the new length.                              *)
ScaledLoop(s, f, length) ==
    LET start == IF s.start = None THEN None ELSE Clamp(Rounded(s.start * f, s.rate), 0, length - 1)
        end == IF s.end = None THEN None ELSE Clamp(Rounded(s.end * f, s.rate), Get(start) + 1, length)
    IN [s EXCEPT !.start = start, !.end = end]

(* The converter gives a frame more or less than expected.  The progress   *)
(* is divided by the expected length.                                      *)
ResampleEnds(length) ==
    LET f == task.freq
        expected == (Target.length * f) \div Target.rate
        new == [Target EXCEPT !.length = length, !.rate = f, !.freq = f]
    IN /\ IsTask("resample")
       /\ IF expected = 0 /\ Target.length > 0 THEN length = 0 /\ TaskRaises("division")
          ELSE /\ length \in Most(0, expected - 1)..(expected + 1)
               /\ Stores([store EXCEPT !.samples[task.id] =
                             IF length = 0 THEN [new EXCEPT !.mode = "off"]
                             ELSE [ScaledLoop(Target, f, length) EXCEPT !.length = length, !.rate = f, !.freq = f]])

FormatEnds ==
    /\ IsTask("format")
    /\ Stores([store EXCEPT !.samples[task.id].bits = task.bits])

XfadeSlot == FirstOf(FreeIds)

XfadeEnds ==
    /\ IsTask("xfade")
    /\ IF \/ FreeIds = {} \/ Target.mode # "uni" \/ task.length <= 0
          \/ task.length > Target.end - Target.start \/ task.length > Target.start
       THEN TaskRaises("assertion")
       ELSE Stores([store EXCEPT !.samples[XfadeSlot] =
                       [Target EXCEPT !.length = Target.end + Target.length - Target.start, !.freq = Target.freq]])

CutEnds ==
    /\ IsTask("cut")
    /\ IF Target.mode = "off" \/ Get(Target.end) <= 0 \/ Target.end >= Target.length
       THEN TaskRaises("assertion")
       ELSE Stores([store EXCEPT !.samples[task.id].length = Target.end])

CompletionSignals == IF task.do = "import" THEN RemovalSignals ELSE {<<task.do>>}

TaskConfirmed ==
    /\ task # None
    /\ task.stage = "stored"
    /\ task' = None
    /\ Signals(CompletionSignals)
    /\ UNCHANGED <<store, session, view, failed, actions>>

LengthValues == 0..(4 * ImportLength)

Next ==
    \/ Update
    \/ \E m \in Maps, x \in Xs :
        \/ \E row \in Rows : PressPoint(m, x, row) \/ PressAdd(m, x, row)
        \/ MoveEntry(m, x)
    \/ \E x \in Xs : Drag(x)
    \/ DragOff
    \/ Release
    \/ \E h \in Hits : SelectHit(h)
    \/ \E m \in Maps :
        \/ AddEntry(m)
        \/ \E i \in 1..MaxEntries : RemoveEntry(m, i)
        \/ \E i \in 1..MaxEntries, n \in Slots : ChangeEntry(m, i, n)
    \/ \E n \in Slots : SelectSample(n)
    \/ RemoveSample
    \/ \E mode \in {"off", "uni", "bi"} : ChangeLoopMode(mode)
    \/ \E f \in Freqs : ChangeFreq(f) \/ Resample(f)
    \/ \E v \in LengthValues : ChangeLoopStart(v) \/ ChangeLoopEnd(v) \/ CreateXfade(v) \/ ResampleEnds(v)
    \/ \E k \in 1..Cardinality(Slots) : ImportSamples(k)
    \/ \E bits \in Formats : ConvertFormat(bits)
    \/ PostLoopCut
    \/ ImportEnds
    \/ ImportFails
    \/ FormatEnds
    \/ XfadeEnds
    \/ CutEnds
    \/ TaskConfirmed

Spec == Init /\ [][Next]_vars

-----------------------------------------------------------------------------
TypeOK ==
    /\ DOMAIN store.samples = Slots
    /\ \A n \in SampleIds : Length(store.samples[n]) \in Nat
    /\ \A m \in Maps : DOMAIN store.maps[m] \subseteq (Hits \union {0}) \X Xs
    /\ session.sample \in Slots \union {None} /\ session.hit \in Hits
    /\ failed \in {"no", "assertion", "no header", "division"}

(* No input and no task meets an assertion or a sample that is gone: the   *)
(* widgets allow only what the model takes, although they were updated     *)
(* before.                                                                 *)
SampleInputsSucceed == failed \in {"no", "division"}

(* Every entry of every list plays a sample that exists, however samples   *)
(* come and go.                                                            *)
EntriesPlaySamples ==
    \A m \in Maps : \A k \in DOMAIN store.maps[m] : ToSet(store.maps[m][k]) \subseteq SampleIds

(* No list is longer than the engine takes.                                *)
ListsFit == \A m \in Maps : \A k \in DOMAIN store.maps[m] : Len(store.maps[m][k]) <= MaxEntries

(* A loop that is on lies in its sample, through edits, resampling,        *)
(* crossfades and cuts.                                                    *)
LoopsAreInSamples ==
    \A n \in SampleIds :
        LET s == store.samples[n]
        IN s.mode # "off" /\ s.length > 0 => Start(s) >= 0 /\ HasValidLoop(s)

(* The point that is selected in a map exists, or the point of the hit     *)
(* that was shown before is looked for in vain.                            *)
SelectedPointExists ==
    /\ Point("note") # None => HasPoint("note")
    /\ Point("hit") # None => \E h \in Hits : <<h, Point("hit")>> \in DOMAIN store.maps.hit

(* When no update is due the widgets show and allow what the data says;    *)
(* only the button that imports is not told of a copy with a crossfade.    *)
WidgetsShowSamples ==
    signals = {} /\ task = None =>
        /\ view.tools.remove = Tools.remove /\ (Tools.import => view.tools.import)
        /\ view.rows = SampleIds /\ view.enabled = HasSample /\ view.loop = LoopOf
        /\ \A m \in Maps : view.list[m] = ListOf(m) /\ (view.entry[m] = None) = ~HasPoint(m)
=============================================================================
