-------------------------------- MODULE Synths --------------------------------
(***************************************************************************)
(* What the additive synthesis and PADsynth are made of: the tones of the  *)
(* one (addparams.py, addproc.py), and of both a base wave with its warps  *)
(* (basewave.py, waveformeditor.py); the harmonics of PADsynth are made    *)
(* from its wave and its harmonic levels (padsynthparams.py).              *)
(*                                                                         *)
(* A slot of a tone holds what was written of it; a tone is there when its *)
(* slot has a pitch and a volume, and the editor shows the tones without   *)
(* the holes.  A wave is the definition it was made of, its samples and    *)
(* their spectrum are left out.  An input comes when the editor has        *)
(* followed the one before.                                                *)
(***************************************************************************)
EXTENDS Integers, Sequences, FiniteSets, SequencesExt, TLC

CONSTANTS None,
          Values,                        \* of pitches, volumes, ...; 1 is the pitch of a new tone
          Bases, PreWarps, PostWarps,    \* names of functions
          Synths,                        \* synthesisers as they were stored: what the behaviours begin with
          MaxTones, MaxWarps, MaxLevels, \* _TONES_MAX, _WARPS_MAX; bound of the model
          MaxActions                     \* bound of the model

VARIABLES store,     \* [kind, slots, def, wave, levels, harmonics]
          session,   \* [meant, edited]: the tones as they were meant to be, and what of
                     \* "wave" and "levels" was edited (history variables)
          view,      \* [tones, adder, base, on, pre, post, levels]
          signals,
          done,      \* history variable: the last input
          failed, actions

vars == <<store, session, view, signals, done, failed, actions>>

Silent == -9           \* the volume of a tone that is not there, -inf
Parts == {"pitch", "volume", "panning"}
Empty == [part \in Parts |-> None]

-----------------------------------------------------------------------------
(* Tones                                                                   *)
DefaultOf(i, part) ==
    CASE part = "pitch" -> (IF i = 0 THEN 1 ELSE 0)
      [] part = "volume" -> (IF i = 0 THEN 0 ELSE Silent)
      [] OTHER -> 0
SlotAt(slots, i) == IF i \in DOMAIN slots THEN slots[i] ELSE Empty
ToneAt(slots, i) ==
    [part \in Parts |-> IF SlotAt(slots, i)[part] = None THEN DefaultOf(i, part) ELSE slots[i][part]]
Exists(slots, i) == ToneAt(slots, i).pitch > 0 /\ ToneAt(slots, i).volume # Silent

Indices == [n \in 1..MaxTones |-> n - 1]
Tones(slots) == [n \in DOMAIN SelectSeq(Indices, LAMBDA i : Exists(slots, i)) |->
                    ToneAt(slots, SelectSeq(Indices, LAMBDA i : Exists(slots, i))[n])]
HasHoles(slots) == \E i \in 0..Len(Tones(slots)) - 1 : ~Exists(slots, i)

NewTone == [pitch |-> 1, volume |-> 0, panning |-> 0]
Cleared(i) == IF i = 0 THEN [Empty EXCEPT !.pitch = 0] ELSE Empty
Put(slots, i, slot) == (i :> slot) @@ slots
AllSet(tones) == [i \in 0..MaxTones - 1 |-> IF i < Len(tones) THEN tones[i + 1] ELSE Cleared(i)]

Added(slots) ==
    IF HasHoles(slots) THEN AllSet(Append(Tones(slots), NewTone)) ELSE Put(slots, Len(Tones(slots)), NewTone)
Changed(slots, i, part, v) ==
    IF HasHoles(slots) THEN AllSet([Tones(slots) EXCEPT ![i + 1][part] = v])
    ELSE Put(slots, i, [SlotAt(slots, i) EXCEPT ![part] = v])
Removed(slots, i) ==
    IF HasHoles(slots) THEN AllSet(RemoveAt(Tones(slots), i + 1)) ELSE Put(slots, i, Cleared(i))

-----------------------------------------------------------------------------
(* Base waves: what is valid of the stored definition                      *)
NamesOf(list) == IF list = "pre" THEN PreWarps ELSE PostWarps
Clean(warps, list) ==
    LET valid == SelectSeq(warps, LAMBDA w : w[1] \in NamesOf(list) /\ w[2] \in Values)
    IN  SubSeq(valid, 1, IF Len(valid) < MaxWarps THEN Len(valid) ELSE MaxWarps)
BaseOf(def, wave) ==
    IF def.base \in Bases THEN def.base ELSE IF wave = None THEN "Sine" ELSE None
Definition(s) ==
    [base |-> BaseOf(s.def, s.wave), pre |-> Clean(s.def.pre, "pre"), post |-> Clean(s.def.post, "post")]

(* _get_harmonic_levels_data, _update_harmonics                            *)
Levels(s) == IF s.levels = <<>> THEN <<<<1, 0>>>> ELSE s.levels
WithHarmonics(s) == [s EXCEPT !.harmonics = [wave |-> s.wave, levels |-> Levels(s)]]
WithWave(s, def) == WithHarmonics([s EXCEPT !.def = def, !.wave = def])
WithLevels(s, levels) == WithHarmonics([s EXCEPT !.levels = levels])

MovedEntry(warps, from, to) == InsertAt(RemoveAt(warps, from), to, warps[from])

-----------------------------------------------------------------------------
(* The editors                                                             *)
WarpsOn(def) == def.base # None
CanAdd(count, max) == count < max

Shown(s) ==
    LET def == Definition(s)
        tones == IF s.kind = "tones" THEN Tones(s.slots) ELSE <<>>
    IN  [tones |-> tones, toneAdder |-> CanAdd(Len(tones), MaxTones),
         base |-> IF def.base = None THEN "Custom" ELSE def.base, on |-> WarpsOn(def),
         pre |-> def.pre, post |-> def.post,
         adders |-> {list \in {"pre", "post"} : CanAdd(Len(def[list]), MaxWarps)},
         levels |-> Levels(s), removable |-> Len(Levels(s)) > 1]

(* The rows of an EditorList: the last ones go, new ones come behind.      *)
RowsAfter(rows, entries) == entries

Update ==
    /\ signals # {} /\ failed = "no"
    /\ view' = LET now == Shown(store)
                   After(list) == RowsAfter(view[list], now[list])
               IN  IF signals = {"tones"} THEN [view EXCEPT !.tones = After("tones"), !.toneAdder = now.toneAdder]
                   ELSE [now EXCEPT !.pre = After("pre"), !.post = After("post"), !.levels = After("levels"),
                                    !.tones = view.tones, !.toneAdder = view.toneAdder]
    /\ signals' = {}
    /\ done' = [name |-> "update"]
    /\ UNCHANGED <<store, session, failed, actions>>

Init ==
    /\ store \in Synths
    /\ session = [meant |-> IF store.kind = "tones" THEN Tones(store.slots) ELSE <<>>, edited |-> {}]
    /\ view = Shown(store)
    /\ signals = {} /\ done = [name |-> "none"] /\ failed = "no" /\ actions = 0

-----------------------------------------------------------------------------
(* Inputs                                                                  *)
CanAct == failed = "no" /\ signals = {} /\ actions < MaxActions
Acts(what, updates) ==
    /\ actions' = actions + 1
    /\ signals' = updates
    /\ done' = what
Of(kind) == CanAct /\ store.kind = kind

TonesBecome(slots, meant) ==
    /\ store' = [store EXCEPT !.slots = slots]
    /\ session' = [session EXCEPT !.meant = meant]
    /\ UNCHANGED <<view, failed>>

AddTone ==
    /\ Of("tones") /\ view.toneAdder
    /\ TonesBecome(Added(store.slots), Append(session.meant, NewTone))
    /\ Acts([name |-> "addTone"], {"tones"})

(* The widgets of a row change a part of its tone.                         *)
ChangeTone ==
    /\ Of("tones")
    /\ \E i \in 0..Len(view.tones) - 1 : \E part \in Parts : \E v \in Values :
        /\ part = "pitch" => v > 0
        /\ v # view.tones[i + 1][part]
        /\ TonesBecome(Changed(store.slots, i, part, v), [session.meant EXCEPT ![i + 1][part] = v])
    /\ Acts([name |-> "changeTone"], {"tones"})

(* The first row has no button that removes it.                            *)
RemoveTone ==
    /\ Of("tones")
    /\ \E i \in 1..Len(view.tones) - 1 :
        TonesBecome(Removed(store.slots, i), RemoveAt(session.meant, i + 1))
    /\ Acts([name |-> "removeTone"], {"tones"})

(* _update_waveform: what it is made of has to be known.                   *)
WaveBecomes(def) ==
    /\ store' = IF def.base = None THEN store ELSE WithWave(store, def)
    /\ failed' = IF def.base = None THEN "key" ELSE "no"
    /\ session' = [session EXCEPT !.edited = @ \cup {"wave"}]
    /\ UNCHANGED view
WarpsBecome(list, warps) == WaveBecomes([Definition(store) EXCEPT ![list] = warps])

SelectBase ==
    /\ Of("padsynth")
    /\ \E base \in Bases \ {view.base} : WaveBecomes([Definition(store) EXCEPT !.base = base])
    /\ Acts([name |-> "base"], {"padsynth"})

AddWarp ==
    /\ Of("padsynth") /\ view.on
    /\ \E list \in view.adders : WarpsBecome(list, Append(Definition(store)[list], <<"Shift", 0>>))
    /\ Acts([name |-> "addWarp"], {"padsynth"})

(* The function and the value of a row are set together.                   *)
SetWarp ==
    /\ Of("padsynth") /\ view.on
    /\ \E list \in {"pre", "post"} : \E i \in DOMAIN view[list] :
        \E warp \in ((NamesOf(list) \X {view[list][i][2]}) \cup ({view[list][i][1]} \X Values)) \ {view[list][i]} :
            WarpsBecome(list, ReplaceAt(Definition(store)[list], i, warp))
    /\ Acts([name |-> "setWarp"], {"padsynth"})

MoveWarp ==
    /\ Of("padsynth") /\ view.on
    /\ \E list \in {"pre", "post"} : \E i, j \in DOMAIN view[list] :
        /\ j \in {i - 1, i + 1}
        /\ WarpsBecome(list, MovedEntry(Definition(store)[list], i, j))
        /\ Acts([name |-> "move", list |-> list, rows |-> <<i, j>>], {"padsynth"})

RemoveWarp ==
    /\ Of("padsynth") /\ view.on
    /\ \E list \in {"pre", "post"} : \E i \in DOMAIN view[list] :
        WarpsBecome(list, RemoveAt(Definition(store)[list], i))
    /\ Acts([name |-> "removeWarp"], {"padsynth"})

LevelsBecome(levels) ==
    /\ store' = WithLevels(store, levels)
    /\ session' = [session EXCEPT !.edited = @ \cup {"levels"}]
    /\ UNCHANGED <<view, failed>>

AddLevel ==
    /\ Of("padsynth") /\ Len(Levels(store)) < MaxLevels
    /\ LevelsBecome(Append(Levels(store), <<Len(Levels(store)) + 1, 0>>))
    /\ Acts([name |-> "addLevel"], {"padsynth"})

ChangeLevel ==
    /\ Of("padsynth")
    /\ \E i \in DOMAIN view.levels : \E part \in {1, 2} : \E v \in Values \ {view.levels[i][part]} :
        /\ part = 1 => v > 0
        /\ i <= Len(Levels(store))
        /\ LevelsBecome([Levels(store) EXCEPT ![i][part] = v])
    /\ Acts([name |-> "changeLevel"], {"padsynth"})

RemoveLevel ==
    /\ Of("padsynth") /\ view.removable
    /\ \E i \in DOMAIN view.levels : LevelsBecome(RemoveAt(Levels(store), i))
    /\ Acts([name |-> "removeLevel"], {"padsynth"})

Next == Update \/ AddTone \/ ChangeTone \/ RemoveTone \/ SelectBase \/ AddWarp \/ SetWarp \/ MoveWarp
    \/ RemoveWarp \/ AddLevel \/ ChangeLevel \/ RemoveLevel
Spec == Init /\ [][Next]_vars

-----------------------------------------------------------------------------
(* Properties                                                              *)

SynthTypeOK ==
    /\ store.kind \in {"tones", "padsynth"}
    /\ DOMAIN store.slots \subseteq 0..MaxTones - 1
    /\ store.kind = "padsynth" => Len(Levels(store)) \in 1..MaxLevels
    /\ \A list \in {"pre", "post"} :
        "wave" \in session.edited => Len(store.def[list]) <= MaxWarps
    /\ failed \in {"no", "key"}

(* Behind the slots with their holes, their parts that were never written  *)
(* and their packing, the tones are the list that the edits were meant to  *)
(* make: adding appends a tone, an edit changes one part of one tone, and  *)
(* a removal takes out one tone (add_tone, set_tone_*, remove_tone).       *)
TonesAreAsMeant == store.kind = "tones" => Tones(store.slots) = session.meant

(* Once the signals have been followed the editors show what is stored.    *)
EditorShowsSynth == signals = {} /\ failed = "no" => view = Shown(store)

(* Once something was edited, what PADsynth makes its samples of belongs   *)
(* to the wave and the levels its editor shows (_update_harmonics).        *)
HarmonicsFollow ==
    session.edited # {} /\ signals = {} /\ failed = "no" =>
        /\ store.harmonics.levels = view.levels
        /\ "wave" \in session.edited =>
            store.harmonics.wave = [base |-> view.base, pre |-> view.pre, post |-> view.post]

(* No wave is made of a function that is not known.                        *)
SynthHandlersSucceed == failed = "no"

(* Moving a warp exchanges it with the one beside it and leaves the others *)
(* (move_warp_func).                                                       *)
MoveSwaps ==
    LET old == Definition(store)[done'.list]
        i == done'.rows[1]
        j == done'.rows[2]
    IN  Definition(store')[done'.list] = [old EXCEPT ![i] = old[j], ![j] = old[i]]
WarpMovesSwap == [][(done'.name = "move" /\ actions' # actions) => MoveSwaps]_vars
=============================================================================
