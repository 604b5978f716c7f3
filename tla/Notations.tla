------------------------------ MODULE Notations ------------------------------
(***************************************************************************)
(* Notations (model/notation.py) and what the typewriter makes of their    *)
(* keymaps (model/typewritermanager.py), without state.                    *)
(*                                                                         *)
(* A notation is [names, base, notes, keys, octaves, scale]: a label for   *)
(* each octave, the index of the base octave, the pitches of the notes,    *)
(* the keys of each octave (a pitch, or None for a hole), and of the       *)
(* template the lowest, centre and highest octave and the notes.  Pitches  *)
(* are in cents, as numbers; the names of notes are left out: they are     *)
(* taken to be in the order of the notes.  Indices count from zero, as in  *)
(* the program.                                                            *)
(***************************************************************************)
EXTENDS Integers, Sequences, FiniteSets, SequencesExt, FiniteSetsExt

CONSTANTS None,
          Width,       \* of an octave of a template, in cents
          UpperKeys,   \* buttons in the two upper rows of the typewriter
          LowerKeys    \* and in the two lower ones

At(s, i) == s[i + 1]
Indices(s) == 0..Len(s) - 1
SetAt(s, i, x) == [s EXCEPT ![i + 1] = x]

-----------------------------------------------------------------------------
(* Operations of Notation                                                  *)

WithOctave(n) == [n EXCEPT !.names = Append(@, Len(n.names)), !.keys = Append(@, <<>>)]

(* The keys of the octave stay in the keymap.                              *)
WithoutName(n, i) == [n EXCEPT !.names = RemoveAt(@, i + 1)]

WithKeyCount(n, octave, count) ==
    LET row == At(n.keys, octave)
    IN [n EXCEPT !.keys = SetAt(@, octave, [i \in 1..count |-> IF i <= Len(row) THEN row[i] ELSE None])]

WithKey(n, octave, key, cents) == [n EXCEPT !.keys = SetAt(@, octave, SetAt(At(@, octave), key, cents))]

BaseOf(octaves) == octaves[2] - octaves[1]

HolesAfter(count) == IF count = 12 THEN {4, 11} ELSE IF count % 2 = 1 THEN {count - 1} ELSE {}

PitchesIn(scale, octave, centre) == [i \in 1..Len(scale) |-> Width * (octave - centre) + scale[i]]

WithHoles(row) ==
    FoldLeft(LAMBDA done, i : done \o (IF i - 1 \in HolesAfter(Len(row)) THEN <<row[i], None>> ELSE <<row[i]>>),
             <<>>, [i \in 1..Len(row) |-> i])

(* apply_template_settings                                                 *)
Created(n) ==
    LET rows == [o \in 1..n.octaves[3] - n.octaves[1] + 1 |->
                    PitchesIn(n.scale, n.octaves[1] + o - 1, n.octaves[2])]
    IN [n EXCEPT !.names = [o \in DOMAIN rows |-> n.octaves[1] + o - 1],
                 !.base = BaseOf(n.octaves),
                 !.notes = FlattenSeq(rows),
                 !.keys = [o \in DOMAIN rows |-> WithHoles(rows[o])]]

Apart(a, b) == IF a < b THEN b - a ELSE a - b

(* get_note_name_and_offset: the nearest note stands for its name.         *)
NameOf(n, cents) ==
    LET nearest == CHOOSE i \in DOMAIN n.notes : \A j \in DOMAIN n.notes :
                       \/ Apart(n.notes[i], cents) < Apart(n.notes[j], cents)
                       \/ Apart(n.notes[i], cents) = Apart(n.notes[j], cents) /\ i <= j
    IN <<nearest - 1, cents - n.notes[nearest]>>

-----------------------------------------------------------------------------
(* The keys under the buttons: the current octave and those above it in    *)
(* the upper rows, those below it that fit in the lower rows.              *)

KeyIds(keys, octave) == [i \in 1..Len(At(keys, octave)) |-> <<octave, i - 1>>]
IsLarge(keys, octave) == Len(At(keys, octave)) > UpperKeys
Octaves(from, to) == [o \in 1..to - from + 1 |-> from + o - 1]

UpperIds(keys, octave) ==
    IF IsLarge(keys, octave)
    THEN SubSeq(KeyIds(keys, octave), LowerKeys + 1, Len(At(keys, octave)))
    ELSE FlattenSeq([o \in 1..Len(keys) - octave |-> KeyIds(keys, octave + o - 1)])

Total(keys, from, to) == FoldLeft(LAMBDA sum, o : sum + Len(At(keys, o)), 0, Octaves(from, to))

FirstFitting(keys, octave) == Min({o \in 0..octave : Total(keys, o, octave - 1) <= LowerKeys})

LowerIds(keys, octave) ==
    IF IsLarge(keys, octave)
    THEN SubSeq(KeyIds(keys, octave), 1, LowerKeys)
    ELSE LET first == FirstFitting(keys, octave)
         IN FlattenSeq([o \in 1..octave - first |-> KeyIds(keys, first + o - 1)])

UpTo(s, count) == SubSeq(s, 1, Min({count, Len(s)}))
ParamsAt(keys, ids) == [i \in DOMAIN ids |-> At(At(keys, ids[i][1]), ids[i][2])]

(* What the buttons of each part play, in the order of pitch.              *)
ButtonMap(keys, octave) ==
    [upper |-> UpTo(ParamsAt(keys, UpperIds(keys, octave)), UpperKeys),
     lower |-> UpTo(ParamsAt(keys, LowerIds(keys, octave)), LowerKeys)]

Buttons == ({"upper"} \X (0..UpperKeys - 1)) \cup ({"lower"} \X (0..LowerKeys - 1))
ParamOf(map, b) == IF b[2] \in Indices(map[b[1]]) THEN At(map[b[1]], b[2]) ELSE None
=============================================================================
