---------------------------- MODULE NotationEditor ----------------------------
(***************************************************************************)
(* The notation editor (views/notationeditor.py, model/notationmanager.py) *)
(* beside the typewriter that plays what it edits.                         *)
(*                                                                         *)
(* The session says what is selected in each list, as indices into the     *)
(* data; every input writes the store at once, and the widgets follow with *)
(* the signals it raises.  Names and the pitches of the template are left  *)
(* out but for the offsets of its notes; a tuning table is only there or   *)
(* not.                                                                    *)
(***************************************************************************)
EXTENDS Typewriter

CONSTANTS TableIds,
          TemplateOctaves,   \* the values of the spin boxes
          Cents,             \* pitches that are entered
          MaxCustom, MaxOctaves, MaxNotes, MaxKeys   \* bounds of the model

vars == <<store, session, player, view, signals, done, failed, actions>>

HasNotation == session.notation # None
Notation == store.custom[session.notation]
HasOctave == HasNotation /\ session.octaveAt # None
HasKey == HasOctave /\ session.key # None
KeysOfOctave == At(Notation.keys, session.octaveAt)
KeyExists == session.key \in Indices(KeysOfOctave)
FreeTables == TableIds \ store.tables
NoteCount == Len(Notation.scale)

-----------------------------------------------------------------------------
(* Updates of the editor                                                   *)

KeySignals == {"selection", "octaves", "octaveSelection", "keySelection", "key"}
KeyRowSignals == {"selection", "octaveSelection", "notes", "keyCount", "keySelection", "key"}
NoteItemSignals == {"selection", "notes"}

IsUnnamed(row) == HasNotation /\ Notation.notes = <<>> /\ \E i \in DOMAIN row : row[i] # None

EditorFailure ==
    IF \/ "list" \in signals /\ HasNotation /\ session.notation > Len(store.custom)
       \/ Got({"selection", "octaves"}) /\ HasOctave /\ session.octaveAt \notin Indices(Notation.names)
       \/ Got({"selection", "octaves", "octaveSelection"}) /\ HasOctave /\
              session.octaveAt \notin Indices(Notation.keys)
       \/ Got(NoteItemSignals) /\ HasNotation /\ session.note # None /\
              session.note \notin Indices(Notation.notes)
    THEN "error"
    ELSE IF Got(KeySignals \cup NoteItemSignals) /\ HasKey /\ ~KeyExists THEN "key"
    ELSE IF Got(KeyRowSignals \cup KeySignals) /\ HasOctave /\ IsUnnamed(KeysOfOctave) THEN "name" ELSE "no"

ShownTemplate(shown) ==
    LET rows == IF HasNotation THEN NoteCount ELSE 0
        whole == Got({"list", "selection"})
    IN [on |-> IF whole \/ Got({"templateNotes", "tables"}) THEN HasNotation ELSE shown.on,
        create |-> IF HasNotation /\ (whole \/ Got({"templateNotes", "tables"}))
                   THEN rows > 0 ELSE shown.create,
        table |-> IF HasNotation /\ (whole \/ Got({"templateNotes", "tables"}))
                  THEN rows > 0 /\ FreeTables # {} ELSE shown.table,
        range |-> IF HasNotation /\ (whole \/ Got({"templateOctaves"}))
                  THEN <<Notation.octaves[1], Notation.octaves[3]>> ELSE shown.range,
        rows |-> IF whole \/ Got({"templateNotes"}) THEN rows ELSE shown.rows,
        remove |-> IF whole \/ Got({"templateNotes", "templateNote"})
                   THEN HasNotation /\ session.templateNote # None ELSE shown.remove]

ShownOctaveList(shown) ==
    [rows |-> IF Got({"selection", "octaves"}) THEN (IF HasNotation THEN Len(Notation.names) ELSE 0) ELSE shown.rows,
     on |-> IF Got({"selection", "octaves", "octaveSelection"}) THEN HasNotation ELSE shown.on,
     remove |-> IF HasNotation /\ Got({"selection", "octaves", "octaveSelection"})
                THEN HasOctave /\ Len(Notation.names) > 1 ELSE shown.remove,
     base |-> IF HasNotation /\ Got({"selection", "octaves", "octaveSelection"}) THEN HasOctave ELSE shown.base]

ShownNotes(shown) ==
    LET some == HasNotation /\ session.note # None
        all == Got({"selection", "notes", "noteSelection"})
    IN [rows |-> IF Got(NoteItemSignals) THEN (IF HasNotation THEN Len(Notation.notes) ELSE 0) ELSE shown.rows,
        on |-> IF all THEN HasNotation ELSE shown.on,
        remove |-> IF all /\ HasNotation THEN some ELSE shown.remove,
        edit |-> IF all THEN some ELSE shown.edit,
        cents |-> IF all /\ some THEN At(Notation.notes, session.note) ELSE shown.cents]

(* A key shows the nearest note and how far it is, a hole shows None.      *)
KeyTexts == [i \in DOMAIN KeysOfOctave |->
                IF KeysOfOctave[i] = None THEN None ELSE NameOf(Notation, KeysOfOctave[i])]

ShownKeys(shown) ==
    LET edit == Got(KeySignals)
        cents == IF HasKey THEN At(KeysOfOctave, session.key) ELSE None
    IN [count |-> IF Got({"selection", "octaves", "octaveSelection"})
                  THEN (IF HasOctave THEN Len(KeysOfOctave) ELSE None) ELSE shown.count,
        texts |-> IF Got(KeyRowSignals) THEN (IF HasOctave THEN KeyTexts ELSE <<>>) ELSE shown.texts,
        pressed |-> IF Got(KeyRowSignals) THEN session.key ELSE shown.pressed,
        on |-> IF edit THEN HasKey ELSE shown.on,
        enabled |-> IF edit /\ HasKey THEN cents # None ELSE shown.enabled,
        cents |-> IF edit /\ HasKey /\ cents # None THEN cents ELSE shown.cents,
        items |-> IF Got(NoteItemSignals) THEN (IF HasNotation THEN Notation.notes ELSE <<>>) ELSE shown.items]

ShownLists(shown) ==
    [rows |-> IF Got({"list"}) THEN Len(store.custom) ELSE shown.rows,
     remove |-> IF Got({"list", "selection"}) THEN Len(store.custom) > 0 /\ HasNotation ELSE shown.remove,
     tables |-> IF Got({"tables"}) THEN store.tables ELSE shown.tables,
     addTable |-> IF Got({"tables", "tableSelection"}) THEN FreeTables # {} ELSE shown.addTable,
     onTable |-> IF Got({"tables", "tableSelection"}) THEN session.table # None ELSE shown.onTable]

Update ==
    /\ signals # {} /\ failed = "no"
    /\ LET failures == {EditorFailure, TypewriterFailure} \ {"no"}
       IN IF failures # {}
          THEN failed' \in failures /\ UNCHANGED <<session, view>>
          ELSE /\ Succeeds
               /\ session' = SessionShown
               /\ view' = [lists |-> ShownLists(view.lists), template |-> ShownTemplate(view.template),
                           octaves |-> ShownOctaveList(view.octaves), notes |-> ShownNotes(view.notes),
                           keys |-> ShownKeys(view.keys), type |-> ShownTypewriter(view.type)]
    /\ signals' = {}
    /\ done' = [name |-> "none"]
    /\ UNCHANGED <<store, player, actions>>

Init ==
    \E b \in Beginnings :
        /\ store = b.store
        /\ session = b.session
        /\ held = [k \in Buttons |-> None]
        /\ sounding = [c \in Channels |-> None]
        /\ view = [lists |-> [rows |-> 0, remove |-> FALSE, tables |-> {}, addTable |-> TRUE, onTable |-> FALSE],
                   template |-> [on |-> TRUE, create |-> TRUE, table |-> TRUE, range |-> <<0, 0>>, rows |-> 0,
                                 remove |-> FALSE],
                   octaves |-> [rows |-> 0, on |-> FALSE, remove |-> FALSE, base |-> FALSE],
                   notes |-> [rows |-> 0, on |-> FALSE, remove |-> FALSE, edit |-> FALSE, cents |-> 0],
                   keys |-> [count |-> None, texts |-> <<>>, pressed |-> None, on |-> FALSE, enabled |-> FALSE,
                             cents |-> 0, items |-> <<>>],
                   type |-> [items |-> 0, item |-> 0, on |-> TRUE, octaves |-> [count |-> 0, pressed |-> 0],
                             buttons |-> {}]]
        /\ signals = {"list", "selection", "tables", "notation", "keymap", "octave"}
        /\ done = [name |-> "none"]
        /\ failed = "no"
        /\ actions = 0

-----------------------------------------------------------------------------
(* The lists of notations and tuning tables                                *)

Edit(n) == store' = [store EXCEPT !.custom[session.notation] = n]
Tell(se) == session' = Notified(se, session.notation)
SelectsNothing(se) ==
    [se EXCEPT !.octaveAt = None, !.note = None, !.key = None, !.templateNote = None, !.lowered = FALSE]

AddNotation ==
    /\ CanAct /\ Len(store.custom) < MaxCustom
    /\ store' = [store EXCEPT !.custom = Append(@, Shared)]
    /\ Acts("add", {"list"}) /\ Succeeds /\ UNCHANGED <<session, player>>

(* moved: the notation in use has another id, or an octave that it has not.*)
MovedBy(id) ==
    \/ id < session.chosen
    \/ id = ChosenIn(store, session) /\ ~session.hits /\ session.octave # None
           /\ session.octave \notin Indices(Shared.keys)

RemoveNotation ==
    /\ CanAct /\ view.lists.remove
    /\ LET id == session.notation
           used == id = ChosenIn(store, session)
       IN /\ store' = [store EXCEPT !.custom = RemoveAt(@, id)]
          /\ session' = Notified([SelectsNothing(session) EXCEPT
                                     !.notation = None, !.chosen = IF used THEN 0 ELSE @,
                                     !.moved = @ \/ MovedBy(id), !.changed = @ \/ IsHeld], id)
    /\ Acts("remove", {"notation", "list", "selection"}) /\ Succeeds /\ UNCHANGED player

Selects(se, id) == [SelectsNothing(se) EXCEPT !.notation = id]

SelectNotation ==
    /\ CanAct
    /\ \E id \in 1..view.lists.rows : session' = Selects(session, id)
    /\ Acts("select", {"selection"}) /\ Succeeds /\ UNCHANGED <<store, player>>

AddTable ==
    /\ CanAct /\ view.lists.addTable
    /\ store' = [store EXCEPT !.tables = @ \cup {Min(FreeTables)}]
    /\ Acts("table", {"tables"}) /\ Succeeds /\ UNCHANGED <<session, player>>

(* Wrong: the editor of the table stays open.                              *)
StillOpen(id) == session.open
OpenWithout(id) == session.open \ {id}

RemoveTable ==
    /\ CanAct /\ view.lists.onTable
    /\ store' = [store EXCEPT !.tables = @ \ {session.table}]
    /\ session' = [session EXCEPT !.table = None, !.open = OpenWithout(session.table)]
    /\ Acts("table", {"tables", "tableSelection"}) /\ Succeeds /\ UNCHANGED player

SelectTable ==
    /\ CanAct
    /\ \E id \in view.lists.tables : session' = [session EXCEPT !.table = id]
    /\ Acts("table", {"tableSelection"}) /\ Succeeds /\ UNCHANGED <<store, player>>

OpenTable ==
    /\ CanAct /\ view.lists.onTable
    /\ session' = [session EXCEPT !.open = @ \cup {session.table}]
    /\ Acts("table", {}) /\ Succeeds /\ UNCHANGED <<store, player>>

-----------------------------------------------------------------------------
(* The template                                                            *)

OnTemplate == CanAct /\ view.template.on
Larger(a, b) == IF a < b THEN b ELSE a
Smaller(a, b) == IF a < b THEN a ELSE b

Raised(octaves, v) == <<v, Larger(v, octaves[2]), Larger(v, octaves[3])>>
Lowered(octaves, v) == <<Smaller(octaves[1], v), Smaller(octaves[2], v), v>>

ChangeTemplateOctaves ==
    /\ OnTemplate
    /\ \E v \in TemplateOctaves :
        LET octaves == Notation.octaves
        IN \/ /\ v # octaves[1] /\ Succeeds
              /\ Edit([Notation EXCEPT !.octaves = Raised(octaves, v)])
           \/ /\ v # octaves[2] /\ view.template.range[1] <= v /\ v <= view.template.range[2]
              /\ IF octaves[1] <= v /\ v <= octaves[3]
                 THEN Succeeds /\ Edit([Notation EXCEPT !.octaves[2] = v])
                 ELSE failed' = "error" /\ UNCHANGED store
           \/ /\ v # octaves[3] /\ Succeeds
              /\ Edit([Notation EXCEPT !.octaves = Lowered(octaves, v)])
    /\ Tell(session)
    /\ Acts("octaves", {"templateOctaves"}) /\ UNCHANGED player

AddTemplateNote ==
    /\ OnTemplate /\ NoteCount < MaxNotes
    /\ Edit([Notation EXCEPT !.scale = Append(@, 0)]) /\ Tell(session)
    /\ Acts("template", {"templateNotes"}) /\ Succeeds /\ UNCHANGED player

RowAfter(row, count) == IF count = 0 THEN None ELSE Min({row, count - 1})

RemoveTemplateNote ==
    /\ OnTemplate /\ view.template.remove
    /\ IF session.templateNote \in Indices(Notation.scale)
       THEN /\ Edit([Notation EXCEPT !.scale = RemoveAt(@, session.templateNote + 1)])
            /\ Tell([session EXCEPT !.templateNote = RowAfter(@, NoteCount - 1)])
            /\ Succeeds
       ELSE failed' = "error" /\ UNCHANGED <<store, session>>
    /\ Acts("template", {"templateNotes"}) /\ UNCHANGED player

SelectTemplateNote ==
    /\ OnTemplate
    /\ \E row \in 0..view.template.rows - 1 : session' = [session EXCEPT !.templateNote = row]
    /\ Acts("template", {"templateNote"}) /\ Succeeds /\ UNCHANGED <<store, player>>

ChangeTemplateNote ==
    /\ OnTemplate
    /\ \E row \in 0..view.template.rows - 1, c \in Cents :
        /\ c # At(Notation.scale, row)
        /\ Edit([Notation EXCEPT !.scale = SetAt(@, row, c)])
    /\ Tell(session)
    /\ Acts("template", {"templateNotes"}) /\ Succeeds /\ UNCHANGED player

WithinOctaves(se, new) ==
    IF session.notation = ChosenIn(store, session) /\ Octave >= Len(new.names)
    THEN WithOctaveSet(se, Len(new.names) - 1) ELSE se

Create ==
    /\ OnTemplate /\ view.template.create
    /\ LET new == Created(Notation)
           told == Notified([session EXCEPT !.octaveAt = None, !.note = None, !.key = None], session.notation)
           to == WithinOctaves(told, new)
       IN /\ Edit(new) /\ session' = to
          /\ Acts("create", {"notation", "octaves", "octaveSelection", "notes", "noteSelection", "keyCount",
                             "keySelection"} \cup (IF to # told THEN {"octave"} ELSE {}))
    /\ Succeeds /\ UNCHANGED player

CreateTable ==
    /\ OnTemplate /\ view.template.table
    /\ IF FreeTables # {} THEN Succeeds /\ store' = [store EXCEPT !.tables = @ \cup {Min(FreeTables)}]
       ELSE failed' = "error" /\ UNCHANGED store
    /\ Acts("table", {"tables"}) /\ UNCHANGED <<session, player>>

-----------------------------------------------------------------------------
(* Octaves and notes                                                       *)

AddOctave ==
    /\ CanAct /\ view.octaves.on /\ Len(Notation.keys) < MaxOctaves
    /\ Edit(WithOctave(Notation)) /\ Tell(session)
    /\ Acts("octaves", {"notation", "octaves"}) /\ Succeeds /\ UNCHANGED player

(* Wrong: the base moves only when it is above the removed octave.         *)
BaseAbove(base, removed) == IF base > removed THEN base - 1 ELSE base
BaseAfter(base, removed) == IF base > 0 /\ base >= removed THEN base - 1 ELSE base

RemoveOctave ==
    /\ CanAct /\ view.octaves.on /\ view.octaves.remove
    /\ LET o == session.octaveAt
       IN IF o \in Indices(Notation.names) /\ Len(Notation.names) > 1
          THEN /\ Edit([WithoutName(Notation, o) EXCEPT !.base = BaseAfter(@, o)])
               /\ Tell([session EXCEPT !.octaveAt = Max({0, o - 1}), !.key = None])
               /\ Succeeds
          ELSE failed' = "error" /\ UNCHANGED <<store, session>>
    /\ Acts("removeOctave", {"notation", "octaves", "octaveSelection"}) /\ UNCHANGED player

SetBase ==
    /\ CanAct /\ view.octaves.on /\ view.octaves.base
    /\ IF session.octaveAt \in Indices(Notation.names)
       THEN Edit([Notation EXCEPT !.base = session.octaveAt]) /\ Tell(session) /\ Succeeds
       ELSE failed' = "error" /\ UNCHANGED <<store, session>>
    /\ Acts("base", {"octaves"}) /\ UNCHANGED player

SelectOctave ==
    /\ CanAct /\ view.octaves.on
    /\ \E o \in 0..view.octaves.rows - 1 : session' = [session EXCEPT !.octaveAt = o, !.key = None, !.lowered = FALSE]
    /\ Acts("octaves", {"octaveSelection"}) /\ Succeeds /\ UNCHANGED <<store, player>>

AddNote ==
    /\ CanAct /\ view.notes.on /\ Len(Notation.notes) < MaxNotes
    /\ Edit([Notation EXCEPT !.notes = Append(@, 0)]) /\ Tell(session)
    /\ Acts("notes", {"notation", "notes"}) /\ Succeeds /\ UNCHANGED player

NoteAfter(index) == None

(* Remove, and the pitch of the selected note.                             *)
EditNote ==
    /\ CanAct /\ view.notes.on
    /\ \E c \in Cents \cup {None} :
        IF session.note \notin Indices(Notation.notes)
        THEN (view.notes.edit \/ view.notes.remove) /\ failed' = "error" /\ UNCHANGED <<store, session>>
        ELSE /\ Succeeds
             /\ IF c = None
                THEN /\ view.notes.remove
                     /\ Edit([Notation EXCEPT !.notes = RemoveAt(@, session.note + 1)])
                     /\ Tell([session EXCEPT !.note = NoteAfter(@)])
                ELSE /\ view.notes.edit /\ c # view.notes.cents
                     /\ Edit([Notation EXCEPT !.notes = SetAt(@, session.note, c)])
                     /\ Tell(session)
    /\ Acts("notes", {"notation", "notes"}) /\ UNCHANGED player

SelectNote ==
    /\ CanAct /\ view.notes.on
    /\ \E i \in 0..view.notes.rows - 1 : session' = [session EXCEPT !.note = i]
    /\ Acts("notes", {"noteSelection"}) /\ Succeeds /\ UNCHANGED <<store, player>>

-----------------------------------------------------------------------------
(* The keymap                                                              *)

(* lowered: the selected key has been left out, which the key editor       *)
(* does not notice.                                                        *)
ChangeKeyCount ==
    /\ CanAct /\ view.keys.count # None
    /\ \E n \in 0..MaxKeys :
        /\ n # view.keys.count
        /\ Edit(WithKeyCount(Notation, session.octaveAt, n))
        /\ Tell([session EXCEPT !.lowered = @ \/ (session.key # None /\ session.key >= n)])
        /\ view' = [view EXCEPT !.keys.count = n]
    /\ Tells("keys", {"notation", "keyCount"}) /\ Succeeds /\ UNCHANGED player

SelectKey ==
    /\ CanAct /\ view.keys.count # None
    /\ \E i \in Indices(view.keys.texts) : session' = [session EXCEPT !.key = i, !.lowered = FALSE]
    /\ Acts("keys", {"keySelection"}) /\ Succeeds /\ UNCHANGED <<store, player>>

PitchOfNewKey == view.keys.cents

(* The box turns the key on and off; the spin box and the list of notes    *)
(* change its pitch.                                                       *)
EditKey ==
    /\ CanAct /\ view.keys.on
    /\ \E c \in Cents \cup {None, PitchOfNewKey} \cup ToSet(view.keys.items) :
        /\ IF view.keys.enabled THEN c # view.keys.cents ELSE c = PitchOfNewKey
        /\ IF KeyExists
           THEN Edit(WithKey(Notation, session.octaveAt, session.key, c)) /\ Tell(session) /\ Succeeds
           ELSE failed' = "key" /\ UNCHANGED <<store, session>>
    /\ Acts("key", {"notation", "key"}) /\ UNCHANGED player

-----------------------------------------------------------------------------
Lists == AddNotation \/ RemoveNotation \/ SelectNotation \/ AddTable \/ RemoveTable \/ SelectTable \/ OpenTable
OnTemplates == ChangeTemplateOctaves \/ AddTemplateNote \/ RemoveTemplateNote \/ SelectTemplateNote
    \/ ChangeTemplateNote \/ Create \/ CreateTable
OnOctaves == AddOctave \/ RemoveOctave \/ SetBase \/ SelectOctave
OnNotes == AddNote \/ EditNote \/ SelectNote
OnKeys == ChangeKeyCount \/ SelectKey \/ EditKey

EditorStep == Lists \/ OnTemplates \/ OnOctaves \/ OnNotes \/ OnKeys

Next == Update \/ TypewriterStep \/ EditorStep

Spec == Init /\ [][Next]_vars

-----------------------------------------------------------------------------
Index(s) == Indices(s) \cup {None}

NotationTypeOK ==
    /\ \A i \in DOMAIN store.custom :
        LET n == store.custom[i]
        IN /\ n.base \in Nat /\ n.notes \in Seq(Int) /\ n.scale \in Seq(Int)
           /\ n.octaves \in TemplateOctaves \X TemplateOctaves \X TemplateOctaves
    /\ store.tables \subseteq TableIds
    /\ session.chosen \in 0..MaxCustom + 1 /\ session.octave \in Nat \cup {None}
    /\ session.hits \in BOOLEAN /\ session.chordMode \in BOOLEAN
    /\ \A b \in Buttons : held[b] = None \/ held[b] \in [channel : Channels, alive : BOOLEAN]
    /\ sounding \in [Channels -> Buttons \cup {None}]
    /\ failed \in {"no", "error", "key", "octave", "name"} /\ actions \in 0..MaxPlayed

(* What is selected in each list of the editor is there, and the editor of *)
(* a tuning table is open only while the table exists; each input that     *)
(* removes something moves or clears its own selection.                    *)
SelectionsExist ==
    /\ HasNotation => session.notation \in DOMAIN store.custom
    /\ HasNotation => session.octaveAt \in Index(Notation.names)
    /\ HasNotation => session.note \in Index(Notation.notes)
    /\ HasNotation => session.templateNote \in Index(Notation.scale)
    /\ session.table \in store.tables \cup {None}
    /\ session.open \subseteq store.tables

(* Handlers and updates find what they refer to: nothing fails, but for a  *)
(* key that the count has left out, keys without notes to name them, and   *)
(* the octave of a notation that has been removed under the typewriter.    *)
HandlersSucceed ==
    /\ failed # "error"
    /\ failed = "key" => session.lowered
    /\ failed = "octave" => session.moved
    /\ failed = "name" => \E i \in DOMAIN store.custom : store.custom[i].notes = <<>>

(* The base octave of a notation is the same octave after another one has  *)
(* been removed, and always one of those that are there.                   *)
KeepsBase ==
    LET old == Notation
        new == store'.custom[session.notation]
    IN /\ new.base \in Indices(new.names)
       /\ session.octaveAt # old.base => At(new.names, new.base) = At(old.names, old.base)
BaseFollowsItsOctave ==
    [][(done'.name = "removeOctave" /\ actions' # actions /\ failed' = "no") => KeepsBase]_vars

(* A notation made from its template plays in the base octave the notes of *)
(* the template, and each key plays exactly one of the notes.              *)
CreatedKeymapPlaysTemplate ==
    (done.name = "create" /\ failed = "no") =>
        LET base == At(Notation.keys, Notation.base)
        IN /\ SelectSeq(base, LAMBDA c : c # None) = Notation.scale
           /\ At(Notation.names, Notation.base) = Notation.octaves[2]
           /\ \A i \in DOMAIN Notation.keys : ToSet(Notation.keys[i]) \subseteq ToSet(Notation.notes) \cup {None}

(* The lowest octave of a template is never above the centre, nor the      *)
(* centre above the highest, whichever of the three boxes is changed.      *)
TemplateOctavesInOrder ==
    \A i \in DOMAIN store.custom :
        LET o == store.custom[i].octaves IN o[1] <= o[2] /\ o[2] <= o[3]

(* Once the widgets have followed the signals of an input, each of them    *)
(* shows the data: none is left out by the signals that the input raises.  *)
ListsAreShown ==
    /\ view.lists.rows = Len(store.custom)
    /\ view.lists.remove = (Len(store.custom) > 0 /\ HasNotation)
    /\ view.lists.tables = store.tables
    /\ view.lists.addTable = (FreeTables # {})
    /\ view.lists.onTable = (session.table # None)
    /\ view.template.on = HasNotation
NotationIsShown ==
    /\ view.template.rows = NoteCount
    /\ view.template.create = (NoteCount > 0)
    /\ view.template.table = (NoteCount > 0 /\ FreeTables # {})
    /\ view.template.range = <<Notation.octaves[1], Notation.octaves[3]>>
    /\ view.octaves.rows = Len(Notation.names)
    /\ view.octaves.remove = (HasOctave /\ Len(Notation.names) > 1)
    /\ view.notes.rows = Len(Notation.notes)
    /\ view.notes.edit = (session.note # None)
    /\ session.note # None => view.notes.cents = At(Notation.notes, session.note)
KeysAreShown ==
    /\ view.keys.count = Len(KeysOfOctave)
    /\ view.keys.texts = KeyTexts
    /\ view.keys.items = Notation.notes
    /\ view.keys.on = HasKey
    /\ HasKey => /\ view.keys.enabled = (At(KeysOfOctave, session.key) # None)
                 /\ view.keys.enabled => view.keys.cents = At(KeysOfOctave, session.key)
EditorShowsNotation ==
    (signals = {} /\ failed = "no") =>
        /\ ListsAreShown
        /\ HasNotation => NotationIsShown
        /\ (HasOctave /\ ~session.lowered) => KeysAreShown
=============================================================================
