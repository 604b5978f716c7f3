----------------------------- MODULE TuningTable -----------------------------
(***************************************************************************)
(* A tuning table (model/tuningtable.py) and its editor                    *)
(* (views/tuningtableeditor.py).                                           *)
(*                                                                         *)
(* A table is [notes, names, centre, param]: the pitches of its notes,     *)
(* their names in a list of its own, which may be shorter than that of the *)
(* notes, the index of the tuning centre, and one value for the others     *)
(* that no other depends on (reference pitch, offset, octave width, centre *)
(* octave).  The editor is open while the table exists; the list of tables *)
(* belongs to the notation editor.  An input finds the widgets up to date. *)
(***************************************************************************)
EXTENDS Integers, Sequences, FiniteSets, SequencesExt

CONSTANTS None,
          Names, Pitches, Params,
          NewName,       \* of an added note
          Default,       \* a new table
          MaxNotes,      \* TUNING_TABLE_NOTES_MAX
          Beginnings,    \* [store, session]
          MaxActions     \* bound of the model

VARIABLES store,     \* the table, or None
          session,   \* the selected <<row, column>> of the list of notes, or None
          view, signals,
          done,      \* history variable: the last input and the row it was about
          failed, actions

vars == <<store, session, view, signals, done, failed, actions>>

Count(t) == Len(t.notes)
NameAt(t, i) == IF i < Len(t.names) THEN t.names[i + 1] ELSE ""
Padded(names, count) == names \o [i \in 1..count - Len(names) |-> ""]

-----------------------------------------------------------------------------
(* Operations of TuningTable                                               *)

NamesWithNew(t) == [Padded(t.names, Count(t) + 1) EXCEPT ![Count(t) + 1] = NewName]

WithNote(t) == [t EXCEPT !.notes = Append(@, 0), !.names = NamesWithNew(t)]

CentreWithout(t, i) == IF t.centre >= i /\ t.centre > 0 THEN t.centre - 1 ELSE t.centre

WithoutNote(t, i) ==
    [t EXCEPT !.notes = RemoveAt(@, i + 1), !.centre = CentreWithout(t, i),
              !.names = IF i < Len(@) THEN RemoveAt(@, i + 1) ELSE @]

WithName(t, i, name) == [t EXCEPT !.names = [Padded(@, i + 1) EXCEPT ![i + 1] = name]]

-----------------------------------------------------------------------------
(* Updates                                                                 *)

ToolSignals == {"table", "selection"}

ItemsOf(t) == [i \in 1..Count(t) |-> <<NameAt(t, i - 1), t.notes[i]>>]

Update ==
    /\ signals # {} /\ failed = "no"
    /\ view' = IF store = None THEN view
               ELSE [items |-> IF "table" \in signals THEN ItemsOf(store) ELSE view.items,
                     centres |-> IF "table" \in signals THEN [i \in 1..Count(store) |-> NameAt(store, i - 1)]
                                 ELSE view.centres,
                     centre |-> IF "table" \in signals THEN store.centre ELSE view.centre,
                     param |-> IF "table" \in signals THEN store.param ELSE view.param,
                     add |-> IF signals \cap ToolSignals # {} THEN Count(store) < MaxNotes ELSE view.add,
                     remove |-> IF signals \cap ToolSignals # {} THEN Count(store) > 1 /\ session # None
                                ELSE view.remove]
    /\ failed' = IF store # None /\ "table" \in signals /\ session # None /\ session[1] >= Count(store)
                 THEN "error" ELSE failed
    /\ signals' = {}
    /\ done' = [name |-> "none", row |-> None]
    /\ UNCHANGED <<store, session, actions>>

Init ==
    \E b \in Beginnings :
        /\ store = b.store
        /\ session = b.session
        /\ view = [items |-> <<>>, centres |-> <<>>, centre |-> 0, param |-> None, add |-> FALSE, remove |-> FALSE]
        /\ signals = {"table"}
        /\ done = [name |-> "none", row |-> None]
        /\ failed = "no"
        /\ actions = 0

-----------------------------------------------------------------------------
(* Inputs                                                                  *)

CanAct == signals = {} /\ failed = "no" /\ actions < MaxActions /\ store # None
Acts(name, row, updates) ==
    /\ actions' = actions + 1
    /\ signals' = updates
    /\ done' = [name |-> name, row |-> row]
    /\ UNCHANGED <<view, failed>>

AddNote ==
    /\ CanAct /\ view.add
    /\ store' = WithNote(store)
    /\ Acts("add", Count(store), {"table"}) /\ UNCHANGED session

RowAbove(row) == IF row = 0 THEN 0 ELSE row - 1

RemoveNote ==
    /\ CanAct /\ view.remove
    /\ store' = WithoutNote(store, session[1])
    /\ session' = <<RowAbove(session[1]), session[2]>>
    /\ Acts("removeNote", session[1], {"table", "selection"})

SelectNote ==
    /\ CanAct
    /\ \E row \in 0..Len(view.items) - 1, column \in {0, 1} : session' = <<row, column>>
    /\ Acts("select", None, {"selection"}) /\ UNCHANGED store

EditNote ==
    /\ CanAct
    /\ \E i \in 0..Len(view.items) - 1 :
        /\ \/ \E name \in Names : store' = WithName(store, i, name)
           \/ \E p \in Pitches : store' = [store EXCEPT !.notes[i + 1] = p]
        /\ Acts("edit", i, {"table"})
    /\ UNCHANGED session

ChangeCentre ==
    /\ CanAct
    /\ \E i \in 0..Len(view.centres) - 1 : i # view.centre /\ store' = [store EXCEPT !.centre = i]
    /\ Acts("centre", None, {"table"}) /\ UNCHANGED session

ChangeParam ==
    /\ CanAct
    /\ \E p \in Params \ {view.param} : store' = [store EXCEPT !.param = p]
    /\ Acts("param", None, {"table"}) /\ UNCHANGED session

(* The table is removed, and a table with its id may be added again.       *)
RemoveTable ==
    /\ CanAct
    /\ store' = None /\ session' = None
    /\ Acts("remove", None, {"tables"})

AddTable ==
    /\ signals = {} /\ failed = "no" /\ actions < MaxActions /\ store = None
    /\ store' = Default
    /\ Acts("new", None, {"tables", "table", "selection"}) /\ UNCHANGED session

Next == Update \/ AddNote \/ RemoveNote \/ SelectNote \/ EditNote \/ ChangeCentre \/ ChangeParam
    \/ RemoveTable \/ AddTable

Spec == Init /\ [][Next]_vars

-----------------------------------------------------------------------------
TableTypeOK ==
    /\ store # None => /\ store.notes \in Seq(Int) /\ store.names \in Seq(Names \cup {"", NewName})
                      /\ store.param \in Params
    /\ session = None \/ session \in Nat \X {0, 1}
    /\ signals \subseteq {"table", "tables", "selection"}
    /\ failed \in {"no", "error"} /\ actions \in 0..MaxActions

(* The tuning centre and the selected row are notes of the table, and the  *)
(* table keeps at least one note.                                          *)
TableNotesExist ==
    /\ failed = "no"
    /\ store # None => /\ Count(store) > 0
                      /\ store.centre \in 0..Count(store) - 1
                      /\ (session # None => session[1] \in 0..Count(store) - 1)

(* Each note keeps its name when another one is added or removed, and the  *)
(* tuning centre stays the same note unless it is the one removed.         *)
Kept(i) == CASE done'.name = "removeNote" -> IF i < done'.row THEN i ELSE i - 1
             [] OTHER -> i
KeepsNotes ==
    /\ \A i \in 0..Count(store) - 1 :
        i # done'.row => /\ NameAt(store', Kept(i)) = NameAt(store, i)
                         /\ store'.notes[Kept(i) + 1] = store.notes[i + 1]
    /\ (store.centre # done'.row \/ done'.name # "removeNote") => store'.centre = Kept(store.centre)
    /\ done'.name = "add" => NameAt(store', done'.row) = NewName
NotesKeepTheirNames ==
    [][(actions' # actions /\ done'.name \in {"add", "removeNote", "edit"}) => KeepsNotes]_vars

(* The editor shows the table when no update is due.                       *)
EditorShowsTable ==
    (signals = {} /\ store # None /\ failed = "no") =>
        /\ view.items = ItemsOf(store)
        /\ view.centres = [i \in DOMAIN view.items |-> view.items[i][1]]
        /\ view.centre = store.centre /\ view.param = store.param
        /\ view.add = (Count(store) < MaxNotes)
        /\ view.remove = (Count(store) > 1 /\ session # None)
=============================================================================
