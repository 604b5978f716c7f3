------------------------------- MODULE Bindings -------------------------------
(***************************************************************************)
(* Event bindings (model/bindings.py) and their editor                     *)
(* (views/bindeditor.py, with the rows of views/editorlist.py).            *)
(*                                                                         *)
(* A binding is [source, constraints, targets]: the event that fires it,   *)
(* <<event, expression>> for each constraint and <<offset, event,          *)
(* expression>> for each target, the expression being None if the event    *)
(* takes no argument.  The engine refuses a module whose bindings fire one *)
(* another in a circle, so the boxes offer only the events that close none.*)
(*                                                                         *)
(* The rows of constraints and targets are kept from update to update: the *)
(* surplus ones at the end are dropped, and a row in which Remove has been *)
(* pressed is not updated any more.  If it was not the last one it stays,  *)
(* left over, and an input in it goes to the entry that has moved up: the  *)
(* box offers what was right for the entry that is gone, and a text is     *)
(* stored together with the event that is chosen in the row.               *)
(* Expressions are as good as any other.  An input finds the other widgets *)
(* up to date.                                                             *)
(***************************************************************************)
EXTENDS Integers, Sequences, FiniteSets, SequencesExt

CONSTANTS None,
          AllEvents, DefaultSource, DefaultTested, PreferredTarget,
          Arguments,     \* the events that take one
          Texts,         \* expressions that are typed
          Offsets,       \* of channels
          Beginnings,    \* [store, session]
          MaxBindings, MaxRows, MaxActions   \* bounds of the model

VARIABLES store,     \* the bindings
          session,   \* [selected]
          view, signals,
          done,      \* history variable: the last input
          failed, actions

vars == <<store, session, view, signals, done, failed, actions>>

HasBinding == session.selected # None
Binding == store[session.selected]

-----------------------------------------------------------------------------
(* Cycles                                                                  *)

EdgesOf(b) == {<<b.source, b.targets[k][2]>> : k \in DOMAIN b.targets}
Edges(bindings) == UNION {EdgesOf(bindings[i]) : i \in DOMAIN bindings}
Nodes(edges) == {e[1] : e \in edges} \cup {e[2] : e \in edges}

(* Wrong: only an event that fires itself.                                 *)
FiresItself(edges) == \E e \in edges : e[1] = e[2]
ContainsCycle(edges) ==
    \E circle \in SUBSET Nodes(edges) \ {{}} :
        \A u \in circle : \E v \in circle : <<u, v>> \in edges

(* Events that are not in use elsewhere are never excluded, not even while *)
(* the other bindings have a circle.                                       *)
TargetsBut(i, k) ==
    UNION {{store[j].targets[n][2] : n \in {n \in DOMAIN store[j].targets : <<j, n>> # <<i, k>>}} : j \in DOMAIN store}
UsedForSource(i) == {store[j].source : j \in DOMAIN store \ {i}} \cup TargetsBut(i, 0)
UsedForTarget(i, k) == {store[j].source : j \in DOMAIN store} \cup TargetsBut(i, k)

ExcludedSources(i) ==
    {e \in UsedForSource(i) : ContainsCycle(Edges([store EXCEPT ![i].source = e]))}

WithTarget(i, k, event) ==
    [store EXCEPT ![i].targets = IF k <= Len(@) THEN [@ EXCEPT ![k][2] = event]
                                 ELSE Append(@, <<0, event, None>>)]
ExcludedTargets(i, k) == {e \in UsedForTarget(i, k) : ContainsCycle(Edges(WithTarget(i, k, e)))}

-----------------------------------------------------------------------------
(* Updates                                                                 *)

(* Wrong: the rows keep their contents.                                    *)
RowsKept(old, new) == [i \in DOMAIN new |-> IF i <= Len(old) THEN old[i] ELSE new[i]]
Rows(old, new) == [i \in DOMAIN new |-> IF i <= Len(old) /\ old[i].pending THEN old[i] ELSE new[i]]

ConstraintRow(i) ==
    [event |-> Binding.constraints[i][1], text |-> Binding.constraints[i][2], pending |-> FALSE]

TargetRow(k) ==
    LET t == Binding.targets[k]
    IN [offset |-> t[1], items |-> AllEvents \ ExcludedTargets(session.selected, k), event |-> t[2],
        text |-> IF t[2] \in Arguments THEN t[3] ELSE "", enabled |-> t[2] \in Arguments, pending |-> FALSE]

Shown ==
    [list |-> [i \in DOMAIN store |-> store[i].source],
     remove |-> Len(store) > 0 /\ HasBinding,
     on |-> HasBinding,
     items |-> IF HasBinding THEN AllEvents \ ExcludedSources(session.selected) ELSE view.items,
     source |-> IF HasBinding THEN Binding.source ELSE view.source,
     constraints |-> IF HasBinding
                     THEN Rows(view.constraints, [i \in DOMAIN Binding.constraints |-> ConstraintRow(i)]) ELSE <<>>,
     targets |-> IF HasBinding THEN Rows(view.targets, [k \in DOMAIN Binding.targets |-> TargetRow(k)]) ELSE <<>>]

Update ==
    /\ signals # {} /\ failed = "no"
    /\ IF HasBinding /\ session.selected \notin DOMAIN store
       THEN failed' = "error" /\ UNCHANGED view
       ELSE view' = Shown /\ UNCHANGED failed
    /\ signals' = {}
    /\ done' = [name |-> "none"]
    /\ UNCHANGED <<store, session, actions>>

Init ==
    \E b \in Beginnings :
        /\ store = b.store
        /\ session = b.session
        /\ view = [list |-> <<>>, remove |-> FALSE, on |-> FALSE, items |-> AllEvents, source |-> None,
                   constraints |-> <<>>, targets |-> <<>>]
        /\ signals = {"bind"}
        /\ done = [name |-> "none"]
        /\ failed = "no"
        /\ actions = 0

-----------------------------------------------------------------------------
(* Inputs                                                                  *)

CanAct == signals = {} /\ failed = "no" /\ actions < MaxActions
Acts(name) ==
    /\ actions' = actions + 1
    /\ signals' = {"bind"}
    /\ done' = [name |-> name]

AddBinding ==
    /\ CanAct /\ Len(store) < MaxBindings
    /\ store' = Append(store, [source |-> DefaultSource, constraints |-> <<>>, targets |-> <<>>])
    /\ Acts("add") /\ UNCHANGED <<session, view, failed>>

SelectedAfterRemoval == None

RemoveBinding ==
    /\ CanAct /\ view.remove
    /\ store' = RemoveAt(store, session.selected)
    /\ session' = [session EXCEPT !.selected = SelectedAfterRemoval]
    /\ Acts("remove") /\ UNCHANGED <<view, failed>>

SelectBinding ==
    /\ CanAct
    /\ \E i \in DOMAIN view.list : session' = [session EXCEPT !.selected = i]
    /\ Acts("select") /\ UNCHANGED <<store, view, failed>>

CanEdit == CanAct /\ view.on
Edits(b) == store' = [store EXCEPT ![session.selected] = b]

ChangeSource ==
    /\ CanEdit
    /\ \E e \in view.items \ {view.source} :
        /\ Edits([Binding EXCEPT !.source = e])
        /\ view' = [view EXCEPT !.source = e]
    /\ Acts("source") /\ UNCHANGED <<session, failed>>

AddConstraint ==
    /\ CanEdit /\ Len(Binding.constraints) < MaxRows
    /\ Edits([Binding EXCEPT !.constraints = Append(@, <<DefaultTested, "">>)])
    /\ Acts("constraint") /\ UNCHANGED <<session, view, failed>>

(* What the input was, and whether in a row whose entry has been removed.  *)
NameOf(row, name) == IF row.pending THEN "leftover " \o name ELSE name

EditConstraint ==
    /\ CanEdit
    /\ \E i \in DOMAIN view.constraints :
        LET row == view.constraints[i]
        IN \/ \E e \in AllEvents \ {row.event} :
                /\ Edits([Binding EXCEPT !.constraints[i][1] = e])
                /\ view' = [view EXCEPT !.constraints[i].event = e]
           \/ \E text \in Texts \ {row.text} :
                /\ Edits([Binding EXCEPT !.constraints[i][2] = text])
                /\ view' = [view EXCEPT !.constraints[i].text = text]
           \/ /\ Edits([Binding EXCEPT !.constraints = RemoveAt(@, i)])
              /\ view' = [view EXCEPT !.constraints[i].pending = TRUE]
    /\ Acts("constraint") /\ UNCHANGED <<session, failed>>

NewArgument(e) == IF e \in Arguments THEN "" ELSE None

(* The engine knows more events than any module binds.                     *)
AddTarget ==
    /\ CanEdit /\ Len(Binding.targets) < MaxRows
    /\ LET allowed == AllEvents \ ExcludedTargets(session.selected, Len(Binding.targets) + 1)
       IN \E e \in IF PreferredTarget \in allowed THEN {PreferredTarget} ELSE allowed :
            Edits([Binding EXCEPT !.targets = Append(@, <<0, e, NewArgument(e)>>)])
    /\ Acts("target") /\ UNCHANGED <<session, view, failed>>

ArgumentFor(e, text) == IF e \in Arguments THEN text ELSE None

EditTarget ==
    /\ CanEdit
    /\ \E k \in DOMAIN view.targets :
        LET row == view.targets[k]
        IN \/ \E e \in row.items \ {row.event} :
                /\ Edits([Binding EXCEPT !.targets[k] = <<@[1], e, ArgumentFor(e, row.text)>>])
                /\ view' = [view EXCEPT !.targets[k].event = e]
                /\ Acts(NameOf(row, "event"))
           \/ /\ row.enabled
              /\ \E text \in Texts \ {row.text} :
                   /\ Edits([Binding EXCEPT !.targets[k] = <<@[1], row.event, text>>])
                   /\ view' = [view EXCEPT !.targets[k].text = text]
              /\ Acts(NameOf(row, "text"))
           \/ \E o \in Offsets \ {row.offset} :
                /\ Edits([Binding EXCEPT !.targets[k][1] = o])
                /\ view' = [view EXCEPT !.targets[k].offset = o]
                /\ Acts("offset")
           \/ /\ Edits([Binding EXCEPT !.targets = RemoveAt(@, k)])
              /\ view' = [view EXCEPT !.targets[k].pending = TRUE]
              /\ Acts("removal")
    /\ UNCHANGED <<session, failed>>

EditsBinding == ChangeSource \/ AddConstraint \/ EditConstraint \/ AddTarget \/ EditTarget

Next == Update \/ AddBinding \/ RemoveBinding \/ SelectBinding \/ EditsBinding

Spec == Init /\ [][Next]_vars

-----------------------------------------------------------------------------
BindingsTypeOK ==
    /\ \A i \in DOMAIN store :
        /\ store[i].source \in AllEvents
        /\ store[i].constraints \in Seq(AllEvents \X (Texts \cup {""}))
        /\ \A k \in DOMAIN store[i].targets : store[i].targets[k] \in Offsets \X AllEvents \X (Texts \cup {"", None})
    /\ session \in [selected : (1..MaxBindings) \cup {None}]
    /\ signals \subseteq {"bind"} /\ failed \in {"no", "error"} /\ actions \in 0..MaxActions

(* However many boxes of however many bindings are chosen in, no choice    *)
(* puts the bindings on a circle of events that fire one another, for a    *)
(* box offers only events that close none; an event that a left-over row   *)
(* still offers, or stores with its text, is the one exception, and what   *)
(* it closed can only be opened by what comes after it                     *)
(* (_get_excluded_source_events, _get_excluded_target_events).             *)
ClosesNoCircle ==
    \E rank \in [AllEvents -> 1..Cardinality(AllEvents)] :
        \A e \in Edges(store') :
            rank[e[1]] < rank[e[2]] \/ (rank[e[1]] = rank[e[2]] /\ e \in Edges(store))
OnlyLeftOversCloseCircles ==
    [][done'.name \in {"leftover event", "leftover text"} \/ ClosesNoCircle]_vars

(* A target has an expression just when its event takes an argument; one   *)
(* that does not comes from a text typed in a left-over row, which was not *)
(* told that its event has changed (TargetEditor._change_expression).      *)
Fits(target) == target[3] = None <=> target[2] \notin Arguments
TargetsOf(bindings) == UNION {Range(bindings[i].targets) : i \in DOMAIN bindings}
FitsOrIsOld(target) == Fits(target) \/ \E old \in TargetsOf(store) : SubSeq(old, 2, 3) = SubSeq(target, 2, 3)
OnlyLeftOversMisfit ==
    [][done'.name = "leftover text" \/ \A t \in TargetsOf(store') : FitsOrIsOld(t)]_vars

(* The selected binding exists, whatever has been removed; no update and   *)
(* no handler fails.                                                       *)
SelectedBindingExists == failed = "no" /\ (HasBinding => session.selected \in DOMAIN store)

(* Each row shows its constraint or target and offers the events that are  *)
(* allowed now, but for the rows in which Remove has been pressed.         *)
RowsShowBinding ==
    (signals = {} /\ failed = "no" /\ HasBinding) =>
        /\ view.source = Binding.source
        /\ view.items = AllEvents \ ExcludedSources(session.selected)
        /\ Len(view.constraints) = Len(Binding.constraints)
        /\ \A i \in DOMAIN view.constraints :
            view.constraints[i].pending \/ view.constraints[i] = ConstraintRow(i)
        /\ Len(view.targets) = Len(Binding.targets)
        /\ \A k \in DOMAIN view.targets : view.targets[k].pending \/ view.targets[k] = TargetRow(k)
=============================================================================
