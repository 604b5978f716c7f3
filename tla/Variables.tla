------------------------------- MODULE Variables -------------------------------
(***************************************************************************)
(* What a song starts with: the environment variables (environment.py,     *)
(* environmenteditor.py) and the defaults of its channels                  *)
(* (channeldefaults.py, chdefaultseditor.py).  A variable is found by the  *)
(* name that its row holds.  The text in the adder outlives the updates of *)
(* the list.  The stored channel defaults end with the last channel that   *)
(* was ever set; the channels behind have the default entry.  An input     *)
(* comes when the editors have followed the one before.                    *)
(***************************************************************************)
EXTENDS Integers, Sequences, FiniteSets, SequencesExt, FiniteSetsExt

CONSTANTS Typed,                  \* names the hand can type
          Values,                 \* in halves: 2 stands for 1, 1 for 0.5
          Channels, Controls,     \* 0..CHANNELS_MAX - 1, the numbers of controls
          Expressions,            \* names of initial expressions, "" among them
          Songs,                  \* what the behaviours begin with
          MaxVariables, MaxActions   \* bounds of the model

VARIABLES store,     \* [vars, defaults, controls]
          session,   \* history variable: [meant, kept], the variables as the rows were meant to make
                     \* them, and whether the text of the adder has outlived an update
          view,      \* [rows, text, button, channels]
          signals, done, failed, actions

vars == <<store, session, view, signals, done, failed, actions>>

Types == {"bool", "int", "float", "timestamp"}
ValuesOf(type) ==
    CASE type = "bool" -> {0, 2}
      [] type = "int" -> {v \in Values : v % 2 = 0}
      [] OTHER -> Values
NamesIn(list) == {list[i].name : i \in DOMAIN list}

-----------------------------------------------------------------------------
(* The lists                                                               *)
EntryIndex(list, name) == SelectInSeq(list, LAMBDA entry : entry.name = name)

NewVariable(name) == [type |-> "float", name |-> name, value |-> 0]
Retyped(entry, type) == [entry EXCEPT !.type = type, !.value = 0]

DefaultEntry == [control |-> 0, expr |-> ""]
EntryOf(defaults, ch) == IF ch + 1 \in DOMAIN defaults THEN defaults[ch + 1] ELSE DefaultEntry
Larger(a, b) == IF a > b THEN a ELSE b
WithEntry(defaults, ch, part, v) ==
    [i \in 1..Larger(Len(defaults), ch + 1) |->
        IF i = ch + 1 THEN [EntryOf(defaults, ch) EXCEPT ![part] = v] ELSE EntryOf(defaults, i - 1)]

(* The channels of a control that goes get another one, those among them   *)
(* that were never set.                                                    *)
Moved(defaults, from, to) ==
    LET of == {ch \in Channels : EntryOf(defaults, ch).control = from}
        last == IF of = {} THEN 0 ELSE Max(of) + 1
    IN  IF from = to THEN defaults
        ELSE [i \in 1..Larger(Len(defaults), last) |->
                IF i - 1 \in of THEN [EntryOf(defaults, i - 1) EXCEPT !.control = to]
                ELSE EntryOf(defaults, i - 1)]

-----------------------------------------------------------------------------
(* The editors                                                             *)
Unset == -1        \* the index of a box that shows nothing
ChannelShown(s, ch) ==
    LET entry == EntryOf(s.defaults, ch)
    IN  [entry EXCEPT !.control = IF @ \in s.controls THEN @ ELSE Unset]
ChannelsShown(s) == [ch \in Channels |-> ChannelShown(s, ch)]

(* Each row has one widget for each type of values, of which one is on top *)
RowsOf(s) == s.vars
RowsAfter(rows, now) == now

Update ==
    /\ signals # {} /\ failed = "no"
    /\ view' = IF "environment" \in signals
               THEN [view EXCEPT !.rows = RowsAfter(view.rows, RowsOf(store)), !.button = view.text # ""]
               ELSE [view EXCEPT !.channels = ChannelsShown(store)]
    /\ signals' = {}
    /\ done' = [name |-> "update"]
    /\ session' = [session EXCEPT !.kept = @ \/ ("environment" \in signals /\ view.text # "")]
    /\ UNCHANGED <<store, failed, actions>>

Init ==
    /\ store \in Songs
    /\ session = [meant |-> store.vars, kept |-> FALSE]
    /\ view = [rows |-> RowsOf(store), text |-> "", button |-> FALSE, channels |-> ChannelsShown(store)]
    /\ signals = {} /\ done = [name |-> "none"] /\ failed = "no" /\ actions = 0

-----------------------------------------------------------------------------
(* Inputs                                                                  *)
CanAct == failed = "no" /\ signals = {} /\ actions < MaxActions
Acts(what, updates) ==
    /\ actions' = actions + 1
    /\ signals' = updates
    /\ done' = what

(* The text can be a name that is used: the validator calls it             *)
(* intermediate.                                                           *)
TypeName ==
    /\ CanAct
    /\ \E text \in (Typed \cup {""}) \ {view.text} :
        view' = [view EXCEPT !.text = text, !.button = text # "" /\ text \notin NamesIn(store.vars)]
    /\ session' = [session EXCEPT !.kept = FALSE]
    /\ Acts([name |-> "type"], {})
    /\ UNCHANGED <<store, failed>>

(* The button, or the return key when the validator accepts the text.      *)
CanBeAdded(text, used) == text # "" /\ text \notin used
AddVariable ==
    /\ CanAct /\ Len(store.vars) < MaxVariables
    /\ view.button \/ CanBeAdded(view.text, NamesIn(store.vars))
    /\ IF CanBeAdded(view.text, NamesIn(store.vars))
       THEN /\ store' = [store EXCEPT !.vars = Append(@, NewVariable(view.text))]
            /\ session' = [meant |-> Append(session.meant, NewVariable(view.text)), kept |-> FALSE]
            /\ view' = [view EXCEPT !.text = "", !.button = FALSE]
            /\ Acts([name |-> "add"], {"environment"})
            /\ failed' = failed
       ELSE /\ failed' = "assertion"
            /\ Acts([name |-> "add"], {})
            /\ UNCHANGED <<store, session, view>>

EntryBecomes(i, New(_)) ==
    /\ store' = [store EXCEPT !.vars[EntryIndex(store.vars, view.rows[i].name)] = New(@)]
    /\ session' = [session EXCEPT !.meant[i] = New(@)]
    /\ UNCHANGED <<view, failed>>
    /\ Acts([name |-> "edit"], {"environment"})

RenameVariable ==
    /\ CanAct
    /\ \E i \in DOMAIN view.rows : \E name \in Typed \ NamesIn(store.vars) :
        EntryBecomes(i, LAMBDA entry : [entry EXCEPT !.name = name])

RetypeVariable ==
    /\ CanAct
    /\ \E i \in DOMAIN view.rows : \E type \in Types \ {view.rows[i].type} :
        EntryBecomes(i, LAMBDA entry : Retyped(entry, type))

SetValue ==
    /\ CanAct
    /\ \E i \in DOMAIN view.rows : \E value \in ValuesOf(view.rows[i].type) :
        EntryBecomes(i, LAMBDA entry : [entry EXCEPT !.value = value])

RemoveVariable ==
    /\ CanAct
    /\ \E i \in DOMAIN view.rows :
        /\ store' = [store EXCEPT !.vars = RemoveAt(@, EntryIndex(@, view.rows[i].name))]
        /\ session' = [session EXCEPT !.meant = RemoveAt(@, i)]
    /\ UNCHANGED <<view, failed>>
    /\ Acts([name |-> "remove"], {"environment"})

(* A box of a channel shows what was chosen in it; the signal reaches the  *)
(* sheet only.                                                             *)
SetChannel ==
    /\ CanAct
    /\ \E ch \in Channels : \E part \in {"control", "expr"} :
        /\ \E v \in (IF part = "control" THEN store.controls ELSE Expressions) \ {view.channels[ch][part]} :
            /\ store' = [store EXCEPT !.defaults = WithEntry(@, ch, part, v)]
            /\ view' = [view EXCEPT !.channels[ch][part] = v]
        /\ Acts([name |-> "channel", ch |-> ch], {})
    /\ UNCHANGED <<session, failed>>

(* The connections editor adds an audio unit with its control, or removes  *)
(* one (remove_controls_to_audio_unit).                                    *)
ControlsChange ==
    /\ CanAct
    /\ \E c \in Controls :
        LET left == store.controls \ {c}
            to == IF left = {} THEN c ELSE Min(left)
        IN  store' = IF c \in store.controls
                     THEN [store EXCEPT !.controls = left, !.defaults = Moved(@, c, to)]
                     ELSE [store EXCEPT !.controls = @ \cup {c}]
    /\ Acts([name |-> "controls"], {"controls"})
    /\ UNCHANGED <<session, view, failed>>

Next == Update \/ TypeName \/ AddVariable \/ RenameVariable \/ RetypeVariable \/ SetValue \/ RemoveVariable
    \/ SetChannel \/ ControlsChange
Spec == Init /\ [][Next]_vars

-----------------------------------------------------------------------------
(* Properties                                                              *)

(* Among the types: a value belongs to the type of its variable, however   *)
(* the type and the value were changed (change_var_type).                  *)
VariablesTypeOK ==
    /\ \A i \in DOMAIN store.vars :
        store.vars[i].type \in Types /\ store.vars[i].value \in ValuesOf(store.vars[i].type)
    /\ Len(store.defaults) <= Cardinality(Channels)
    /\ failed \in {"no", "assertion"}

(* Rows whose names were changed and given to others edit the variable     *)
(* they show (_get_entry_index).                                           *)
VariablesAreAsMeant == store.vars = session.meant

(* The adder asserts that its name is free.  The assertion fails only if   *)
(* the list was updated since the name was typed: from the key to the next *)
(* update the button is right, but the update turns it on for any text     *)
(* (_text_changed, _update_used_names, _add_new_var).                      *)
AdderFailsAfterUpdateOnly ==
    failed = "assertion" => session.kept /\ view.text \in NamesIn(store.vars)

(* No two variables have the same name, though the button of the adder can *)
(* be on for a name that is taken (_add_new_var, VarNameValidator).        *)
VariableNamesAreUnique == Cardinality(NamesIn(store.vars)) = Len(store.vars)

(* Once the signals have been followed the rows show the variables and the *)
(* boxes of the channels what they would start with.                       *)
EditorShowsSong ==
    signals = {} /\ failed = "no" => view.rows = RowsOf(store) /\ view.channels = ChannelsShown(store)

(* When a control goes no channel keeps it, whether it was set or not, as  *)
(* long as another one is left (get_edit_remove_controls_to_audio_unit).   *)
ControlsAreLeft ==
    \A c \in store.controls \ store'.controls : \A ch \in Channels : EntryOf(store'.defaults, ch).control # c
NoChannelKeepsControl == [][store'.controls # {} => ControlsAreLeft]_vars

(* Setting a channel leaves every other channel as it was, also those that *)
(* had no entry of their own (_get_extended_entry_list).                   *)
OthersStay ==
    \A ch \in Channels \ {done'.ch} : EntryOf(store'.defaults, ch) = EntryOf(store.defaults, ch)
OtherChannelsStay == [][(done'.name = "channel" /\ actions' # actions) => OthersStay]_vars
=============================================================================
