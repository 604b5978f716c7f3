------------------------------- MODULE EventMap -------------------------------
(***************************************************************************)
(* The event map and the event stream interfaces of an audio unit          *)
(* (audiounit.py) in the editor of its components (components.py).  An     *)
(* event binds devices inside the unit, a stream interface names a stream  *)
(* processor of it.  The handlers find an event and a stream by its name,  *)
(* and a binding by its device and its target event; the rows of the       *)
(* editor hold these names.  Devices come and go in the connections        *)
(* editor.  An input comes when the editor has followed the one before.    *)
(***************************************************************************)
EXTENDS Integers, Sequences, FiniteSets, SequencesExt

CONSTANTS DeviceOrder, StreamDevices,  \* audio units before processors, each in the order of
                                       \* their numbers; the stream processors among them
          MadeNames, TypedNames,       \* event01, event02, ...; names the hand can type
          MadeStreams, TypedStreams,   \* var01, var02, ...; names the hand can type
          ArgTypes, Expressions,
          EventMaps,                   \* [events, streams, devices]: what the behaviours begin with
          MaxEvents, MaxBindings, MaxActions   \* bounds of the model

VARIABLES store,     \* [events, streams, devices]
          session,   \* [expanded, meant, unclear]; meant, unclear: history variables
          view,      \* [events, streams, streamAdder]: the rows
          signals, done, failed, actions

vars == <<store, session, view, signals, done, failed, actions>>

NamesIn(list) == {list[i].name : i \in DOMAIN list}
FirstUnused(made, used) == made[SelectInSeq(made, LAMBDA name : name \notin used)]
FirstIn(devices) == DeviceOrder[SelectInSeq(DeviceOrder, LAMBDA d : d \in devices)]

-----------------------------------------------------------------------------
(* The lists: entries are found by what the row holds                      *)
EntryIndex(list, name) == SelectInSeq(list, LAMBDA entry : entry.name = name)
BindingIndex(bindings, dev, event) == SelectInSeq(bindings, LAMBDA b : b.dev = dev /\ b.event = event)

NewEvent(events) ==
    [name |-> FirstUnused(MadeNames, NamesIn(events)), type |-> "none", bindings |-> <<>>]
StreamName(made, list) == FirstUnused(made, NamesIn(list))
NewStream(streams, devices) ==
    [name |-> StreamName(MadeStreams, streams), target |-> FirstIn(devices \cap StreamDevices)]

NewBinding(events, i, devices) ==
    LET event == events[i]
    IN  [dev |-> FirstIn(devices),
         event |-> FirstUnused(MadeNames, {event.bindings[j].event : j \in DOMAIN event.bindings}),
         type |-> event.type, expr |-> IF event.type = "none" THEN "" ELSE "$"]

Changed(list, name, part, v) == [list EXCEPT ![EntryIndex(list, name)][part] = v]
WithoutEntry(list, name) == RemoveAt(list, EntryIndex(list, name))
BindingsOf(events, name) == events[EntryIndex(events, name)].bindings

(* Wrong: the binding is looked for by its device only.                    *)
OfDevice(bindings, key) == SelectInSeq(bindings, LAMBDA b : b.dev = key.dev)
Hit(bindings, key) == BindingIndex(bindings, key.dev, key.event)

-----------------------------------------------------------------------------
(* The editor                                                              *)
(* A box of devices that does not have the one of its row shows another.   *)
DeviceShown(d, devices) == IF d \in devices THEN d ELSE "another"
OtherDevices(shown, devices) == IF shown # "another" \/ Cardinality(devices) > 1 THEN devices \ {shown} ELSE {}

BindingRows(bindings, devices) ==
    [j \in DOMAIN bindings |-> [dev |-> DeviceShown(bindings[j].dev, devices), key |-> bindings[j]]]
EventRow(event, expanded, devices) ==
    [name |-> event.name, type |-> event.type, open |-> event.name \in expanded,
     rows |-> BindingRows(event.bindings, devices)]
EventRows(s, expanded) == [i \in DOMAIN s.events |-> EventRow(s.events[i], expanded, s.devices)]

StreamRows(s) ==
    [i \in DOMAIN s.streams |-> [name |-> s.streams[i].name,
        target |-> DeviceShown(s.streams[i].target, s.devices \cap StreamDevices)]]
CanAddStream(devices) == devices \cap StreamDevices # {}

Shown(s, expanded) ==
    [events |-> EventRows(s, expanded), streams |-> StreamRows(s), streamAdder |-> CanAddStream(s.devices)]

(* The boxes of the devices follow the connections, the lists their own    *)
(* signal; the streams follow both.                                        *)
DeviceBoxes(rows, devices) ==
    [i \in DOMAIN rows |-> [rows[i] EXCEPT !.rows =
        [j \in DOMAIN @ |-> [key |-> @[j].key, dev |-> DeviceShown(@[j].key.dev, devices)]]]]

Update ==
    /\ signals # {} /\ failed = "no"
    /\ LET now == Shown(store, session.expanded)
           events == IF "events" \in signals THEN now.events
                     ELSE IF "connections" \in signals THEN DeviceBoxes(view.events, store.devices)
                     ELSE view.events
       IN  view' = [events |-> events,
                    streams |-> IF signals = {"events"} THEN view.streams ELSE now.streams,
                    streamAdder |-> IF "connections" \in signals THEN now.streamAdder ELSE view.streamAdder]
    /\ signals' = {}
    /\ done' = [name |-> "update"]
    /\ UNCHANGED <<store, session, failed, actions>>

Init ==
    /\ store \in EventMaps
    /\ session = [expanded |-> {}, meant |-> store, unclear |-> FALSE]
    /\ view = Shown(store, {})
    /\ signals = {} /\ done = [name |-> "none"] /\ failed = "no" /\ actions = 0

-----------------------------------------------------------------------------
(* Inputs                                                                  *)
CanAct == failed = "no" /\ signals = {} /\ actions < MaxActions
Acts(name, updates) ==
    /\ actions' = actions + 1
    /\ signals' = updates
    /\ done' = [name |-> name]
    /\ failed' = failed

ListsBecome(list, entries, meant) ==
    /\ store' = [store EXCEPT ![list] = entries]
    /\ session' = [session EXCEPT !.meant[list] = meant]
    /\ view' = view

AddEvent ==
    /\ CanAct /\ Len(store.events) < MaxEvents
    /\ ListsBecome("events", Append(store.events, NewEvent(store.events)),
                   Append(session.meant.events, NewEvent(store.events)))
    /\ Acts("addEvent", {"events"})

AddStream ==
    /\ CanAct /\ view.streamAdder /\ Len(store.streams) < MaxEvents
    /\ LET new == NewStream(store.streams, store.devices)
       IN  ListsBecome("streams", Append(store.streams, new), Append(session.meant.streams, new))
    /\ Acts("addStream", {"streams"})

(* The name editors refuse the names that are there.                       *)
Acceptable(typed, used) == typed \ used

(* A row changes a part of the entry that has its name.                    *)
ChangeEntry(list, i, part, v) ==
    ListsBecome(list, Changed(store[list], view[list][i].name, part, v),
                [session.meant[list] EXCEPT ![i][part] = v])

Rename ==
    /\ CanAct
    /\ \E list \in {"events", "streams"} : \E i \in DOMAIN view[list] :
        /\ \E name \in Acceptable(IF list = "events" THEN TypedNames ELSE TypedStreams, NamesIn(store[list])) :
            ChangeEntry(list, i, "name", name)
        /\ Acts("rename", {list})

SetArgType ==
    /\ CanAct
    /\ \E i \in DOMAIN view.events : \E type \in ArgTypes \ {view.events[i].type} :
        ChangeEntry("events", i, "type", type)
    /\ Acts("type", {"events"})

SetTarget ==
    /\ CanAct
    /\ \E i \in DOMAIN view.streams :
        \E d \in OtherDevices(view.streams[i].target, store.devices \cap StreamDevices) :
            ChangeEntry("streams", i, "target", d)
    /\ Acts("target", {"streams"})

RemoveEntry ==
    /\ CanAct
    /\ \E list \in {"events", "streams"} : \E i \in DOMAIN view[list] :
        /\ ListsBecome(list, WithoutEntry(store[list], view[list][i].name),
                       RemoveAt(session.meant[list], i))
        /\ Acts("remove", {list})

(* _toggle_expand: opening shows the bindings at once.                     *)
Expand ==
    /\ CanAct
    /\ \E i \in DOMAIN view.events :
        LET open == ~view.events[i].open
            name == view.events[i].name
        IN  /\ session' = [session EXCEPT !.expanded = IF open THEN @ \cup {name} ELSE @ \ {name}]
            /\ view' = [view EXCEPT !.events[i].open = open]
            /\ Acts("expand", IF open THEN {} ELSE {"events"})
    /\ UNCHANGED store

(* An event without internal devices: see the README.                      *)
AddBinding ==
    /\ CanAct /\ store.devices # {}
    /\ \E i \in DOMAIN view.events :
        /\ view.events[i].open /\ Len(view.events[i].rows) < MaxBindings
        /\ LET new == NewBinding(store.events, EntryIndex(store.events, view.events[i].name), store.devices)
           IN  ListsBecome("events",
                   Changed(store.events, view.events[i].name, "bindings",
                           Append(BindingsOf(store.events, view.events[i].name), new)),
                   [session.meant.events EXCEPT ![i].bindings = Append(@, new)])
    /\ Acts("addBinding", {"events"})

(* What can be done in the row of a binding: its parts and their values    *)
BindingEdits(row) ==
    ({"dev"} \X OtherDevices(row.dev, store.devices)) \cup ({"event"} \X (TypedNames \ {row.key.event}))
        \cup ({"type"} \X (ArgTypes \ {row.key.type})) \cup ({"expr"} \X (Expressions \ {row.key.expr}))

(* The binding that the row finds is edited; "unclear" remembers that      *)
(* another one with its device and its event came before it.               *)
BindingsBecome(i, bindings, meant, unclear) ==
    /\ store' = [store EXCEPT !.events = Changed(@, view.events[i].name, "bindings", bindings)]
    /\ session' = [session EXCEPT !.meant.events[i].bindings = meant, !.unclear = @ \/ unclear]
    /\ view' = view
    /\ Acts("binding", {"events"})

ChangeBinding ==
    /\ CanAct
    /\ \E i \in DOMAIN view.events : view.events[i].open /\ \E j \in DOMAIN view.events[i].rows :
        LET row == view.events[i].rows[j]
            bindings == BindingsOf(store.events, view.events[i].name)
            hit == Hit(bindings, row.key)
        IN  \E edit \in BindingEdits(row) :
                BindingsBecome(i, [bindings EXCEPT ![hit][edit[1]] = edit[2]],
                    [session.meant.events[i].bindings EXCEPT ![j][edit[1]] = edit[2]],
                    j # BindingIndex(bindings, row.key.dev, row.key.event))

RemoveBinding ==
    /\ CanAct
    /\ \E i \in DOMAIN view.events : view.events[i].open /\ \E j \in DOMAIN view.events[i].rows :
        LET row == view.events[i].rows[j]
            bindings == BindingsOf(store.events, view.events[i].name)
        IN  BindingsBecome(i, RemoveAt(bindings, Hit(bindings, row.key)),
                RemoveAt(session.meant.events[i].bindings, j),
                j # BindingIndex(bindings, row.key.dev, row.key.event))

(* The connections editor adds or removes a device of the unit.            *)
DevicesChange ==
    /\ CanAct
    /\ \E d \in Range(DeviceOrder) :
        store' = [store EXCEPT !.devices = IF d \in @ THEN @ \ {d} ELSE @ \cup {d}]
    /\ Acts("devices", {"connections"})
    /\ UNCHANGED <<session, view>>

Next == Update \/ AddEvent \/ AddStream \/ Rename \/ SetArgType \/ SetTarget \/ RemoveEntry \/ Expand
    \/ AddBinding \/ ChangeBinding \/ RemoveBinding \/ DevicesChange
Spec == Init /\ [][Next]_vars

-----------------------------------------------------------------------------
(* Properties                                                              *)

EventMapTypeOK ==
    /\ store.devices \subseteq Range(DeviceOrder)
    /\ \A i \in DOMAIN store.events :
        /\ store.events[i].type \in ArgTypes
        /\ \A j \in DOMAIN store.events[i].bindings :
            store.events[i].bindings[j].expr \in Expressions \cup {"", "$"}
    /\ \A i \in DOMAIN store.streams : store.streams[i].target \in StreamDevices
    /\ failed = "no"

(* Though every handler looks its entry up by names that earlier edits may *)
(* have given to others, the lists are what the rows that were used were   *)
(* meant to make, unless two bindings of an event have the same device and *)
(* target event and the second of them was edited (_get_event_entry_index, *)
(* _get_event_binding_entry_index, _get_stream_entry_index).               *)
ListsAreAsMeant ==
    /\ store.streams = session.meant.streams
    /\ ~session.unclear => store.events = session.meant.events

(* No two events and no two streams have the same name, whatever was       *)
(* renamed before a new one was made (_get_unique_event_name,              *)
(* _get_unique_stream_name, the validators).                               *)
EventNamesAreUnique ==
    \A list \in {"events", "streams"} : Cardinality(NamesIn(store[list])) = Len(store[list])

(* Once the signals have been followed the rows show the lists, the        *)
(* devices that are there and which events are expanded.                   *)
EditorShowsEvents == signals = {} => view = Shown(store, session.expanded)
=============================================================================
