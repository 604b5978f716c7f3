------------------------------- MODULE Devices -------------------------------
(***************************************************************************)
(* The connections view and the audio unit editors                         *)
(* (tracker/ui/views/connections.py, connectionseditor.py,                 *)
(* audiounit/ports.py, expressions.py, components.py, chdefaultseditor.py) *)
(* over the devices of the module (DeviceEdit).                            *)
(*                                                                         *)
(* One connections view is modelled in full: the mouse moves over what the *)
(* view shows, presses and releases, a menu of an edge and a dialog open.  *)
(* What the view shows is a copy that the next update (Tick) makes anew.   *)
(* Every other input comes from a window or a tool bar, so that the mouse  *)
(* has left the view; a hand is slower than an update.                     *)
(***************************************************************************)
EXTENDS DeviceEdit

CONSTANTS MaxActions,  \* bound of the model: presses and other inputs
          MadeTypes,   \* bound of the model: the types of processors that are added
          Beginnings   \* for each container that is viewed, the modules at first

VARIABLES store,
          session,    \* per unit: the selected expression, that of the view, the edit mode
          editors,    \* the units whose editor is open
          known,      \* the names the expression name editor refuses, None before it has a validator
          view,       \* the connections view
          mouse,      \* [at, down]
          dialog,     \* the device whose removal waits for confirmation
          signals,    \* the signals of the next update
          writes,     \* history variable: the data after each transaction of the last input
          done,       \* history variable: the last input
          renewed,    \* history variable: the units that were removed once
          failed,     \* why an input raised an exception
          actions

vars == <<store, session, editors, known, view, mouse, dialog, signals, writes, done, renewed, failed, actions>>

ASSUME ActionsAssumption == MaxActions \in Nat /\ MadeTypes \subseteq DOMAIN ProcPorts

NoSession == [selected |-> None, shown |-> None, mode |-> "normal"]
NoButton == [dev |-> None, type |-> None, pressed |-> FALSE]

(* The end of a connection: a port of a device.                            *)
Ends == DeviceNames \X Ports
ASSUME ConnectionAssumption == None \notin [from : Ends, to : Ends \union {None}]

(* The devices of an update, each with its ports.                          *)
Shown(d, c) == [dev \in DevicesIn(d, c) |-> PortsOf(d, c, dev)]

----------------------------------------------------------------------------
(* What makes a module sound.                                              *)

EndsShown(e, shown) ==
    \A end \in {EdgeEnds(e)[1], EdgeEnds(e)[2]} : end[1] \in DOMAIN shown /\ end[2] \in shown[end[1]]

(* Connections go from ports that send to ports that receive, of devices   *)
(* that are there, once each and without a cycle.                          *)
EdgesAreSound(edges, shown) ==
    \A i \in DOMAIN edges :
        LET from == EdgeEnds(edges[i])[1]
            to == EdgeEnds(edges[i])[2]
        IN /\ EndsShown(edges[i], shown)
           /\ IsSendPort(from[1], from[2]) /\ ~IsSendPort(to[1], to[2])
           /\ from[1] \notin Reached(edges, to[1])
           /\ \A j \in DOMAIN edges \ {i} : edges[i] # edges[j]

Exists(d, c) == c = <<>> \/ HasUnit(d, c)
IsLinked(d) ==
    /\ \A c \in Containers : Exists(d, c) => EdgesAreSound(d.edges[c], Shown(d, c))
    /\ \A n \in Controls : d.cmap[n] # None => HasUnit(d, <<d.cmap[n]>>)

RemovedAreEmpty(d) ==
    \A u \in Units : ~HasUnit(d, u) =>
        /\ ProcsIn(d, u) = {} /\ UnitsIn(d, u) = {}
        /\ d.edges[u] = <<>> /\ d.placed[u] = {}
        /\ d.exprs[u] = NoExpressions /\ d.streams[u] = <<>>

ControlsAreExact(d) ==
    /\ d.controls = {n \in Controls : d.cmap[n] # None}
    /\ \A u \in UnitsIn(d, <<>>) : \E n \in Controls : {k \in Controls : d.cmap[k] = Last(u)} = {n}
    /\ UnitsIn(d, <<>>) # {} => \A ch \in Chs : d.cmap[d.channels[ch]] # None

(* The editor gives a unit the control of its own number, and with the     *)
(* last unit the channels go back to control 0: the one of the next unit.  *)
ControlsAreNumbered(d) ==
    /\ \A n \in Controls : d.cmap[n] \in {None, n}
    /\ UnitsIn(d, <<>>) = {} => \A ch \in Chs : d.channels[ch] = 0

ReferencesLive(d) ==
    \A u \in Units :
        /\ d.exprs[u].default \in ExprNames(d, u) \union {None}
        /\ Len(u) = 1 => \A i \in DOMAIN d.streams[u] : d.streams[u][i][2] \in StreamProcs(d, u)

LayoutIsOfDevices(d) == \A c \in Containers : d.placed[c] \subseteq DevicesIn(d, c)

IsWhole(d) ==
    IsLinked(d) /\ RemovedAreEmpty(d) /\ ControlsAreExact(d) /\ ControlsAreNumbered(d)
    /\ ReferencesLive(d) /\ LayoutIsOfDevices(d)

(* The modules at first are ones that these editors can have made.         *)
ASSUME ModulesAtFirst ==
    \A c \in DOMAIN Beginnings :
        /\ c \in Containers
        /\ \A d \in Beginnings[c] : d \in Modules /\ Exists(d, c) /\ IsWhole(d)

----------------------------------------------------------------------------
(* The view, the session and the beginning.                                *)

NewView(d, c) ==
    [of |-> c, st |-> "idle", devs |-> Shown(d, c), unplaced |-> DevicesIn(d, c) \ d.placed[c],
     focus |-> None, button |-> None, pressed |-> None, port |-> None,
     adding |-> None, edge |-> None, pressedDev |-> None]

ViewSignals(c) ==
    {<<"connections", c>>, <<"controls">>} \union
        IF c = <<>> THEN {} ELSE {<<"shown expression", c>>, <<"mode", c>>}

(* ExpressionEditingToggle and ExpressionSelector, also when they are made *)
UpdatedSession(s, names) ==
    [s EXCEPT !.mode = IF names = {} THEN "normal" ELSE @,
              !.shown = IF names # {} /\ @ \notin names THEN Min(names) ELSE @]

Init ==
    /\ \E c \in DOMAIN Beginnings :
          /\ store \in Beginnings[c]
          /\ view = NewView(store, c)
          /\ editors = {c} \ {<<>>}
    /\ session = [u \in Units |-> IF u \in editors THEN UpdatedSession(NoSession, ExprNames(store, u)) ELSE NoSession]
    /\ known = [u \in Units |-> None]
    /\ mouse = [at |-> <<"outside">>, down |-> FALSE]
    /\ dialog = None /\ signals = {} /\ writes = <<store>> /\ done = <<"none">>
    /\ renewed = {} /\ failed = None /\ actions = 0

----------------------------------------------------------------------------
(* Helpers of the handlers.                                                *)

Mode == IF view.of = <<>> THEN "normal" ELSE session[view.of].mode
Changed == {<<"connections", view.of>>}

(* A new input, after the updates of the one before.                       *)
Input(what) ==
    /\ failed = None /\ signals = {} /\ actions < MaxActions
    /\ dialog = None /\ ~mouse.down /\ view.st # "edge_menu"
    /\ done' = what /\ actions' = actions + 1

(* An input somewhere else than in the view.                               *)
Elsewhere(what) == Input(what) /\ mouse.at = <<"outside">>

Puts(steps, sigs) ==
    /\ store' = Last(steps) /\ writes' = steps
    /\ signals' = signals \union sigs
Put(d, sigs) == Puts(<<store, d>>, sigs)
PutsNothing == writes' = <<store>> /\ UNCHANGED <<store, signals>>

Edits(d, sigs) == Put(d, sigs) /\ UNCHANGED <<session, editors, known, view, mouse, dialog, renewed, failed>>

Raises(why) ==
    /\ failed' = why /\ PutsNothing
    /\ UNCHANGED <<session, editors, known, view, dialog, renewed>>

(* _change_layout_entry also writes the default offsets, of devices that   *)
(* have none in the layout yet.                                            *)
ChangeLayout(v, d, S) == SetLayout(d, v.of, S \union v.unplaced)

----------------------------------------------------------------------------
(* The mouse in the view.                                                  *)

HasButtons(dev) == dev[1] \in {"au", "proc"}
Parts ==
    {<<"empty">>} \union {<<"body", dev>> : dev \in DOMAIN view.devs}
    \union (UNION {{<<"port", dev, p>> : p \in view.devs[dev]} : dev \in DOMAIN view.devs})
    \union {<<"button", dev, b>> : dev \in {x \in DOMAIN view.devs : HasButtons(x)}, b \in {"edit", "remove"}}
    \union {<<"edge", e>> : e \in ToSet(store.edges[view.of])}
(* The parts that make a difference while a button is down.                *)
PartsInDrag ==
    LET kinds == IF Mode # "normal" THEN {"empty", "body"}
                 ELSE CASE view.st = "adding_edge" -> {"empty", "port"}
                        [] view.st = "pressing" -> {"empty", "button"}
                        [] OTHER -> {"empty"}
    IN {t \in Parts : t[1] \in kinds}
OnDevice(t) == t[1] \in {"body", "port", "button"}
OnProc(t) == t[1] \in {"body", "button"} /\ t[2][1] = "proc"
ButtonAt(t, pressed) ==
    IF t[1] = "button" THEN [dev |-> t[2], type |-> t[3], pressed |-> pressed] ELSE None
FocusGone == view.focus = None \/ view.focus \notin DOMAIN view.devs

Focuses(v, button) == [v EXCEPT !.port = None, !.button = button, !.edge = None]

MoveIdle(t) ==
    /\ view' = [view EXCEPT !.port = IF t[1] = "port" THEN <<t[2], t[3]>> ELSE None,
                            !.button = ButtonAt(t, FALSE),
                            !.edge = IF t[1] = "edge" THEN t[2] ELSE None]
    /\ PutsNothing

MoveDevice ==
    IF FocusGone THEN view' = Focuses([view EXCEPT !.st = "idle"], None) /\ PutsNothing
    ELSE /\ view' = Focuses([view EXCEPT !.unplaced = {}], None)
         /\ Put(ChangeLayout(view, store, {view.focus}), Changed)

MovePressing(t) ==
    /\ view' = IF FocusGone THEN Focuses([view EXCEPT !.st = "idle"], None)
               ELSE Focuses(view, IF /\ t[1] = "button" /\ t[2] = view.focus
                                     /\ view.pressed # None /\ view.pressed.dev = view.focus
                                  THEN ButtonAt(t, TRUE) ELSE None)
    /\ PutsNothing

(* A connection is suggested only if it is valid.                          *)
CanConnect(from, to) ==
    /\ IsSendPort(from[1], from[2]) # IsSendPort(to[1], to[2])
    /\ ~EdgeExists(store, view.of, from, to)
    /\ ~EdgeCompletesCycle(store, view.of, from, to)

MoveAdding(t) ==
    LET to == <<t[2], t[3]>>
        target == IF t[1] # "port" THEN None ELSE IF CanConnect(view.adding.from, to) THEN to ELSE None
    IN /\ view' = Focuses([view EXCEPT !.adding.to = target], None)
       /\ PutsNothing

(* The mouse chooses processors while a filter is edited.                  *)
MoveFilter(t) ==
    /\ view' = [view EXCEPT !.focus =
                   IF view.st \notin {"idle", "pressing"} THEN view.focus
                   ELSE IF OnProc(t) /\ (view.st = "pressing" => t[2] = view.pressedDev) THEN t[2] ELSE None]
    /\ PutsNothing

(* From one part to another the mouse leaves and comes again, unless a     *)
(* button is down: what it was over before makes no difference.            *)
Move(t) ==
    /\ failed = None /\ dialog = None /\ view.st # "edge_menu" /\ t # mouse.at
    /\ mouse.down \/ (signals = {} /\ mouse.at = <<"outside">>)
    /\ mouse' = [mouse EXCEPT !.at = t]
    /\ IF Mode # "normal" THEN MoveFilter(t)
       ELSE CASE view.st = "idle" -> MoveIdle(t)
              [] view.st = "moving" -> MoveDevice
              [] view.st = "pressing" -> MovePressing(t)
              [] view.st = "adding_edge" -> MoveAdding(t)
    /\ UNCHANGED <<session, editors, known, dialog, done, renewed, failed, actions>>

(* Raising a device to the top writes the layout.                          *)
PressNormal(t) ==
    LET focus == IF OnDevice(t) THEN t[2] ELSE view.focus
        focused == [view EXCEPT !.focus = focus]
        raised == [focused EXCEPT !.unplaced = {}]
        button == ButtonAt(t, TRUE)
    IN IF focus = None
       THEN /\ view' = IF view.edge = None THEN view ELSE [view EXCEPT !.st = "edge_menu"]
            /\ mouse' = [mouse EXCEPT !.down = view.edge = None]
            /\ PutsNothing
       ELSE /\ view' = CASE button # None ->
                              [raised EXCEPT !.st = "pressing", !.pressed = button, !.button = button]
                         [] button = None /\ view.port # None ->
                              [raised EXCEPT !.st = "adding_edge", !.adding = [from |-> view.port, to |-> None]]
                         [] OTHER -> [raised EXCEPT !.st = "moving"]
            /\ mouse' = [mouse EXCEPT !.down = TRUE]
            /\ Put(ChangeLayout(view, store, {}), Changed)

(* A press looks again what the mouse is over: what it came to may be gone *)
(* since, and show what was below.                                         *)
UnderMouse ==
    IF mouse.at \in Parts THEN {mouse.at}
    ELSE {t \in Parts : mouse.at[1] = "edge" => ~OnDevice(t)}

PressFilter(t) ==
    /\ view' = IF OnProc(t) THEN [view EXCEPT !.pressedDev = t[2], !.st = "pressing"]
               ELSE [view EXCEPT !.pressedDev = None]
    /\ mouse' = [mouse EXCEPT !.down = TRUE]
    /\ PutsNothing

Press ==
    /\ mouse.at # <<"outside">> /\ Input(<<"press">>)
    /\ IF view.focus # None /\ view.focus \notin DOMAIN view.devs THEN Raises("focus") /\ UNCHANGED mouse
       ELSE /\ \E t \in UnderMouse : IF Mode = "normal" THEN PressNormal(t) ELSE PressFilter(t)
            /\ UNCHANGED <<session, editors, known, dialog, renewed, failed>>

----------------------------------------------------------------------------
(* Removal of a device: windows, connections, controls, data and layout,   *)
(* each in a transaction of its own.                                       *)

UnitOf(dev) == Append(view.of, dev[2])

DroppedLayout(d, dev) ==
    IF dev \in d.placed[view.of] THEN <<DropLayout(d, view.of, dev)>> ELSE <<>>

RemovalSteps(dev) ==
    LET cut == DisconnectDevice(store, view.of, dev)
        free == IF view.of = <<>> THEN RemoveControlsTo(cut, UnitOf(dev)) ELSE <<cut>>
        steps == IF dev[1] = "proc" THEN <<cut, RemoveProcessor(cut, view.of, dev[2])>>
                 ELSE Append(free, RemoveUnit(Last(free), UnitOf(dev)))
    IN steps \o DroppedLayout(Last(steps), dev)

CanReadControls(dev) ==
    view.of # <<>> \/ (ChannelsReadable(store, UnitOf(dev)) /\ ControlsReadable(store))

(* The editors of the unit and of what is inside close in the next update; *)
(* what the session knows of the unit stays.                               *)
RemoveDevice(dev) ==
    LET gone == IF dev[1] = "au" THEN Inside(UnitOf(dev)) ELSE {}
    IN IF ~CanReadControls(dev)
       THEN failed' = "control" /\ PutsNothing /\ UNCHANGED <<editors, known, renewed>>
       ELSE /\ Puts(RemovalSteps(dev), Changed \union (IF view.of = <<>> THEN {<<"controls">>} ELSE {}))
            /\ editors' = editors \ gone
            /\ known' = [u \in Units |-> IF u \in gone THEN None ELSE known[u]]
            /\ renewed' = renewed \union gone
            /\ UNCHANGED failed

----------------------------------------------------------------------------
(* Release, the dialog and the menu.                                       *)

(* A button is clicked when the mouse is released where it was pressed.    *)
Clicked == view.button = view.pressed

Released(v) ==
    [v EXCEPT !.st = "idle", !.focus = None, !.pressed = None,
              !.button = IF @ = None THEN NoButton ELSE [@ EXCEPT !.pressed = FALSE]]

ShowEditor(dev) ==
    /\ signals' = IF dev[1] = "au" THEN signals \union {<<"open", UnitOf(dev)>>} ELSE signals
    /\ writes' = <<store>>
    /\ UNCHANGED <<store, editors, known, dialog, renewed, failed>>

ReleaseButton(shift) ==
    CASE ~Clicked -> view' = Released(view) /\ PutsNothing /\ UNCHANGED <<editors, known, dialog, renewed, failed>>
      [] Clicked /\ view.button = None -> view' = view /\ failed' = "button" /\ PutsNothing /\ UNCHANGED <<editors, known, dialog, renewed>>
      [] Clicked /\ view.button # None /\ view.button.type = "edit" -> view' = Released(view) /\ ShowEditor(view.button.dev)
      [] OTHER ->
            IF shift THEN view' = Released(view) /\ RemoveDevice(view.button.dev) /\ UNCHANGED dialog
            ELSE /\ dialog' = view.button.dev /\ view' = [view EXCEPT !.focus = None] /\ PutsNothing
                 /\ UNCHANGED <<editors, known, renewed, failed>>

ReleaseEdge ==
    /\ view' = [view EXCEPT !.st = "idle", !.focus = None, !.adding = None]
    /\ LET new == view.adding
       IN Put(IF new.to = None THEN store ELSE AppendEdge(store, view.of, MakeEdge(new.from, new.to)), Changed)
    /\ UNCHANGED <<editors, known, dialog, renewed, failed>>

ReleaseNormal(shift) ==
    CASE view.st = "pressing" -> ReleaseButton(shift)
      [] view.st = "adding_edge" -> ReleaseEdge
      [] OTHER -> /\ view' = [view EXCEPT !.st = "idle", !.focus = None]
                  /\ PutsNothing /\ UNCHANGED <<editors, known, dialog, renewed, failed>>

(* A processor goes into or out of the filter of the expression shown.     *)
ReleaseFilter ==
    LET toggles == view.st = "pressing" /\ view.pressedDev # None /\ view.focus = view.pressedDev
        name == session[view.of].shown
    IN /\ view' = [view EXCEPT !.st = "idle", !.pressedDev = None]
       /\ CASE ~toggles -> PutsNothing /\ UNCHANGED failed
            [] toggles /\ name \in ExprNames(store, view.of) ->
                  /\ Put(ToggleFilter(store, view.of, name, view.focus), {<<"shown expression", view.of>>})
                  /\ UNCHANGED failed
            [] OTHER -> failed' = "expression" /\ PutsNothing
       /\ UNCHANGED <<editors, known, dialog, renewed>>

Release ==
    /\ mouse.down /\ failed = None
    /\ mouse' = [mouse EXCEPT !.down = FALSE]
    /\ done' = <<"release", view.st>>
    /\ IF Mode = "normal" THEN \E shift \in BOOLEAN : ReleaseNormal(shift) ELSE ReleaseFilter
    /\ UNCHANGED <<session, actions>>

(* The handler that opened the dialog goes on when it closes.              *)
CloseDialog ==
    /\ dialog # None /\ failed = None /\ signals = {}
    /\ dialog' = None /\ view' = Released(view) /\ done' = <<"dialog">>
    /\ \/ RemoveDevice(dialog)
       \/ PutsNothing /\ UNCHANGED <<editors, known, renewed, failed>>
    /\ UNCHANGED <<session, mouse, actions>>

(* The menu hides before its action runs.                                  *)
CloseMenu ==
    /\ view.st = "edge_menu" /\ failed = None /\ signals = {}
    /\ view' = [view EXCEPT !.st = "idle", !.edge = None]
    /\ done' = <<"menu">>
    /\ \/ PutsNothing /\ UNCHANGED failed
       \/ IF Contains(store.edges[view.of], view.edge)
          THEN Put(RemoveEdge(store, view.of, view.edge), Changed) /\ UNCHANGED failed
          ELSE failed' = "edge" /\ PutsNothing
    /\ UNCHANGED <<session, editors, known, mouse, dialog, renewed, actions>>

Leave ==
    /\ failed = None /\ ~mouse.down /\ signals = {} /\ view.st # "edge_menu" /\ mouse.at # <<"outside">>
    /\ mouse' = [mouse EXCEPT !.at = <<"outside">>]
    /\ view' = [view EXCEPT !.focus = None, !.button = None, !.pressed = None, !.port = None, !.edge = None]
    /\ PutsNothing
    /\ UNCHANGED <<session, editors, known, dialog, done, renewed, failed, actions>>

----------------------------------------------------------------------------
(* The tool bars of the connections editors.                               *)

Made(c) == {<<"connections", c>>} \union IF c = <<>> THEN {<<"controls">>} ELSE {}

NewUnit(kind) ==
    LET u == FreeUnit(store, <<>>)
        n == FreeControl(store)
    IN /\ Elsewhere(<<"added">>) /\ u # None /\ n # None
       /\ Edits(IF kind = "instrument" THEN AddInstrument(store, u, n) ELSE AddEffect(store, u, n), Made(<<>>))

NewNestedEffect(c) ==
    /\ Elsewhere(<<"added">>) /\ c \in editors /\ store.units[c].kind = "instrument"
    /\ FreeUnit(store, c) # None
    /\ Edits(AddNestedEffect(store, FreeUnit(store, c)), Made(c))

NewProcessor(c, type) ==
    /\ Elsewhere(<<"added">>) /\ c \in editors /\ FreeProcs(store, c) # {}
    /\ Edits(AddProcessor(store, c, Min(FreeProcs(store, c)), type), Made(c))

(* The expression filter is edited in the view when the toggle is down;    *)
(* it is enabled when there is an expression.                              *)
ToggleFilterMode(c) ==
    /\ Elsewhere(<<"mode">>) /\ c \in editors /\ ExprNames(store, c) # {}
    /\ session' = [session EXCEPT ![c].mode = IF @ = "normal" THEN "expr_filter" ELSE "normal"]
    /\ signals' = {<<"mode", c>>} /\ writes' = <<store>>
    /\ UNCHANGED <<store, editors, known, view, mouse, dialog, renewed, failed>>

ShowExpression(c, name) ==
    /\ Elsewhere(<<"show">>) /\ c \in editors
    /\ name \in ExprNames(store, c) \ {session[c].shown}
    /\ session' = [session EXCEPT ![c].shown = name]
    /\ signals' = {<<"shown expression", c>>} /\ writes' = <<store>>
    /\ UNCHANGED <<store, editors, known, view, mouse, dialog, renewed, failed>>

----------------------------------------------------------------------------
(* The editors of audio units, and the channel defaults.                   *)

(* Ports signal the connections inside and around the unit.                *)
PortSignals(u) == {<<"connections", u>>, <<"connections", Front(u)>>}

PortAdded(u, dir) ==
    /\ Elsewhere(<<"port">>) /\ u \in editors /\ FreePort(store, u, dir) # None
    /\ Edits(AddPort(store, u, FreePort(store, u, dir)), PortSignals(u))

PortRemoved(u, p) ==
    /\ Elsewhere(<<"port">>) /\ u \in editors /\ p \in store.units[u].ports
    /\ Edits(RemovePort(store, u, p), PortSignals(u))

IsInstrument(u) == u \in editors /\ store.units[u].kind = "instrument"
SelectsExpression(u, name) == session' = [session EXCEPT ![u].selected = name]

NewExpression(u) ==
    /\ Elsewhere(<<"expression">>) /\ IsInstrument(u) /\ ExprNames(store, u) # Names
    /\ Edits(AddExpression(store, u), {<<"expressions", u>>})

SelectExpression(u, name) ==
    /\ Elsewhere(<<"select">>) /\ IsInstrument(u)
    /\ name \in ExprNames(store, u) \ {session[u].selected}
    /\ SelectsExpression(u, name) /\ PutsNothing
    /\ UNCHANGED <<editors, known, view, mouse, dialog, renewed, failed>>

Deselects(u) == SelectsExpression(u, None)

(* The button is enabled when the session has a selection for this unit,   *)
(* even one that was made in another unit of the same name.                *)
DropExpression(u) ==
    /\ Elsewhere(<<"expression">>) /\ IsInstrument(u) /\ session[u].selected # None
    /\ IF session[u].selected \notin ExprNames(store, u) THEN Raises(<<"selected", u>>) /\ UNCHANGED mouse
       ELSE /\ Put(RemoveExpression(store, u, session[u].selected),
                   {<<"expressions", u>>, <<"shown expression", u>>})
            /\ Deselects(u)
            /\ UNCHANGED <<editors, known, view, mouse, dialog, renewed, failed>>

(* The name editor refuses the names it knows; it gets its validator with  *)
(* the first update of the list.                                           *)
RenameSelected(u, new) ==
    LET old == session[u].selected
    IN /\ Elsewhere(<<"rename", u, known[u]>>) /\ IsInstrument(u) /\ old # None /\ new # old
       /\ known[u] # None => new \notin known[u]
       /\ IF old \notin ExprNames(store, u) THEN Raises(<<"selected", u>>) /\ UNCHANGED mouse
          ELSE /\ Put(RenameExpression(store, u, old, new), {<<"expressions", u>>})
               /\ session' = [session EXCEPT ![u].selected = new,
                                             ![u].shown = IF @ = old THEN new ELSE @]
               /\ UNCHANGED <<editors, known, view, mouse, dialog, renewed, failed>>

ChangeDefaultExpression(u, name) ==
    /\ Elsewhere(<<"default">>) /\ IsInstrument(u)
    /\ name \in (ExprNames(store, u) \union {None}) \ {store.exprs[u].default}
    /\ Edits(SetDefaultExpression(store, u, name), {})

NewStream(u) ==
    /\ Elsewhere(<<"stream">>) /\ u \in editors
    /\ StreamProcs(store, u) # {} /\ StreamNames(store, u) # Names
    /\ Edits(AddStream(store, u), {})

RenameStream(u, old, new) ==
    /\ Elsewhere(<<"stream">>) /\ u \in editors
    /\ old \in StreamNames(store, u) /\ new \in Names \ StreamNames(store, u)
    /\ Edits(ChangeStreamName(store, u, old, new), {})

RetargetStream(u, name, n) ==
    /\ Elsewhere(<<"stream">>) /\ u \in editors
    /\ name \in StreamNames(store, u) /\ n \in StreamProcs(store, u)
    /\ Edits(SetStreamTarget(store, u, name, n), {})

DropStream(u, name) ==
    /\ Elsewhere(<<"stream">>) /\ u \in editors /\ name \in StreamNames(store, u)
    /\ Edits(RemoveStream(store, u, name), {})

ChangeChannel(ch, n) ==
    /\ Elsewhere(<<"channel">>)
    /\ store.cmap[n] # None /\ n # store.channels[ch]
    /\ Edits(SetChannel(store, ch, n), {})

----------------------------------------------------------------------------
(* The next update.                                                        *)

(* A device that is shown is kept only if its name and ports are the same. *)
UpdateDevices(v, d) ==
    [v EXCEPT !.devs = Shown(d, v.of),
              !.unplaced = @ \union (DevicesIn(d, v.of) \ d.placed[v.of])]

KnownNames(names) == names

Tick ==
    LET opened == {u \in Units \ editors : <<"open", u>> \in signals /\ HasUnit(store, u)}
        listed == {u \in editors : <<"expressions", u>> \in signals}
    IN /\ signals # {} /\ failed = None
       /\ signals' = {}
       /\ editors' = editors \union opened
       /\ known' = [u \in Units |-> IF u \in listed THEN KnownNames(ExprNames(store, u)) ELSE known[u]]
       /\ session' = [u \in Units |-> IF u \in opened \union listed THEN UpdatedSession(session[u], ExprNames(store, u))
                                        ELSE session[u]]
       /\ view' = IF signals \intersect ViewSignals(view.of) = {} THEN view ELSE UpdateDevices(view, store)
       /\ writes' = <<store>>
       /\ UNCHANGED <<store, mouse, dialog, done, renewed, failed, actions>>

MouseNext == (\E t \in (IF mouse.down THEN PartsInDrag ELSE Parts) : Move(t)) \/ Press \/ Release \/ CloseDialog \/ CloseMenu \/ Leave

WindowNext ==
    \/ \E kind \in {"instrument", "effect"} : NewUnit(kind)
    \/ \E u \in editors, n \in Names : SelectExpression(u, n) \/ RenameSelected(u, n)
    \/ \E u \in editors, n \in Names \union {None} : ChangeDefaultExpression(u, n)
    \/ \E u \in editors, n \in Names : ShowExpression(u, n) \/ DropStream(u, n)
    \/ \E u \in editors, n, k \in Names : RenameStream(u, n, k)
    \/ \E u \in editors, n \in Names, k \in Procs : RetargetStream(u, n, k)
    \/ \E u \in editors : NewNestedEffect(u) \/ NewExpression(u) \/ DropExpression(u) \/ NewStream(u) \/ ToggleFilterMode(u)
    \/ \E u \in editors, type \in MadeTypes : NewProcessor(u, type)
    \/ \E u \in editors, dir \in {"in", "out"} : PortAdded(u, dir)
    \/ \E u \in editors, p \in Ports : PortRemoved(u, p)
    \/ \E ch \in Chs, n \in Controls : ChangeChannel(ch, n)

Next == MouseNext \/ WindowNext \/ Tick
Spec == Init /\ [][Next]_vars

----------------------------------------------------------------------------
(* Properties.                                                             *)

Whys == {"focus", "control", "button", "expression", "edge"} \union {<<"selected", u>> : u \in Units}

(* Types of the variables; what the view keeps are devices and ports that  *)
(* were shown, and nothing when the mouse is outside.                      *)
TypeOK ==
    /\ store \in Modules
    /\ session \in [Units -> [selected : Names \union {None}, shown : Names \union {None},
                              mode : {"normal", "expr_filter"}]]
    /\ editors \subseteq Units /\ renewed \subseteq Units
    /\ known \in [Units -> {None} \union SUBSET Names]
    /\ view.of \in Containers /\ view.st \in {"idle", "moving", "pressing", "adding_edge", "edge_menu"}
    /\ mouse.down \in BOOLEAN /\ writes # <<>> /\ actions \in 0..MaxActions
    /\ failed = None \/ failed \in Whys
    /\ view.st = "adding_edge" => view.adding # None
    /\ mouse.at = <<"outside">> =>
          /\ view.focus = None /\ view.port = None /\ view.edge = None
          /\ view.button \in {None, NoButton} /\ (dialog = None => view.st = "idle")

(* After every transaction of an input, also in the middle of a removal,   *)
(* the connections of each container are sound, or the engine refuses the  *)
(* whole file (Connections), and the control map names units that are      *)
(* there.                                                                  *)
ConnectionsAreSound == \A i \in DOMAIN writes : IsLinked(writes[i])

(* Nothing is left of a unit that was removed: what it had would come back *)
(* in the next unit that gets its number (AudioUnit, remove_device).       *)
RemovedUnitsAreEmpty == RemovedAreEmpty(store)

(* After an input each unit has one control, and if there is a unit, the   *)
(* control of every channel reaches one                                    *)
(* (get_edit_remove_controls_to_audio_unit).                               *)
ControlsReachUnits == ControlsAreExact(store) /\ ControlsAreNumbered(store)

(* No input raises an exception, except the buttons of a unit that took    *)
(* the place of a removed one: the selection of the removed unit's         *)
(* expressions is still in the session.                                    *)
HandlersFindTheirDevices ==
    failed # None => \E u \in renewed : failed = <<"selected", u>>

(* Without a signal that is still to come, the view shows the devices of   *)
(* the module with the ports they have.                                    *)
ViewShowsModule ==
    signals \intersect ViewSignals(view.of) = {} => view.devs = Shown(store, view.of)

(* What is painted is looked up in the devices shown: all connections, the *)
(* one being made and the one under the mouse.  A unit that was just added *)
(* is connected before it is shown.                                        *)
PaintFindsDevices ==
    signals = {} \/ done # <<"added">> =>
        /\ \A e \in ToSet(store.edges[view.of]) : EndsShown(e, view.devs)
        /\ view.adding # None => \A end \in {view.adding.from, view.adding.to} \ {None} :
              end[1] \in DOMAIN view.devs /\ end[2] \in view.devs[end[1]]
        /\ view.edge # None => EndsShown(view.edge, view.devs)

(* The default expression, the selected one and the targets of the stream  *)
(* interfaces of units outside of others exist.                            *)
ReferencesAreLive ==
    /\ ReferencesLive(store)
    /\ \A u \in Units : session[u].selected \in ExprNames(store, u) \union {None} \/ u \in renewed

(* When the view edits a filter, the filter is one of an expression of the *)
(* unit: a click on a processor has something to change.                   *)
FilterEditsAnExpression ==
    signals = {} /\ Mode = "expr_filter" => session[view.of].shown \in ExprNames(store, view.of)

(* The layout has no entry of a device that is gone, whose place the next  *)
(* device of that name would get.                                          *)
LayoutNamesDevices == LayoutIsOfDevices(store)

(* A connection goes away only with a device or a port at one of its ends, *)
(* with its container, or when it is the one the menu was opened on.       *)
EdgesGoForAReason ==
    [][\A c \in Containers : \A e \in ToSet(store.edges[c]) \ ToSet(store'.edges[c]) :
          \/ c # <<>> /\ ~HasUnit(store', c)
          \/ ~EndsShown(e, Shown(store', c))
          \/ c = view.of /\ e = view.edge /\ view.st = "edge_menu"]_vars

(* A rename that a validator has let through loses no expression.          *)
ValidatedRenamesKeepExpressions ==
    [][actions' # actions /\ done'[1] = "rename" /\ done'[3] # None
          => Cardinality(ExprNames(store', done'[2])) = Cardinality(ExprNames(store, done'[2]))]_vars

(* The module is sound after every transaction: what it connects, controls,*)
(* refers to and lays out is there, and nothing is left of what is not.    *)
ModuleIsSound ==
    TypeOK /\ ConnectionsAreSound /\ RemovedUnitsAreEmpty /\ ControlsReachUnits
    /\ ReferencesAreLive /\ LayoutNamesDevices

(* The view can be used whenever an input or a paint comes: what it shows, *)
(* holds and offers to edit is in the module.                              *)
ViewIsUsable ==
    HandlersFindTheirDevices /\ ViewShowsModule /\ PaintFindsDevices /\ FilterEditsAnExpression

(* Edits take no more than was asked for: a connection or an expression    *)
(* goes only with what it belongs to.                                      *)
EditsLoseNothing == EdgesGoForAReason /\ ValidatedRenamesKeepExpressions
=============================================================================
