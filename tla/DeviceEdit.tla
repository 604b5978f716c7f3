----------------------------- MODULE DeviceEdit -----------------------------
(***************************************************************************)
(* The devices of a module as the user interface edits them                *)
(* (tracker/ui/model/module.py, audiounit.py, connections.py, control.py,  *)
(* channeldefaults.py).                                                    *)
(*                                                                         *)
(* Audio units are inside the module, effects also inside instruments, and *)
(* processors inside audio units.  Each of these containers has a list of  *)
(* connections between its devices.  Controls say which audio unit a note  *)
(* goes to, channels have a default control, and an audio unit has         *)
(* expressions and stream interfaces that refer to its processors.         *)
(*                                                                         *)
(* The data is a record, and an operation maps it to the record after the  *)
(* transactions of the call.  A unit is named by its numbers from the      *)
(* module inwards, <<>> is the module, and a device has a name inside its  *)
(* container.                                                              *)
(***************************************************************************)
EXTENDS Naturals, SequencesExt

CONSTANTS None,
          MaxUnit,     \* AUDIO_UNITS_MAX, for the module
          MaxNested,   \* AUDIO_UNITS_MAX, for an audio unit
          MaxProc,     \* PROCESSORS_MAX
          MaxControl,  \* CONTROLS_MAX
          MaxChannel,  \* CHANNELS_MAX
          MaxPort,     \* ports a device can have in each direction
          Sides,       \* audio channels: how many ports a new unit gets
          MaxName,     \* bound of the model: names of expressions and streams
          ProcPorts    \* for each type of processor, the ports it is made with

ASSUME SizesAssumption ==
    /\ {MaxUnit, MaxControl} \subseteq Nat \ {0} /\ {MaxNested, MaxChannel, MaxName} \subseteq Nat
    /\ MaxProc \in Nat /\ MaxProc >= 3
    /\ MaxPort \in Nat /\ MaxPort >= 2 /\ Sides \in 1..MaxPort

TopUnits == {<<i>> : i \in 0..(MaxUnit - 1)}
NestedUnits == {<<i, j>> : i \in 0..(MaxUnit - 1), j \in 0..(MaxNested - 1)}
Units == TopUnits \union NestedUnits
Containers == {<<>>} \union Units
Procs == 0..(MaxProc - 1)
Controls == 0..(MaxControl - 1)
Chs == 0..(MaxChannel - 1)
Names == 0..(MaxName - 1)

Master == <<"master">>
Iin == <<"Iin">>
UnitDevice(u) == <<"au", Last(u)>>
ProcDevice(n) == <<"proc", n>>
In(n) == <<"in", n>>
Out(n) == <<"out", n>>
Ports == {In(n) : n \in 0..(MaxPort - 1)} \union {Out(n) : n \in 0..(MaxPort - 1)}
AudioOut == {Out(n) : n \in 0..(Sides - 1)}
AudioIn == {In(n) : n \in 0..(Sides - 1)}

(* The processors of a new instrument have the ports that it connects.     *)
ASSUME PortsAssumption ==
    /\ {"force", "pitch", "add"} \subseteq DOMAIN ProcPorts
    /\ \A type \in DOMAIN ProcPorts : ProcPorts[type] \subseteq Ports
    /\ Out(0) \in ProcPorts["force"] \intersect ProcPorts["pitch"]
    /\ {In(0), In(1)} \union AudioOut \subseteq ProcPorts["add"]

UnitDevices == {<<"au", i>> : i \in 0..(MaxUnit - 1) \union 0..(MaxNested - 1)}
ProcDevices == {<<"proc", n>> : n \in Procs}
DeviceNames == {Master, Iin} \union UnitDevices \union ProcDevices

ASSUME NoneAssumption ==
    /\ None \notin {"instrument", "effect", "stream"} \union DOMAIN ProcPorts
    /\ None \notin Procs \union Controls \union Names \union 0..(MaxUnit - 1)
    /\ None \notin Units /\ None \notin Ports /\ None \notin DeviceNames /\ \A S \in SUBSET Names : S # None

(* What the data can be.                                                   *)
Paths == {<<p>> : p \in Ports} \union {<<dev, p>> : dev \in UnitDevices, p \in Ports}
            \union {<<dev, "C", p>> : dev \in ProcDevices, p \in Ports}
Edges == Paths \X Paths
Filters == UNION {[names -> SUBSET ProcDevices] : names \in SUBSET Names}
Modules ==
    [units : [Units -> [kind : {None, "instrument", "effect"}, ports : SUBSET Ports]],
     procs : [Units -> [Procs -> {None} \union DOMAIN ProcPorts]],
     edges : [Containers -> Seq(Edges)],
     placed : [Containers -> SUBSET DeviceNames],
     controls : SUBSET Controls,
     cmap : [Controls -> {None} \union 0..(MaxUnit - 1)],
     channels : [Chs -> Controls],
     exprs : [Units -> [filters : Filters, default : {None} \union Names]],
     streams : [Units -> Seq(Names \X Procs)]]

NoUnit == [kind |-> None, ports |-> {}]
NoExpressions == [filters |-> <<>>, default |-> None]
NoDevices ==
    [units |-> [u \in Units |-> NoUnit],
     procs |-> [u \in Units |-> [n \in Procs |-> None]],
     edges |-> [c \in Containers |-> <<>>],
     placed |-> [c \in Containers |-> {}],
     controls |-> {},
     cmap |-> [n \in Controls |-> None],
     channels |-> [ch \in Chs |-> 0],
     exprs |-> [u \in Units |-> NoExpressions],
     streams |-> [u \in Units |-> <<>>]]

----------------------------------------------------------------------------
(* What there is.                                                          *)

HasUnit(d, u) == d.units[u].kind # None
UnitsIn(d, c) == {u \in Units : Front(u) = c /\ HasUnit(d, u)}
ProcsIn(d, c) == IF c = <<>> THEN {} ELSE {n \in Procs : d.procs[c][n] # None}
Inside(u) == {v \in Units : IsPrefix(u, v)}
DevicesIn(d, c) ==
    {Master} \union {UnitDevice(u) : u \in UnitsIn(d, c)} \union {ProcDevice(n) : n \in ProcsIn(d, c)}
        \union IF c = <<>> THEN {} ELSE {Iin}

FreeUnits(c) == IF c = <<>> THEN TopUnits ELSE {u \in NestedUnits : Front(u) = c}
LeastUnit(S) == CHOOSE u \in S : \A v \in S : Last(u) <= Last(v)
FreeUnit(d, c) ==
    LET free == {u \in FreeUnits(c) : ~HasUnit(d, u)}
    IN IF free = {} THEN None ELSE LeastUnit(free)

FreeProcs(d, u) == Procs \ ProcsIn(d, u)
FreePorts(d, u, dir) == {p \in Ports : p[1] = dir /\ p \notin d.units[u].ports}
FreePort(d, u, dir) ==
    LET free == FreePorts(d, u, dir)
    IN IF free = {} THEN None ELSE CHOOSE p \in free : \A q \in free : p[2] <= q[2]

(* get_control_ids reads the control map, not the manifests.               *)
FreeControl(d) ==
    LET free == {n \in Controls : d.cmap[n] = None}
    IN IF free = {} THEN None ELSE Min(free)

ControlOf(d, u) ==
    LET mapped == {n \in Controls : d.cmap[n] = Last(u)}
    IN IF mapped = {} THEN None ELSE Min(mapped)

(* The ports of a device as its container sees them: the outputs of the    *)
(* container are the inputs of its master device.                          *)
OutPorts(d, c) == IF c = <<>> THEN AudioOut ELSE {p \in d.units[c].ports : p[1] = "out"}
InPorts(d, c) == {p \in d.units[c].ports : p[1] = "in"}
PortsOf(d, c, dev) ==
    CASE dev = Master -> OutPorts(d, c)
      [] dev = Iin -> InPorts(d, c)
      [] dev[1] = "au" -> d.units[Append(c, dev[2])].ports
      [] dev[1] = "proc" -> ProcPorts[d.procs[c][dev[2]]]

----------------------------------------------------------------------------
(* Connections.  A path has the parts of the code's path: the port alone   *)
(* stands for the container's own port.                                    *)

IsSendPort(dev, port) == (port[1] = "out") # (dev \in {Master, Iin})

MakePath(dev, port) ==
    CASE dev \in {Master, Iin} -> <<port>>
      [] dev[1] = "proc" -> <<dev, "C", port>>
      [] OTHER -> <<dev, port>>

SplitPath(path) ==
    CASE Len(path) > 1 -> <<path[1], Last(path)>>
      [] path[1][1] = "out" -> <<Master, path[1]>>
      [] OTHER -> <<Iin, path[1]>>

EdgeEnds(e) == <<SplitPath(e[1]), SplitPath(e[2])>>
MakeEdge(from, to) ==
    IF IsSendPort(from[1], from[2]) THEN <<MakePath(from[1], from[2]), MakePath(to[1], to[2])>>
    ELSE <<MakePath(to[1], to[2]), MakePath(from[1], from[2])>>

(* The elements of a sequence that are in a set, in their order.           *)
Keeping(s, S) ==
    LET Kept[n \in 0..Len(s)] ==
            IF n = 0 THEN <<>> ELSE IF s[n] \in S THEN Append(Kept[n - 1], s[n]) ELSE Kept[n - 1]
    IN Kept[Len(s)]
FirstAt(s, x) == CHOOSE i \in DOMAIN s : s[i] = x /\ \A j \in 1..(i - 1) : s[j] # x

AppendEdge(d, c, e) == [d EXCEPT !.edges[c] = Append(@, e)]
RemoveEdge(d, c, e) == [d EXCEPT !.edges[c] = RemoveAt(@, FirstAt(@, e))]

(* get_edit_connect_ports for every audio channel.                         *)
ConnectAudio(d, c, from, to) ==
    [d EXCEPT !.edges[c] = @ \o [i \in 1..Sides |-> <<from[i], to[i]>>]]

(* Wrong: only the connections that leave the device are removed.          *)
DisconnectSender(d, c, dev) ==
    [d EXCEPT !.edges[c] = Keeping(@, {e \in ToSet(@) : e[1][1] # dev})]

DisconnectDevice(d, c, dev) ==
    [d EXCEPT !.edges[c] = Keeping(@, {e \in ToSet(@) : e[1][1] # dev /\ e[2][1] # dev})]

(* Wrong: the connections of all the devices with such a port go.          *)
WithoutPort(edges, path) ==
    Keeping(edges, {e \in ToSet(edges) : Last(e[1]) # Last(path) /\ Last(e[2]) # Last(path)})

WithoutPath(edges, path) == Keeping(edges, {e \in ToSet(edges) : e[1] # path /\ e[2] # path})

(* _edge_completes_cycle: the new edge's receiver reaches its sender.      *)
Sender(e) == EdgeEnds(e)[1][1]
Receiver(e) == EdgeEnds(e)[2][1]
Reached(edges, dev) ==
    LET R[n \in 0..Len(edges)] ==
            IF n = 0 THEN {dev} ELSE R[n - 1] \union {Receiver(e) : e \in {x \in ToSet(edges) : Sender(x) \in R[n - 1]}}
    IN R[Len(edges)]

EdgeExists(d, c, from, to) == Contains(d.edges[c], MakeEdge(from, to))
EdgeCompletesCycle(d, c, from, to) ==
    LET edge == MakeEdge(from, to)
    IN Sender(edge) \in Reached(d.edges[c], Receiver(edge))

----------------------------------------------------------------------------
(* Units and processors.                                                   *)

(* get_edit_set_port_existence, for the ports of a new unit.               *)
GivePorts(d, u, kind, ports) ==
    [d EXCEPT !.units[u] = [kind |-> kind, ports |-> @.ports \union ports]]

AddProcessor(d, u, n, type) == [d EXCEPT !.procs[u][n] = type]

(* get_edit_create_new_instrument: processors for force and pitch, and an  *)
(* oscillator that gets both, in the first free places.                    *)
CreateInstrument(d, u) ==
    LET free == FreeProcs(d, u)
        force == Min(free)
        pitch == Min(free \ {force})
        base == Min(free \ {force, pitch})
        Dev(n) == ProcDevice(n)
        made == AddProcessor(AddProcessor(AddProcessor(
                    GivePorts(d, u, "instrument", AudioOut), u, force, "force"), u, pitch, "pitch"), u, base, "add")
    IN [made EXCEPT
          !.edges[u] = <<<<MakePath(Dev(pitch), Out(0)), MakePath(Dev(base), In(0))>>,
                         <<MakePath(Dev(force), Out(0)), MakePath(Dev(base), In(1))>>>>
                       \o [i \in 1..Sides |-> <<MakePath(Dev(base), Out(i - 1)), <<Out(i - 1)>>>>],
          !.placed[u] = {Iin, Master, Dev(force), Dev(pitch), Dev(base)}]

CreateEffect(d, u) ==
    ConnectAudio(GivePorts(d, u, "effect", AudioIn \union AudioOut), u,
                 [i \in 1..Sides |-> <<In(i - 1)>>], [i \in 1..Sides |-> <<Out(i - 1)>>])

(* _get_edit_try_connect_au_to_master: not when the module has an effect.  *)
TryConnectToMaster(d, before, u) ==
    IF \E v \in UnitsIn(before, <<>>) : before.units[v].kind = "effect" THEN d
    ELSE ConnectAudio(d, <<>>, [i \in 1..Sides |-> MakePath(UnitDevice(u), Out(i - 1))],
                      [i \in 1..Sides |-> <<Out(i - 1)>>])

ConnectControl(d, n, u) ==
    [d EXCEPT !.controls = @ \union {n}, !.cmap[n] = Last(u)]

AddInstrument(d, u, n) == TryConnectToMaster(ConnectControl(CreateInstrument(d, u), n, u), d, u)
AddEffect(d, u, n) == ConnectControl(CreateEffect(d, u), n, u)
AddNestedEffect(d, u) == CreateEffect(d, u)

(* Every key that starts with the name of the unit.                        *)
Cleared(f, u, v) == [w \in DOMAIN f |-> IF w \in Inside(u) THEN v ELSE f[w]]
RemoveUnit(d, u) ==
    [d EXCEPT !.units = Cleared(@, u, NoUnit), !.procs = Cleared(@, u, [n \in Procs |-> None]),
              !.edges = Cleared(@, u, <<>>), !.placed = Cleared(@, u, {}),
              !.exprs = Cleared(@, u, NoExpressions), !.streams = Cleared(@, u, <<>>)]

(* _remove_device looks for the processor's number in the second part of   *)
(* its name, which is the effect when the processor is inside one that is  *)
(* inside an instrument: its stream interfaces stay.                       *)
RemoveProcessor(d, u, n) ==
    [d EXCEPT !.procs[u][n] = None,
              !.streams[u] = IF Len(u) = 1 THEN Keeping(@, {s \in ToSet(@) : s[2] # n}) ELSE @]

(* remove_port, with the connections to it on both sides.                  *)
RemovePort(d, u, p) ==
    [d EXCEPT !.units[u].ports = @ \ {p},
              !.edges[u] = WithoutPath(@, <<p>>),
              !.edges[Front(u)] = WithoutPath(@, <<UnitDevice(u), p>>)]

AddPort(d, u, p) == [d EXCEPT !.units[u].ports = @ \union {p}]

SetLayout(d, c, S) == [d EXCEPT !.placed[c] = @ \union S]
DropLayout(d, c, dev) == [d EXCEPT !.placed[c] = @ \ {dev}]

----------------------------------------------------------------------------
(* Controls and channel defaults.  A call may put several transactions:    *)
(* the operators return the data after each of them.                       *)

SetChannel(d, ch, n) == [d EXCEPT !.channels[ch] = n]

(* The control that channels get when the unit is removed: that of another *)
(* unit, or control 0; None when the channels are left as they are.        *)
Fallback(d, u) ==
    LET others == UnitsIn(d, <<>>) \ {u}
        unit == IF others = {} THEN <<0>> ELSE LeastUnit(others)
    IN CASE unit = u -> None
         [] ControlOf(d, unit) = None -> 0
         [] OTHER -> ControlOf(d, unit)

(* Reading the unit of a control that is not in the map raises KeyError.   *)
ChannelsReadable(d, u) ==
    \/ Fallback(d, u) = None
    \/ \A ch \in Chs : d.channels[ch] = Fallback(d, u) \/ d.cmap[d.channels[ch]] # None
ControlsReadable(d) == \A n \in d.controls : d.cmap[n] # None

(* get_edit_remove_controls_to_audio_unit                                  *)
ChannelSteps(d, u) ==
    LET Steps[k \in 0..MaxChannel] ==
            IF k = 0 THEN <<d>>
            ELSE IF Fallback(d, u) # None /\ d.channels[k - 1] # Fallback(d, u)
                       /\ d.cmap[d.channels[k - 1]] = Last(u)
            THEN Append(Steps[k - 1], SetChannel(Last(Steps[k - 1]), k - 1, Fallback(d, u)))
            ELSE Steps[k - 1]
    IN Steps[MaxChannel]

RemoveControls(d, u) ==
    [d EXCEPT !.controls = {n \in @ : d.cmap[n] # Last(u)},
              !.cmap = [n \in Controls |-> IF @[n] = Last(u) THEN None ELSE @[n]]]

RemoveControlsTo(d, u) ==
    LET steps == ChannelSteps(d, u) IN Append(steps, RemoveControls(Last(steps), u))

----------------------------------------------------------------------------
(* Expressions and stream interfaces.                                      *)

ExprNames(d, u) == DOMAIN d.exprs[u].filters

(* The first of expr00, expr01, ... that is not used.                      *)
NewName(used) == Min(Names \ used)

AddExpression(d, u) ==
    LET new == NewName(ExprNames(d, u))
    IN [d EXCEPT !.exprs[u].filters = [name \in DOMAIN @ \union {new} |-> IF name = new THEN {} ELSE @[name]]]

(* Wrong: the default expression is not reset.                             *)
RemoveExpressionOnly(d, u, name) ==
    [d EXCEPT !.exprs[u].filters = Restrict(@, DOMAIN @ \ {name})]

RemoveExpression(d, u, name) ==
    LET rest == ExprNames(d, u) \ {name}
    IN [d EXCEPT !.exprs[u] = [filters |-> Restrict(@.filters, rest),
                               default |-> IF @.default \in rest THEN @.default ELSE None]]

(* The expression that has the new name already, if any, is replaced.      *)
RenameExpression(d, u, old, new) ==
    LET names == (ExprNames(d, u) \ {old}) \union {new}
    IN [d EXCEPT !.exprs[u] =
          [filters |-> [name \in names |-> @.filters[IF name = new THEN old ELSE name]],
           default |-> IF @.default = old THEN new ELSE @.default]]

SetDefaultExpression(d, u, name) == [d EXCEPT !.exprs[u].default = name]

Toggled(S, x) == IF x \in S THEN S \ {x} ELSE S \union {x}
ToggleFilter(d, u, name, dev) == [d EXCEPT !.exprs[u].filters[name] = Toggled(@, dev)]

StreamNames(d, u) == {d.streams[u][i][1] : i \in DOMAIN d.streams[u]}
StreamProcs(d, u) == {n \in Procs : d.procs[u][n] = "stream"}
StreamIndex(d, u, name) == CHOOSE i \in DOMAIN d.streams[u] :
    d.streams[u][i][1] = name /\ \A j \in 1..(i - 1) : d.streams[u][j][1] # name

AddStream(d, u) ==
    [d EXCEPT !.streams[u] = Append(@, <<NewName(StreamNames(d, u)), Min(StreamProcs(d, u))>>)]
ChangeStreamName(d, u, old, new) == [d EXCEPT !.streams[u][StreamIndex(d, u, old)][1] = new]
SetStreamTarget(d, u, name, n) == [d EXCEPT !.streams[u][StreamIndex(d, u, name)][2] = n]
RemoveStream(d, u, name) == [d EXCEPT !.streams[u] = RemoveAt(@, StreamIndex(d, u, name))]
=============================================================================
