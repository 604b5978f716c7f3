------------------------------ MODULE ProcParams ------------------------------
(***************************************************************************)
(* The parameters of the processors (model/procparams/) and the editors    *)
(* that show and set them (views/processor/).                              *)
(*                                                                         *)
(* A parameter is read from the configuration of the processor (c/), else  *)
(* from the data it was made with (i/), else it has a default.  Setting it *)
(* writes the configuration.  Every parameter has a widget; a widget is    *)
(* [kind, signal, shownOn, needs, checkedOn]: the signal it sends, the     *)
(* ones that bring it up to date, the switch that must be on (or off) for  *)
(* it to be enabled, and the signals on which that is looked at.  Numbers  *)
(* are levels; an input need not wait for the update of the one before.    *)
(*                                                                         *)
(* A mapping of the gain compression is a sequence of nodes <<x, y>>, one  *)
(* being Unit; new nodes beside the centre are at distance Near from it.   *)
(***************************************************************************)
EXTENDS Integers, Sequences, FiniteSets, SequencesExt

CONSTANTS None, Types,
          Impl,          \* type -> data a processor of the type may be made with
          Unit, Near,    \* one, and 0.0001 of it
          Mappings,      \* that are drawn
          MaxNodes,      \* _NODES_MAX
          MaxActions     \* bound of the model

VARIABLES store,     \* [type, impl, conf, applied]: what the samples of PADsynth were made of
          session,   \* [set, tasks, puts]: the parameters that were set (a history variable),
                     \* and the applications of parameters that wait and that are not confirmed
          view,      \* [shown, enabled, page, apply]
          signals,
          done,      \* history variable: the last input
          failed, actions

vars == <<store, session, view, signals, done, failed, actions>>

Levels == 0..2
Higher(a, b) == IF a > b THEN a ELSE b
Lower(a, b) == IF a < b THEN a ELSE b

-----------------------------------------------------------------------------
(* Kinds of widgets                                                        *)
Widget(kind, signal) ==
    [kind |-> kind, signal |-> signal, shownOn |-> {signal}, needs |-> None, checkedOn |-> {}]
Slider(signal) == Widget("number", signal)
Toggle(signal) == Widget("switch", signal)
Box(signal) == Widget("number", signal)
LineBox(signal) == Widget("line", signal)      \* set when the editing is finished
Needing(widget, switch, on, checkedOn) ==
    [widget EXCEPT !.needs = [switch |-> switch, on |-> on], !.checkedOn = checkedOn]

-----------------------------------------------------------------------------
(* Compression                                                             *)
CompressDefaults ==
    [attack |-> 0, release |-> 1, up |-> 0, upRatio |-> 1, upRange |-> 1, upOn |-> FALSE,
     down |-> 2, downRatio |-> 1, downRange |-> 1, downOn |-> FALSE]
CompressConfig(on) ==
    [threshold |-> Needing(Slider("threshold"), on, TRUE, {"enabled"}),
     ratio |-> Needing(Slider("ratio" \o on), on, TRUE, {"enabled"}),
     range |-> Needing(Slider("range" \o on), on, TRUE, {"enabled"})]
CompressWidgets ==
    LET up == CompressConfig("upOn")
        down == CompressConfig("downOn")
    IN  [attack |-> Slider("attack"), release |-> Slider("release"),
         up |-> up.threshold, upRatio |-> up.ratio, upRange |-> up.range, upOn |-> Toggle("enabled"),
         down |-> down.threshold, downRatio |-> down.ratio, downRange |-> down.range, downOn |-> Toggle("enabled")]

(* Generation of envelopes                                                 *)
EnvgenDefaults ==
    [linear |-> FALSE, adjust |-> 1, yMin |-> 0, yMax |-> 1, minVar |-> 0, maxVar |-> 0,
     immediate |-> TRUE, atRelease |-> FALSE, floor |-> FALSE, floorStart |-> 0, floorStop |-> 1,
     ceil |-> FALSE, ceilStart |-> 2, ceilStop |-> 1]
EnvgenRange ==
    [yMin |-> Needing(LineBox("range"), "linear", FALSE, {"linear"}),
     yMax |-> Needing(LineBox("range"), "linear", FALSE, {"linear"}),
     minVar |-> Needing(Box("range"), "linear", FALSE, {"linear"}), maxVar |-> Box("range")]
EnvgenBounds(on) == Needing(LineBox("trigger"), on, TRUE, {"trigger"})
EnvgenTriggers ==
    [immediate |-> Toggle("trigger"), atRelease |-> Toggle("trigger"),
     floor |-> Toggle("trigger"), floorStart |-> EnvgenBounds("floor"), floorStop |-> EnvgenBounds("floor"),
     ceil |-> Toggle("trigger"), ceilStart |-> EnvgenBounds("ceil"), ceilStop |-> EnvgenBounds("ceil")]
EnvgenWidgets ==
    [p \in DOMAIN EnvgenDefaults |->
        IF p \in DOMAIN EnvgenRange THEN EnvgenRange[p]
        ELSE IF p \in DOMAIN EnvgenTriggers THEN EnvgenTriggers[p]
        ELSE IF p = "linear" THEN Toggle("linear") ELSE Slider("adjust")]

(* Force                                                                   *)
ForceDefaults ==
    [global |-> 1, variation |-> 0, envelope |-> FALSE, loop |-> FALSE, ramp |-> FALSE, release |-> FALSE]
RampSignals == {"ramp", "release"}
ForceWidgets ==
    [global |-> Slider("global"), variation |-> Slider("variation"),
     envelope |-> Toggle("envelope"), loop |-> Needing(Toggle("envelope"), "envelope", TRUE, {"envelope"}),
     ramp |-> [Needing(Toggle("ramp"), "release", FALSE, RampSignals) EXCEPT !.shownOn = RampSignals],
     release |-> Toggle("release")]

(* Mapping of a range, and Karplus-Strong                                  *)
RangeMapDefaults ==
    [fromMin |-> 0, fromMax |-> 1, minTo |-> 0, maxTo |-> 1, clampMin |-> TRUE, clampMax |-> TRUE, mapping |-> FALSE]
RangeMapWidgets ==
    [fromMin |-> LineBox("all"), fromMax |-> LineBox("all"), minTo |-> Box("all"), maxTo |-> Box("all"),
     clampMin |-> Toggle("all"), clampMax |-> Toggle("all"), mapping |-> Toggle("envelope")]
KsDefaults == [damp |-> 2, rates |-> FALSE, minRate |-> 1, maxRate |-> 1]
KsWidgets ==
    LET rate == Needing(LineBox("rates"), "rates", TRUE, {"rates"})
    IN  [damp |-> Slider("damp"), rates |-> Toggle("rates"), minRate |-> rate, maxRate |-> rate]

(* Delay: the slider of the initial delay ends at the maximum.             *)
DelayDefaults == [maxDelay |-> 1, initDelay |-> 0]
DelayWidgets == [maxDelay |-> Box("delay"), initDelay |-> Slider("delay")]

(* Filters: a button of the type sends no signal, it checks itself.        *)
FilterDefaults == [filter |-> 0, cutoff |-> 2, resonance |-> 0]
FilterWidgets ==
    [filter |-> [Widget("button", "type") EXCEPT !.signal = None],
     cutoff |-> Slider("cutoff"), resonance |-> Slider("resonance")]

(* The others                                                              *)
PhaserDefaults == [stages |-> 1, cutoff |-> 2, bandwidth |-> 1, dryWet |-> 2]
PhaserWidgets == [p \in DOMAIN PhaserDefaults |-> Slider(p)]
BitcrusherDefaults == [cutoff |-> 2, resolution |-> 2, ignoreMin |-> 2]
BitcrusherWidgets == [p \in DOMAIN BitcrusherDefaults |-> Slider(p)]
LooperDefaults == [maxTime |-> 1, stateFade |-> 0, playFade |-> 0]
LooperWidgets == [maxTime |-> Box("maxTime"), stateFade |-> Slider("stateFade"), playFade |-> Slider("playFade")]
StreamDefaults == [initValue |-> 0, oscSpeed |-> 0, oscDepth |-> 0]
StreamWidgets == [p \in DOMAIN StreamDefaults |-> Box("state")]
FreeverbDefaults == [reflectivity |-> 1, damp |-> 1]
FreeverbWidgets == [p \in DOMAIN FreeverbDefaults |-> Slider(p)]
SlopeDefaults == [absolute |-> FALSE, smoothing |-> 0]
SlopeWidgets == [absolute |-> Toggle("absolute"), smoothing |-> Slider("smoothing")]
VolumeDefaults == [volume |-> 1]
VolumeWidgets == [volume |-> Slider("volume")]
PanningDefaults == [panning |-> 1]
PanningWidgets == [panning |-> Slider("panning")]

(* PADsynth: what is heard at once, and what its samples are made of.  The *)
(* harmonics are those of the module Synths.                               *)
PlaybackDefaults == [ramp |-> TRUE, stereo |-> FALSE, start |-> 0, vary |-> TRUE, variation |-> 2, whole |-> FALSE]
PlaybackWidgets ==
    [ramp |-> Toggle("playback"), stereo |-> Toggle("playback"), start |-> Slider("playback"),
     vary |-> Toggle("playback"), variation |-> Needing(Slider("playback"), "vary", TRUE, {"playback"}),
     whole |-> Needing(Toggle("playback"), "vary", TRUE, {"playback"})]
PadsynthDefaults ==
    [length |-> 1, count |-> 0, lowest |-> 1, highest |-> 1, centre |-> 1, bandwidth |-> 0, bandwidthScale |-> 0,
     harmonics |-> 0, phases |-> FALSE, atHarmonic |-> 0, offHarmonic |-> 2, spread |-> 0, spreadScale |-> 0,
     resonance |-> FALSE]
PhaseParams == {"atHarmonic", "offHarmonic", "spread", "spreadScale"}
PadsynthWidgets ==
    [p \in DOMAIN PadsynthDefaults |->
        IF p \in PhaseParams THEN Needing(Slider("config"), "phases", TRUE, {"config"})
        ELSE IF p \in {"phases", "resonance"} THEN Toggle("config") ELSE Slider("config")]
GainCompDefaults == [mapped |-> FALSE, nodes |-> <<<<-Unit, -Unit>>, <<Unit, Unit>>>>]

DefaultsOf(type) ==
    CASE type = "compress" -> CompressDefaults [] type = "envgen" -> EnvgenDefaults
      [] type = "force" -> ForceDefaults [] type = "rangemap" -> RangeMapDefaults [] type = "ks" -> KsDefaults
      [] type = "delay" -> DelayDefaults [] type = "filter" -> FilterDefaults
      [] type = "phaser" -> PhaserDefaults [] type = "bitcrusher" -> BitcrusherDefaults
      [] type = "looper" -> LooperDefaults [] type = "stream" -> StreamDefaults
      [] type = "freeverb" -> FreeverbDefaults [] type = "slope" -> SlopeDefaults
      [] type = "volume" -> VolumeDefaults [] type = "panning" -> PanningDefaults
      [] type = "gaincomp" -> GainCompDefaults [] type = "playback" -> PlaybackDefaults
      [] type = "padsynth" -> PadsynthDefaults
WidgetsOf(type) ==
    CASE type = "compress" -> CompressWidgets [] type = "envgen" -> EnvgenWidgets
      [] type = "force" -> ForceWidgets [] type = "rangemap" -> RangeMapWidgets [] type = "ks" -> KsWidgets
      [] type = "delay" -> DelayWidgets [] type = "filter" -> FilterWidgets [] type = "phaser" -> PhaserWidgets
      [] type = "bitcrusher" -> BitcrusherWidgets [] type = "looper" -> LooperWidgets
      [] type = "stream" -> StreamWidgets [] type = "freeverb" -> FreeverbWidgets
      [] type = "slope" -> SlopeWidgets [] type = "volume" -> VolumeWidgets
      [] type = "panning" -> PanningWidgets [] type = "gaincomp" -> <<>> [] type = "playback" -> PlaybackWidgets
      [] type = "padsynth" -> PadsynthWidgets

-----------------------------------------------------------------------------
(* Values that bound one another, the lower one first.  Setting one of     *)
(* them moves the other out of the way.                                    *)
CompressPairs == {<<"up", "down">>}
RangeMapPairs == {<<"fromMin", "fromMax">>}
KsPairs == {<<"minRate", "maxRate">>}
PadsynthPairs == {<<"lowest", "highest">>}
EnvgenPairs == {<<"yMin", "yMax">>, <<"floorStart", "floorStop">>, <<"ceilStop", "ceilStart">>}
Pairs(type) ==
    CASE type = "compress" -> CompressPairs [] type = "rangemap" -> RangeMapPairs
      [] type = "ks" -> KsPairs [] type = "envgen" -> EnvgenPairs [] type = "padsynth" -> PadsynthPairs
      [] OTHER -> {}
(* Pairs whose order the setters assert.                                   *)
Asserted(type) ==
    IF type = "envgen" THEN {<<"yMin", "yMax">>, <<"floorStart", "floorStop">>, <<"ceilStop", "ceilStart">>} ELSE {}

(* _get_value                                                              *)
Value(s, p) ==
    IF p \in DOMAIN s.conf THEN s.conf[p]
    ELSE IF p \in DOMAIN s.impl THEN s.impl[p] ELSE DefaultsOf(s.type)[p]

Moved(s, p, v, q) ==
    IF <<p, q>> \in Pairs(s.type) THEN Higher(Value(s, q), v)
    ELSE IF <<q, p>> \in Pairs(s.type) THEN Lower(Value(s, q), v) ELSE Value(s, q)

Written(s, values) ==
    [s EXCEPT !.conf = [p \in DOMAIN @ \cup DOMAIN values |-> IF p \in DOMAIN values THEN values[p] ELSE @[p]]]
Set(s, p, v) ==
    LET moved == {q \in DOMAIN DefaultsOf(s.type) \ {p} : Moved(s, p, v, q) # Value(s, q)}
    IN  Written(s, [q \in moved \cup {p} |-> IF q = p THEN v ELSE Moved(s, p, v, q)])
InOrder(s, pairs) == \A pair \in pairs : Value(s, pair[1]) <= Value(s, pair[2])

-----------------------------------------------------------------------------
(* Mappings of the gain compression                                        *)
Symmetric(nodes) == nodes[1][1] = 0
Interpolated(last, first) == last[2] + ((first[2] - last[2]) * (-last[1])) \div (first[1] - last[1])

AboveZero(y) == Higher(0, y)
MadeSymmetric(nodes) ==
    LET right == SelectSeq(nodes, LAMBDA n : n[1] >= 0)
        clamped == [i \in DOMAIN right |-> <<right[i][1], AboveZero(right[i][2])>>]
        last == nodes[Len(nodes) - Len(right)]     \* the last node left of the centre
        first == right[1]
    IN  IF first[1] = 0 THEN clamped ELSE <<<<0, Higher(0, Interpolated(last, first))>>>> \o clamped

Mirrored(right) == Reverse([i \in DOMAIN right |-> <<-right[i][1], -right[i][2]>>])

BesideCentre(right) == Lower(Near, right[1][1] \div 2)
MadeAsymmetric(nodes) ==
    LET right == Tail(nodes)
        x == BesideCentre(right)
        centre == IF nodes[1] = <<0, 0>> THEN <<<<0, 0>>>> ELSE <<<<-x, -nodes[1][2]>>, <<x, nodes[1][2]>>>>
    IN  IF 2 * Len(nodes) <= MaxNodes THEN Mirrored(right) \o centre \o right
        ELSE <<<<-Unit, -Unit>>>> \o right

(* The assertions of set_mapping                                           *)
Accepted(nodes) ==
    /\ Len(nodes) <= MaxNodes
    /\ nodes[Len(nodes)][1] = Unit
    /\ nodes[1][1] \in {-Unit, 0}
    /\ \A i \in DOMAIN nodes : nodes[i][2] \in (IF Symmetric(nodes) THEN 0 ELSE -Unit)..Unit
    /\ \A i \in 1..Len(nodes) - 1 :
        \/ nodes[i][1] < nodes[i + 1][1]
        \/ nodes[i][1] = nodes[i + 1][1] /\ nodes[i][2] < nodes[i + 1][2]

-----------------------------------------------------------------------------
(* Updates                                                                 *)
Parameters == DOMAIN WidgetsOf(store.type)
SwitchedOn(s, widget) == widget.needs = None \/ Value(s, widget.needs.switch) = widget.needs.on

(* What a widget can show of the value of its parameter: the slider of the *)
(* initial delay ends at the maximum, and a type of filter without a       *)
(* button leaves the buttons as they are.                                  *)
Showing(s, p, shown) ==
    CASE p = "initDelay" -> Lower(Value(s, p), Value(s, "maxDelay"))
      [] p = "filter" -> IF Value(s, p) \in {0, 1} THEN Value(s, p) ELSE shown
      [] OTHER -> Value(s, p)

(* The editor of the gain compression: the switch, the mapping of the page *)
(* that is on top, and whether the two can be changed.                     *)
PageOf(s) ==
    [symmetric |-> Symmetric(Value(s, "nodes")), nodes |-> Value(s, "nodes"), on |-> Value(s, "mapped")]

(* is_config_applied, of the processors that have something to apply       *)
Config(s) == IF s.type = "padsynth" THEN [p \in DOMAIN PadsynthDefaults |-> Value(s, p)] ELSE <<>>
Applicable(s) == Config(s) # s.applied

Fresh(s) ==
    LET widgets == WidgetsOf(s.type)
    IN  [shown |-> [p \in DOMAIN widgets |-> Showing(s, p, None)],
         enabled |-> [p \in DOMAIN widgets |-> SwitchedOn(s, widgets[p])],
         page |-> IF s.type = "gaincomp" THEN PageOf(s) ELSE None,
         apply |-> Applicable(s)]

Update ==
    /\ signals # {} /\ failed = "no"
    /\ view' = LET widgets == WidgetsOf(store.type) IN
               [shown |-> [p \in Parameters |-> IF widgets[p].shownOn \cap signals # {}
                                                THEN Showing(store, p, view.shown[p]) ELSE view.shown[p]],
                enabled |-> [p \in Parameters |-> IF widgets[p].checkedOn \cap signals # {}
                                                  THEN SwitchedOn(store, widgets[p]) ELSE view.enabled[p]],
                page |-> IF "mapping" \in signals THEN PageOf(store) ELSE view.page,
                apply |-> IF "config" \in signals THEN Applicable(store) ELSE view.apply]
    /\ signals' = {}
    /\ done' = "update"
    /\ UNCHANGED <<store, session, failed, actions>>

Init ==
    \E type \in Types : \E impl \in Impl[type] :
        /\ store = [type |-> type, impl |-> impl, conf |-> <<>>,
                     applied |-> IF type = "padsynth" THEN PadsynthDefaults ELSE <<>>]
        /\ session = [set |-> {}, tasks |-> 0, puts |-> 0]
        /\ view = Fresh(store)
        /\ signals = {} /\ done = "none" /\ failed = "no" /\ actions = 0

-----------------------------------------------------------------------------
(* Inputs                                                                  *)
CanAct == failed = "no" /\ actions < MaxActions
Acts(name, updates) ==
    /\ actions' = actions + 1
    /\ signals' = signals \cup updates
    /\ done' = name

ValuesOf(p) ==
    CASE WidgetsOf(store.type)[p].kind = "switch" -> BOOLEAN
      [] p = "filter" -> {0, 1}
      [] p = "initDelay" -> 0..Value(store, "maxDelay")
      [] OTHER -> Levels

(* A widget is changed.  Return in a line box sets the value it shows; a   *)
(* slider, a switch and a button act when they change.                     *)
Change ==
    /\ CanAct
    /\ \E p \in Parameters : \E v \in ValuesOf(p) :
        LET widget == WidgetsOf(store.type)[p] IN
        /\ view.enabled[p]
        /\ widget.kind = "line" \/ v # view.shown[p]
        /\ p = "initDelay" => "delay" \notin signals     \* the end of the slider is up to date
        /\ store' = Set(store, p, v)
        /\ session' = [session EXCEPT !.set = @ \cup {p}]
        /\ view' = [view EXCEPT !.shown[p] = v]
        /\ failed' = IF InOrder(store', {pair \in Asserted(store.type) : p \in {pair[1], pair[2]}})
                     THEN "no" ELSE "assertion"
        /\ Acts("change", IF widget.signal = None THEN {} ELSE {widget.signal})

(* AudioUnitSimpleEnvelope                                                 *)
SwitchMapping ==
    /\ CanAct /\ store.type = "gaincomp"
    /\ store' = Written(store, [mapped |-> ~view.page.on])
    /\ view' = [view EXCEPT !.page.on = ~@]
    /\ Acts("switch", {"mapping"}) /\ UNCHANGED <<session, failed>>

ChangeSymmetry ==
    /\ CanAct /\ store.type = "gaincomp"
    /\ view.page.on
    /\ LET nodes == Value(store, "nodes")
           wanted == ~view.page.symmetric
           made == IF wanted = Symmetric(nodes) THEN nodes
                   ELSE IF wanted THEN MadeSymmetric(nodes) ELSE MadeAsymmetric(nodes)
       IN  /\ store' = IF wanted # Symmetric(nodes) /\ Accepted(made) THEN Written(store, [nodes |-> made]) ELSE store
           /\ failed' = IF Accepted(made) THEN "no" ELSE "assertion"
           /\ view' = [view EXCEPT !.page.symmetric = wanted]
    /\ Acts("symmetry", {"mapping"}) /\ UNCHANGED session

(* A mapping drawn in the page on top, which may be out of date.           *)
Drawn(s, nodes) ==
    IF Symmetric(Value(s, "nodes")) = Symmetric(nodes)
    THEN Written(s, [nodes |-> nodes, mapped |-> TRUE]) ELSE Written(s, [mapped |-> TRUE])

DrawMapping ==
    /\ CanAct /\ store.type = "gaincomp"
    /\ view.page.on
    /\ \E nodes \in Mappings :
        /\ Symmetric(nodes) = Symmetric(view.page.nodes)
        /\ nodes # view.page.nodes
        /\ store' = Drawn(store, nodes)
        /\ view' = [view EXCEPT !.page.nodes = nodes]
    /\ Acts("draw", {"mapping"}) /\ UNCHANGED <<session, failed>>

(* get_task_apply_config: the parameters are those at the time the task    *)
(* has its turn, and the button is looked at again when they are in use.   *)
ApplyConfig ==
    /\ CanAct /\ view.apply
    /\ session' = [session EXCEPT !.tasks = @ + 1]
    /\ Acts("apply", {}) /\ UNCHANGED <<store, view, failed>>

PutConfig ==
    /\ session.tasks > 0 /\ failed = "no"
    /\ store' = [store EXCEPT !.applied = Config(store)]
    /\ session' = [session EXCEPT !.tasks = @ - 1, !.puts = @ + 1]
    /\ done' = "put"
    /\ UNCHANGED <<view, signals, failed, actions>>

AppliedSignals == {"config"}
ConfirmConfig ==
    /\ session.puts > 0 /\ failed = "no"
    /\ session' = [session EXCEPT !.puts = @ - 1]
    /\ signals' = signals \cup AppliedSignals
    /\ done' = "confirmed"
    /\ UNCHANGED <<store, view, failed, actions>>

Next == Update \/ Change \/ SwitchMapping \/ ChangeSymmetry \/ DrawMapping
    \/ ApplyConfig \/ PutConfig \/ ConfirmConfig
Spec == Init /\ [][Next]_vars

-----------------------------------------------------------------------------
(* Properties                                                              *)

ParamsTypeOK ==
    /\ DOMAIN store.conf \subseteq DOMAIN DefaultsOf(store.type)
    /\ \A p \in Parameters :
        Value(store, p) \in (IF WidgetsOf(store.type)[p].kind = "switch" THEN BOOLEAN ELSE Levels)
    /\ session.set \subseteq Parameters /\ session.tasks + session.puts <= MaxActions
    /\ failed \in {"no", "assertion"}

(* Whatever a processor was made with, two values that bound one another   *)
(* are in order once one of them has been set (_value_changed of the       *)
(* thresholds, _set_from_min, set_audio_rate_range_min, _change_start).    *)
SetPairsAreOrdered ==
    \A pair \in Pairs(store.type) :
        {pair[1], pair[2]} \cap session.set # {} => Value(store, pair[1]) <= Value(store, pair[2])

(* Once the signals have been followed every widget shows its parameter    *)
(* and is enabled just when what it sets is in use.                        *)
EditorShowsParams ==
    signals = {} /\ failed = "no" =>
        /\ \A p \in Parameters :
            /\ view.shown[p] = Showing(store, p, view.shown[p])
            /\ view.enabled[p] = SwitchedOn(store, WidgetsOf(store.type)[p])
        /\ store.type = "gaincomp" => view.page = PageOf(store)

(* When nothing is being applied, the button that applies parameters can   *)
(* be pressed just when the samples were made of others (ApplyButton).     *)
ApplyButtonFollows ==
    signals = {} /\ session.tasks + session.puts = 0 /\ failed = "no" => view.apply = Applicable(store)

(* The assertions of the setters hold (set_y_range, set_mapping, ...).     *)
ParamHandlersSucceed == failed = "no"

(* The mapping that is kept is a function on the whole range.              *)
MappingIsSound ==
    store.type = "gaincomp" =>
        LET nodes == Value(store, "nodes") IN
        /\ Accepted(nodes)
        /\ \A i \in 1..Len(nodes) - 1 : nodes[i][1] < nodes[i + 1][1]

(* Making a mapping symmetric, or not, keeps its nodes right of the        *)
(* centre, but for what is below zero (set_mapping_symmetric).             *)
KeepsRightHalf ==
    LET Right(nodes) == {<<n[1], Higher(0, n[2])>> : n \in {m \in ToSet(nodes) : m[1] > Near}}
    IN  Right(Value(store', "nodes")) = Right(Value(store, "nodes"))
RightHalfIsKept == [][(done' = "symmetry" /\ actions' # actions) => KeepsRightHalf]_vars
=============================================================================
