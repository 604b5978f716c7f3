---------------------------- MODULE DeviceGraph ----------------------------
(***************************************************************************)
(* What the connections of a composition make of its devices, for one      *)
(* audio unit and its processors: whether the connections are legal, and   *)
(* which device states the two signal plans of the player refer to         *)
(* (src/src/lib/init/Device_node.c, player/Mixed_signal_plan.c,            *)
(* player/Voice_signal_plan.c).  A processor that is connected is          *)
(* connected to the output of its audio unit.                              *)
(***************************************************************************)
EXTENDS Integers

CONSTANTS
    Procs,      \* the processors of the audio unit
    MaxDevices  \* bound on the processors and device states ever created

ASSUME MaxDevicesAssumption == MaxDevices \in Nat

\* A pointer to a set of things, or a null pointer.
Null == [given |-> FALSE, set |-> {}]
Ref(S) == [given |-> TRUE, set |-> S]
Refs(Sets) == {r \in [given : BOOLEAN, set : Sets] : r.given \/ r.set = {}}

\* Until a processor gets a signal type it has neither kind of signals.
Signals == {"unset", "voice", "mixed"}

Numbers == 0 .. MaxDevices

\* The device id of a processor and the number of its device state, 0 when
\* there is none.  No two ever created are the same.
Processors == [exists : BOOLEAN, id : Numbers, state : Numbers, signals : Signals]

NoProcessor == [exists |-> FALSE, id |-> 0, state |-> 0, signals |-> "unset"]

AuTypes == {"none", "instrument", "effect"}

AudioUnits == [exists : BOOLEAN, type : AuTypes, conns : Refs(SUBSET Procs)]

\* What a plan refers to: processors, by their ids or by their states.
Plans == SUBSET (Procs \X Numbers)

Connected(au) == au.conns.set

\* Connections_check_connections for the whole composition and for an audio
\* unit that exists.
ConnectionsOK(top, au, procs) ==
    /\ top => au.exists
    /\ au.exists => \A p \in Connected(au) : procs[p].exists

\* The processors whose buffers the mixed signal plan connects; it keeps the
\* buffers of their states.  It also drops tasks nothing feeds, which refer to
\* no other device.
MixedPlan(top, au, procs) ==
    IF top /\ au.exists
    THEN {<<p, procs[p].state>> : p \in {q \in Connected(au) : procs[q].exists}}
    ELSE {}

\* The processors an instrument renders voice by voice; the plan finds their
\* states by their ids.
VoicePlan(au, procs) ==
    {<<p, procs[p].id>> :
        p \in {q \in Connected(au) : procs[q].exists /\ procs[q].signals # "mixed"}}

\* Everything a plan refers to is still there.
MixedPlanIntact(plan, procs) ==
    \A task \in plan : procs[task[1]].state = task[2] /\ task[2] # 0

VoicePlanIntact(plan, procs) ==
    \A task \in plan : procs[task[1]].id = task[2] /\ procs[task[1]].state # 0

=============================================================================
