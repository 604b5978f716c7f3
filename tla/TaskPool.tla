------------------------------ MODULE TaskPool ------------------------------
(***************************************************************************)
(* What the background loader promises: a task it accepts is processed and *)
(* retired once, and the pool is only declared idle when that has happened *)
(* to every task it accepted.                                              *)
(***************************************************************************)
EXTENDS Naturals, FiniteSets

CONSTANTS
    Tasks,
    Capacity    \* how many accepted tasks may be outstanding

VARIABLES
    pending,    \* accepted and not processed
    processed,  \* processed, their results not taken back by the client
    retired,    \* done with
    mode        \* "open", "draining" for a client, or "closed"

vars == <<pending, processed, retired, mode>>

Init ==
    /\ pending = {}
    /\ processed = {}
    /\ retired = {}
    /\ mode = "open"

IsNew(t) == t \in Tasks \ (pending \cup processed \cup retired)

Accept(t) ==
    /\ mode = "open"
    /\ IsNew(t)
    /\ Cardinality(pending) + Cardinality(processed) < Capacity
    /\ pending' = pending \cup {t}
    /\ UNCHANGED <<processed, retired, mode>>

\* The client runs a task the pool did not take.
RunDirectly(t) ==
    /\ mode = "open"
    /\ IsNew(t)
    /\ retired' = retired \cup {t}
    /\ UNCHANGED <<pending, processed, mode>>

Process(t) ==
    /\ t \in pending
    /\ pending' = pending \ {t}
    /\ processed' = processed \cup {t}
    /\ UNCHANGED <<retired, mode>>

Retire(t) ==
    /\ t \in processed
    /\ processed' = processed \ {t}
    /\ retired' = retired \cup {t}
    /\ UNCHANGED <<pending, mode>>

BeginDrain ==
    /\ mode = "open"
    /\ mode' = "draining"
    /\ UNCHANGED <<pending, processed, retired>>

EndDrain ==
    /\ mode = "draining"
    /\ pending = {}
    /\ processed = {}
    /\ mode' \in {"open", "closed"}
    /\ UNCHANGED <<pending, processed, retired>>

DrainStep ==
    /\ mode = "draining"
    /\ EndDrain \/ \E t \in Tasks : Process(t) \/ Retire(t)

Next ==
    \/ \E t \in Tasks : Accept(t) \/ RunDirectly(t) \/ Process(t) \/ Retire(t)
    \/ BeginDrain
    \/ EndDrain

\* What may happen, and that a client that drains the pool does not wait for ever.
PoolSafety == Init /\ [][Next]_vars
Spec == PoolSafety /\ WF_vars(DrainStep)

=============================================================================
