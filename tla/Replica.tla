------------------------------ MODULE Replica ------------------------------
(***************************************************************************)
(* What the store of the tracker promises together with the audio process: *)
(* transactions form a log; the leader (the audio process) validates them  *)
(* in order, the follower (the store) adopts validated ones in order, and  *)
(* a file is only saved of a follower that has caught up with the log.     *)
(***************************************************************************)
EXTENDS Naturals, Sequences

CONSTANTS Keys, Values, None

VARIABLES log,      \* the transactions, in the order they were put
          leader,   \* how many of them are validated
          follower, \* how many of them are adopted
          content,  \* what the follower holds
          saved     \* the contents that were saved last, or None

vars == <<log, leader, follower, content, saved>>

Transactions == UNION {[S -> Values \union {None}] : S \in SUBSET Keys}
With(f, t) == [k \in DOMAIN f |-> IF k \in DOMAIN t THEN t[k] ELSE f[k]]

Init ==
    /\ log \in {<<>>} \union {<<t>> : t \in Transactions}
    /\ leader = 0 /\ follower = 0
    /\ content = [k \in Keys |-> None]
    /\ saved = None

Put ==
    /\ \E t \in Transactions : log' = Append(log, t)
    /\ UNCHANGED <<leader, follower, content, saved>>

Validate ==
    /\ leader < Len(log)
    /\ leader' = leader + 1
    /\ UNCHANGED <<log, follower, content, saved>>

(* The follower may put as it adopts (a setting that goes with a module).  *)
Adopt ==
    /\ follower < leader
    /\ follower' = follower + 1
    /\ content' = With(content, log[follower + 1])
    /\ log' = log \/ \E t \in Transactions : log' = Append(log, t)
    /\ UNCHANGED <<leader, saved>>

Save ==
    /\ follower = Len(log)
    /\ saved' = content
    /\ UNCHANGED <<log, leader, follower, content>>

Next == Put \/ Validate \/ Adopt \/ Save

Spec == Init /\ [][Next]_vars
=============================================================================
