------------------------- MODULE MCTrackerProcesses -------------------------
(* Instances of TrackerProcesses.  In the first one, key 1 is the version  *)
(* stamp, key 2 the grid setting, key 3 belongs to the audio unit; the     *)
(* second one, for liveness, makes do with one key.                        *)
EXTENDS TrackerProcesses

MCData == [k \in {1, 2, 3} |-> "a"]
MCSandbox == [k \in {1, 3} |-> "a"]
MCEdits == {[k \in {3} |-> "b"], [k \in {3} |-> None], [k \in {2} |-> "b"],
            [k \in {2} |-> None]}
MCImports == {[k \in {2, 3} |-> "b"]}

OneKey == [k \in {1} |-> "a"]
OneEdit == {OneKey}
=============================================================================
