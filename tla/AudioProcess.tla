---------------------------- MODULE AudioProcess ----------------------------
(***************************************************************************)
(* The audio process of the tracker and the queues that join it to the     *)
(* user interface process (tracker/processes/audioprocess.py,              *)
(* tracker/processes/uiprocess.py, tracker/audio/audioengine.py).          *)
(*                                                                         *)
(* audioQ is the queue of commands for the audio process.  Replies are     *)
(* collected in inPending and submitted as one list to inQ; the user       *)
(* interface process moves lists from inQ to its own queue outQ before it  *)
(* runs them.  A get from a multiprocessing queue may report an empty      *)
(* queue although something was put into it, as items travel through a     *)
(* pipe; so a process may stop taking items at any point.                  *)
(*                                                                         *)
(* Rendering itself is left out here: it only sends notifications that the *)
(* store does not read.                                                    *)
(***************************************************************************)
EXTENDS Store

CONSTANTS ModuleData,   \* what the module file given on the command line holds
          AudioFails    \* whether the audio process may raise an exception

ASSUME KeysAssumption == Keys \subseteq Nat
ASSUME ModuleDataAssumption == ModuleData \in Transactions /\ AudioFails \in BOOLEAN

VARIABLES audioQ, inPending, inQ, engine

audioVars == <<audioQ, inPending, inQ, engine>>

Idle == [op |-> "idle"]

(* Commands for the audio process; data is None in a flush token.          *)
SetDataCommand(id, data) == [op |-> "set_data", id |-> id, data |-> data]
LoadCommand == [op |-> "load_module"]
HaltCommand == [op |-> "halt"]

Reply(op) == [op |-> op]
ReplyId(op, id) == [op |-> op, id |-> id]
Entry(k) == [op |-> "entry", key |-> k, value |-> ModuleData[k]]

(* q: the commands given while the user interface was being set up.        *)
(* engine.validated counts, for the specification only, the transactions   *)
(* and modules that passed a validation.                                   *)
AudioInit(q) ==
    /\ audioQ = q
    /\ inPending = <<>>
    /\ inQ = <<>>
    /\ engine = [data |-> [k \in Keys |-> None], ready |-> TRUE, doing |-> Idle,
                 running |-> TRUE, alive |-> TRUE, validated |-> 0]

(* CommandQueue.submit in the audio process.  The state of the queue is an *)
(* attribute of each process, so here it stays normal for ever.            *)
Submit(replies) ==
    /\ inQ' = IF replies = <<>> THEN inQ ELSE Append(inQ, replies)
    /\ inPending' = <<>>

Busy == engine.doing # Idle
FirstKey(S) == CHOOSE k \in S : \A j \in S : k <= j

(* One turn of the loop of _run_audio_engine: a command is taken.          *)
TakeCommand ==
    /\ engine.alive /\ ~Busy /\ audioQ # <<>>
    /\ audioQ' = Tail(audioQ)

TakeHalt ==
    /\ TakeCommand
    /\ Head(audioQ) = HaltCommand
    /\ engine' = [engine EXCEPT !.running = FALSE]
    /\ UNCHANGED <<inPending, inQ>>

(* set_data with a flush token: the confirmation waits for the next submit. *)
TakeToken ==
    /\ TakeCommand
    /\ Head(audioQ).op = "set_data" /\ Head(audioQ).data = None
    /\ inPending' = Append(inPending, ReplyId("confirm_valid_data", Head(audioQ).id))
    /\ UNCHANGED <<inQ, engine>>

(* Wrong: data is confirmed before it is validated.                        *)
TakeSetDataConfirmed ==
    /\ TakeCommand
    /\ Head(audioQ).op = "set_data" /\ Head(audioQ).data # None
    /\ engine' = [engine EXCEPT !.doing =
                    [op |-> "set_data", id |-> Head(audioQ).id, data |-> Head(audioQ).data,
                     todo |-> DOMAIN Head(audioQ).data]]
    /\ inPending' = Append(inPending, ReplyId("confirm_valid_data", Head(audioQ).id))
    /\ UNCHANGED inQ

TakeSetData ==
    /\ TakeCommand
    /\ Head(audioQ).op = "set_data" /\ Head(audioQ).data # None
    /\ engine' = [engine EXCEPT !.doing =
                    [op |-> "set_data", id |-> Head(audioQ).id, data |-> Head(audioQ).data,
                     todo |-> DOMAIN Head(audioQ).data]]
    /\ UNCHANGED <<inPending, inQ>>

(* One round of the loop of set_data: keys in order, a progress report for *)
(* each.                                                                   *)
SetDataKey ==
    /\ engine.alive /\ engine.doing.op = "set_data" /\ engine.doing.todo # {}
    /\ LET k == FirstKey(engine.doing.todo)
       IN engine' = [engine EXCEPT !.data[k] = engine.doing.data[k],
                                   !.doing.todo = @ \ {k}]
    /\ Submit(Append(inPending, ReplyId("progress", engine.doing.id)))
    /\ UNCHANGED audioQ

(* Wrong: only the progress is reported.                                   *)
SetDataUnconfirmed ==
    /\ engine.alive /\ engine.doing.op = "set_data" /\ engine.doing.todo = {}
    /\ engine' = [engine EXCEPT !.doing = Idle, !.validated = @ + 1]
    /\ Submit(Append(inPending, ReplyId("progress_done", engine.doing.id)))
    /\ UNCHANGED audioQ

(* The end of set_data: the handle validates, the transaction is confirmed *)
(* and its progress is complete.                                           *)
SetDataDone ==
    /\ engine.alive /\ engine.doing.op = "set_data" /\ engine.doing.todo = {}
    /\ engine' = [engine EXCEPT !.doing = Idle, !.validated = @ + 1]
    /\ Submit(inPending \o <<ReplyId("confirm_valid_data", engine.doing.id),
                             ReplyId("progress_done", engine.doing.id)>>)
    /\ UNCHANGED audioQ

TakeLoad ==
    /\ TakeCommand
    /\ Head(audioQ) = LoadCommand
    /\ engine' = [engine EXCEPT !.ready = FALSE,
                                !.doing = [op |-> "load", todo |-> DOMAIN ModuleData]]
    /\ UNCHANGED <<inPending, inQ>>

(* load_steps: each step sets a key of the file in the handle.             *)
LoadStep ==
    /\ engine.alive /\ engine.doing.op = "load" /\ engine.doing.todo # {}
    /\ LET k == FirstKey(engine.doing.todo)
       IN engine' = [engine EXCEPT !.data[k] = ModuleData[k], !.doing.todo = @ \ {k}]
    /\ Submit(Append(inPending, Reply("import_progress")))
    /\ UNCHANGED audioQ

(* The file cannot be read, or the handle does not validate: the handle    *)
(* stays not ready.                                                        *)
LoadError ==
    /\ engine.alive /\ engine.doing.op = "load"
    /\ engine' = [engine EXCEPT !.doing = Idle]
    /\ Submit(Append(inPending, Reply("import_error")))
    /\ UNCHANGED audioQ

(* The file was read and validated.  The entries follow one by one.        *)
LoadValidated ==
    /\ engine.alive /\ engine.doing.op = "load" /\ engine.doing.todo = {}
    /\ engine' = [engine EXCEPT !.doing = [op |-> "entries", todo |-> DOMAIN ModuleData],
                                !.validated = @ + 1]
    /\ UNCHANGED <<audioQ, inPending, inQ>>

SendEntry ==
    /\ engine.alive /\ engine.doing.op = "entries" /\ engine.doing.todo # {}
    /\ LET k == FirstKey(engine.doing.todo)
       IN /\ Submit(inPending \o <<Entry(k), Reply("import_progress")>>)
          /\ engine' = [engine EXCEPT !.doing.todo = @ \ {k}]
    /\ UNCHANGED audioQ

LoadFinished ==
    /\ engine.alive /\ engine.doing.op = "entries" /\ engine.doing.todo = {}
    /\ engine' = [engine EXCEPT !.doing = Idle, !.ready = TRUE]
    /\ Submit(Append(inPending, Reply("import_finished")))
    /\ UNCHANGED audioQ

(* Wrong: the replies wait for the next command that submits.              *)
ProduceSilence ==
    /\ engine.alive /\ engine.running /\ ~Busy
    /\ UNCHANGED audioVars

(* The queue looks empty: sound is produced and the replies are submitted. *)
ProduceSound ==
    /\ engine.alive /\ engine.running /\ ~Busy
    /\ inPending # <<>>
    /\ Submit(inPending)
    /\ UNCHANGED <<audioQ, engine>>

(* The queue looks empty after the halting command: the process ends.      *)
EndAudio ==
    /\ engine.alive /\ ~engine.running /\ ~Busy
    /\ engine' = [engine EXCEPT !.alive = FALSE]
    /\ UNCHANGED <<audioQ, inPending, inQ>>

(* Wrong: the notification of an exception is not submitted.               *)
AudioExceptionUnsent ==
    /\ AudioFails
    /\ engine.alive
    /\ engine' = [engine EXCEPT !.alive = FALSE, !.doing = Idle]
    /\ inPending' = Append(inPending, Reply("exception"))
    /\ UNCHANGED <<audioQ, inQ>>

(* An exception, a failed assertion of the library or a fault in it: the   *)
(* user interface is notified and the process ends.                        *)
AudioException ==
    /\ AudioFails
    /\ engine.alive
    /\ engine' = [engine EXCEPT !.alive = FALSE, !.doing = Idle]
    /\ Submit(Append(inPending, Reply("exception")))
    /\ UNCHANGED audioQ

AudioWork ==
    \/ TakeHalt \/ TakeToken \/ TakeSetData \/ TakeLoad
    \/ SetDataKey \/ SetDataDone
    \/ LoadStep \/ LoadValidated \/ SendEntry \/ LoadFinished
    \/ ProduceSound

AudioNext == AudioWork \/ LoadError \/ EndAudio \/ AudioException

(* What the engine will hold when it has done what it is doing and what    *)
(* still waits in its queue: the data as the audio process is to see it.   *)
WaitingFor(k) ==
    {i \in DOMAIN audioQ :
        /\ audioQ[i].op = "set_data" /\ audioQ[i].data # None
        /\ k \in DOMAIN audioQ[i].data}

Upcoming ==
    [k \in Keys |->
        IF WaitingFor(k) # {}
        THEN audioQ[CHOOSE i \in WaitingFor(k) : \A j \in WaitingFor(k) : j <= i].data[k]
        ELSE IF engine.doing.op = "set_data" /\ k \in engine.doing.todo
        THEN engine.doing.data[k]
        ELSE engine.data[k]]

Commands ==
    [op : {"set_data"}, id : Nat, data : Transactions \union {None}]
    \union [op : {"load_module", "halt"}]
Replies ==
    [op : {"confirm_valid_data", "progress", "progress_done"}, id : Nat]
    \union [op : {"entry"}, key : Keys, value : Values \union {None}]
    \union [op : {"import_progress", "import_error", "import_finished", "exception", "halt"}]
Doings ==
    [op : {"idle"}]
    \union {d \in [op : {"set_data"}, id : Nat, data : Transactions, todo : SUBSET Keys] :
                d.todo \subseteq DOMAIN d.data}
    \union [op : {"load", "entries"}, todo : SUBSET DOMAIN ModuleData]

AudioTypeOK ==
    /\ engine \in [data : Contents, ready : BOOLEAN, doing : Doings, running : BOOLEAN,
                   alive : BOOLEAN, validated : Nat]
    /\ audioQ \in Seq(Commands)
    /\ inPending \in Seq(Replies)
    /\ inQ \in Seq(Seq(Replies) \ {<<>>})
=============================================================================
