-------------------------- MODULE BackgroundLoader --------------------------
(***************************************************************************)
(* The background loader (src/src/lib/init/Background_loader.c) and the    *)
(* thread that drives it through a Kunquat Handle.                         *)
(*                                                                         *)
(* One client thread parses data, hands tasks to the loader, runs a task   *)
(* itself when the loader does not take it, and waits for the workers in   *)
(* kqt_Handle_validate and kqt_del_Handle.  Worker threads fetch tasks,    *)
(* process them and put them in the cleanup queue for the client.  A step  *)
(* is what the code does between two points where another thread can       *)
(* interfere: a queue operation, a critical section of the signal's mutex, *)
(* the start or the join of one thread.                                    *)
(***************************************************************************)
EXTENDS Integers, FiniteSets

CONSTANTS
    Tasks,       \* the tasks a client may hand to the loader
    NoTask,      \* the task field of an item that carries none
    QueueSize,   \* QUEUE_SIZE, the number of slots of a ring
    MaxThreads,  \* KQT_THREADS_MAX, the size of loader->workers
    MaxDelayed,  \* bound on the delayed tasks waiting at once
    Failures     \* what may fail, a subset of FailureKinds

(***************************************************************************)
(* "thread_start": Thread_init reports an error.                           *)
(* "delayed_add":  Background_loader_add_delayed_task is out of memory.    *)
(* "set_data":     kqt_Handle_set_data fails after it has added a task, so *)
(*                 the Handle keeps its data_is_validated flag.            *)
(***************************************************************************)
FailureKinds == {"thread_start", "delayed_add", "set_data"}

ASSUME NoTaskAssumption == NoTask \notin Tasks
ASSUME QueueSizeAssumption == QueueSize \in Nat /\ QueueSize > 2
ASSUME MaxThreadsAssumption == MaxThreads \in Nat \ {0}
ASSUME MaxDelayedAssumption == MaxDelayed \in Nat
ASSUME FailuresAssumption == Failures \subseteq FailureKinds

(***************************************************************************)
(* The ring of Task_info items behind both queues of the loader            *)
(* (Task_queue).  Every operation of the code runs under the queue's own   *)
(* mutex, so each is one function of the ring, the record                  *)
(* [add, fetch, slots].                                                    *)
(***************************************************************************)
Indices == 0 .. QueueSize - 1

\* Task_info_state without the prefix TASK_INFO_.
InfoStates == {"EMPTY", "READY_TO_START", "IN_PROGRESS", "END_QUEUE"}

Infos == [task : Tasks \cup {NoTask}, state : InfoStates, error : BOOLEAN]

Queues == [add : Indices, fetch : Indices, slots : [Indices -> Infos]]

\* Task_info_init: what an unused slot holds.
EmptyInfo == [task |-> NoTask, state |-> "EMPTY", error |-> FALSE]

\* The marker Background_loader_wait_idle appends for the workers.
EndInfo == [task |-> NoTask, state |-> "END_QUEUE", error |-> FALSE]

ReadyInfo(t) == [task |-> t, state |-> "READY_TO_START", error |-> FALSE]

EmptyQueue == [add |-> 0, fetch |-> 0, slots |-> [i \in Indices |-> EmptyInfo]]

Advance(i, k) == (i + k) % QueueSize

IsEmpty(q) == q.fetch = q.add

\* One slot always stays free, and only the end marker may use the slot
\* before it.
IsFull(q, info) ==
    \/ Advance(q.add, 1) = q.fetch
    \/ info.state # "END_QUEUE" /\ Advance(q.add, 2) = q.fetch

\* Wrong: the ring does not move on.
AddInPlace(q, info) == [q EXCEPT !.slots[q.add] = info]

\* Task_queue_add after the check for a full ring.
Add(q, info) ==
    [q EXCEPT !.add = Advance(q.add, 1), !.slots[q.add] = info]

\* Wrong: the item stays in the ring.
UndoAddNothing(q) == q

\* Task_queue_undo_add: takes back what was added last.
UndoAdd(q) ==
    LET last == Advance(q.add, QueueSize - 1)
    IN  [q EXCEPT !.add = last, !.slots[last] = EmptyInfo]

Front(q) == q.slots[q.fetch]

\* Wrong: the first worker takes the end marker away from the others.
FetchMarker(q) ==
    [q EXCEPT !.fetch = Advance(q.fetch, 1), !.slots[q.fetch] = EmptyInfo]

\* Task_queue_fetch on a ring that is not empty.  The end marker stays where
\* it is, so that every worker meets it.
Fetch(q) ==
    IF Front(q).state = "END_QUEUE"
    THEN q
    ELSE [q EXCEPT !.fetch = Advance(q.fetch, 1), !.slots[q.fetch] = EmptyInfo]

\* The slots that hold a task, and the tasks themselves.
TaskSlots(q) == {i \in Indices : q.slots[i].task # NoTask}
TasksOf(q) == {q.slots[i].task : i \in TaskSlots(q)}

\* The indices from fetch up to add, around the end of the slots.
InRing(q, i) ==
    IF q.fetch <= q.add THEN q.fetch <= i /\ i < q.add
    ELSE q.fetch <= i \/ i < q.add

\* The slots in the ring are the ones in use, and a slot holds a task unless
\* it is empty or holds the end marker.
RingOK(q) ==
    /\ q \in Queues
    /\ \A i \in Indices :
          /\ q.slots[i].state # "EMPTY" <=> InRing(q, i)
          /\ q.slots[i].task # NoTask <=> q.slots[i].state \in {"READY_TO_START", "IN_PROGRESS"}

(***************************************************************************)
(* The loader, its workers and its client.                                 *)
(***************************************************************************)
Workers == 0 .. MaxThreads - 1

VARIABLES
    workQueue,         \* loader->work_queue
    cleanupQueue,      \* loader->cleanup_queue
    threadCount,       \* loader->thread_count
    activeTaskCount,   \* loader->active_task_count
    firstError,        \* the task whose error is loader->first_error
    loaderState,       \* loader->state
    finalCleanups,     \* the size of loader->final_cleanups
    workerPc,          \* where each worker thread is
    workerInfo,        \* worker->task_info
    pc,                \* where the client thread is
    caller,            \* who called Background_loader_wait_idle
    adding,            \* the task of the current add_task call
    nextWorker,        \* the index i of the loops over loader->workers
    anyRunning,        \* any_workers_running
    isValidated,       \* handle->data_is_validated
    runs,              \* history: how often each task's process ran
    cleaned,           \* history: how often each task's cleanup ran
    failed             \* history: the tasks whose process failed in a worker

loaderVars == <<workQueue, cleanupQueue, activeTaskCount, firstError,
                loaderState, finalCleanups>>
workerVars == <<workerPc, workerInfo>>
clientVars == <<pc, caller, adding, nextWorker, anyRunning>>
handleVars == <<threadCount, isValidated>>
history == <<runs, cleaned, failed>>
vars == <<loaderVars, workerVars, clientVars, handleVars, history>>

WorkerPcs == {"off", "fetch", "check", "waiting", "busy", "exited"}

ClientPcs == {"idle", "addCleanups", "startWorkers", "addEnd", "signalWait",
              "join", "waitCleanups", "finalCleanups", "invalid", "deleted",
              "aborted"}

Callers == {"none", "set_impl", "validate", "del"}

TypeOK ==
    /\ workQueue \in Queues
    /\ cleanupQueue \in Queues
    /\ threadCount \in Workers
    /\ activeTaskCount \in Int
    /\ firstError \in Tasks \cup {NoTask}
    /\ loaderState \in {"INIT", "IN_PROGRESS", "WAITING"}
    /\ finalCleanups \in 0 .. MaxDelayed
    /\ workerPc \in [Workers -> WorkerPcs]
    /\ workerInfo \in [Workers -> Infos]
    /\ pc \in ClientPcs
    /\ caller \in Callers
    /\ adding \in Tasks \cup {NoTask}
    /\ nextWorker \in 0 .. MaxThreads
    /\ anyRunning \in BOOLEAN
    /\ isValidated \in BOOLEAN
    /\ runs \in [Tasks -> Nat]
    /\ cleaned \in [Tasks -> Nat]
    /\ failed \subseteq Tasks \cup {NoTask}

Init ==
    /\ workQueue = EmptyQueue
    /\ cleanupQueue = EmptyQueue
    /\ threadCount = 0
    /\ activeTaskCount = 0
    /\ firstError = NoTask
    /\ loaderState = "INIT"
    /\ finalCleanups = 0
    /\ workerPc = [w \in Workers |-> "off"]
    /\ workerInfo = [w \in Workers |-> EmptyInfo]
    /\ pc = "idle"
    /\ caller = "none"
    /\ adding = NoTask
    /\ nextWorker = 0
    /\ anyRunning = FALSE
    /\ isValidated = TRUE
    /\ runs = [t \in Tasks |-> 0]
    /\ cleaned = [t \in Tasks |-> 0]
    /\ failed = {}

\* Task_worker_is_running: the thread was started and not joined yet.
IsRunning(w) == workerPc[w] # "off"

\* Wrong: nobody is woken.
WakeNone == workerPc

\* pthread_cond_broadcast on loader->signal.
WakeAll == [w \in Workers |-> IF workerPc[w] = "waiting" THEN "fetch" ELSE workerPc[w]]

(***************************************************************************)
(* The client: Background_loader_add_task and the fallback of its callers. *)
(***************************************************************************)

\* The caller of an add_task that returned FALSE runs the task on the spot
\* and reports its error itself.
RunDirectly(t) ==
    /\ runs' = [runs EXCEPT ![t] = @ + 1]
    /\ cleaned' = [cleaned EXCEPT ![t] = @ + 1]
    /\ pc' = "idle"
    /\ adding' = NoTask
    /\ UNCHANGED failed

\* A task is one call of add_task, so each is offered once.
IsFresh(t) ==
    /\ runs[t] = 0
    /\ t \notin TasksOf(workQueue)
    /\ \A w \in Workers : workerPc[w] = "busy" => workerInfo[w].task # t

\* A successful kqt_Handle_set_data makes the Handle not validated.
SetData == isValidated' \in IF "set_data" \in Failures THEN {FALSE, isValidated} ELSE {FALSE}

AddTaskNoThreads(t) ==
    /\ pc = "idle"
    /\ IsFresh(t)
    /\ threadCount = 0
    /\ RunDirectly(t)
    /\ SetData
    /\ UNCHANGED <<loaderVars, workerVars, caller, nextWorker, anyRunning, threadCount>>

AddTask(t) ==
    /\ pc = "idle"
    /\ IsFresh(t)
    /\ threadCount > 0
    /\ pc' = "addCleanups"
    /\ adding' = t
    /\ SetData
    /\ UNCHANGED <<loaderVars, workerVars, caller, nextWorker, anyRunning,
                   threadCount, history>>

FirstError(info) == IF info.error /\ firstError = NoTask THEN info.task ELSE firstError

\* One round of the loop in Background_loader_run_cleanups.
RunCleanup ==
    /\ pc \in {"addCleanups", "waitCleanups"}
    /\ ~IsEmpty(cleanupQueue)
    /\ LET info == Front(cleanupQueue)
       IN  /\ cleanupQueue' = Fetch(cleanupQueue)
           /\ cleaned' = [cleaned EXCEPT ![info.task] = @ + 1]
           /\ firstError' = FirstError(info)
    /\ activeTaskCount' = activeTaskCount - 1
    /\ UNCHANGED <<workQueue, loaderState, finalCleanups, workerVars, clientVars,
                   handleVars, runs, failed>>

HasRoom ==
    /\ activeTaskCount + 2 < QueueSize
    /\ ~IsFull(workQueue, ReadyInfo(adding))

AddTaskRefused ==
    /\ pc = "addCleanups"
    /\ IsEmpty(cleanupQueue)
    /\ ~HasRoom
    /\ RunDirectly(adding)
    /\ UNCHANGED <<loaderVars, workerVars, caller, nextWorker, anyRunning, handleVars>>

AddTaskEnqueue ==
    /\ pc = "addCleanups"
    /\ IsEmpty(cleanupQueue)
    /\ HasRoom
    /\ workQueue' = Add(workQueue, ReadyInfo(adding))
    /\ pc' = "startWorkers"
    /\ nextWorker' = 0
    /\ anyRunning' = FALSE
    /\ UNCHANGED <<cleanupQueue, activeTaskCount, firstError, loaderState,
                   finalCleanups, workerVars, caller, adding, handleVars, history>>

\* One round of the loop that starts the workers that are not running yet.
StartWorker ==
    /\ pc = "startWorkers"
    /\ nextWorker < threadCount
    /\ \/ /\ IsRunning(nextWorker)
          /\ anyRunning' = TRUE
          /\ UNCHANGED workerPc
       \/ /\ ~IsRunning(nextWorker)
          /\ anyRunning' = TRUE
          /\ workerPc' = [workerPc EXCEPT ![nextWorker] = "fetch"]
       \/ /\ "thread_start" \in Failures
          /\ ~IsRunning(nextWorker)
          /\ UNCHANGED <<anyRunning, workerPc>>
    /\ nextWorker' = nextWorker + 1
    /\ UNCHANGED <<loaderVars, workerInfo, pc, caller, adding, handleVars, history>>

AddTaskUndo ==
    /\ pc = "startWorkers"
    /\ nextWorker = threadCount
    /\ ~anyRunning
    /\ IF IsEmpty(workQueue)
       THEN /\ pc' = "aborted"
            /\ UNCHANGED <<workQueue, adding, history>>
       ELSE /\ workQueue' = UndoAdd(workQueue)
            /\ RunDirectly(adding)
    /\ UNCHANGED <<cleanupQueue, activeTaskCount, firstError, loaderState,
                   finalCleanups, workerVars, caller, nextWorker, anyRunning, handleVars>>

AddTaskSignal ==
    /\ pc = "startWorkers"
    /\ nextWorker = threadCount
    /\ anyRunning
    /\ loaderState' = "IN_PROGRESS"
    /\ workerPc' = WakeAll
    /\ activeTaskCount' = activeTaskCount + 1
    /\ pc' = "idle"
    /\ adding' = NoTask
    /\ UNCHANGED <<workQueue, cleanupQueue, firstError, finalCleanups, workerInfo,
                   caller, nextWorker, anyRunning, handleVars, history>>

(***************************************************************************)
(* The client: delayed tasks, waiting and the Handle's calls.              *)
(***************************************************************************)

BeginWait(who) ==
    /\ pc' = "addEnd"
    /\ caller' = who
    /\ UNCHANGED <<loaderVars, workerVars, adding, nextWorker, anyRunning, history>>

\* Device_set_impl: the old implementation of a device is deleted when all
\* tasks are finished; without memory for that note it waits for them now.
AddDelayedTask ==
    /\ pc = "idle"
    /\ finalCleanups < MaxDelayed
    /\ finalCleanups' = finalCleanups + 1
    /\ SetData
    /\ UNCHANGED <<workQueue, cleanupQueue, activeTaskCount, firstError, loaderState,
                   workerVars, clientVars, threadCount, history>>

AddDelayedTaskFails ==
    /\ pc = "idle"
    /\ "delayed_add" \in Failures
    /\ BeginWait("set_impl")
    /\ SetData
    /\ UNCHANGED threadCount

\* kqt_Handle_validate knows of a format error before it waits.
ValidateRejects ==
    /\ pc = "idle"
    /\ ~isValidated
    /\ pc' = "invalid"
    /\ UNCHANGED <<loaderVars, workerVars, caller, adding, nextWorker, anyRunning,
                   handleVars, history>>

Validate ==
    /\ pc = "idle"
    /\ BeginWait("validate")
    /\ UNCHANGED handleVars

DeleteHandle ==
    /\ pc \in {"idle", "invalid"}
    /\ BeginWait("del")
    /\ UNCHANGED handleVars

\* Wrong: the count may change while workers run.
SetThreadCountAnytime(count) ==
    /\ pc = "idle"
    /\ threadCount' = count - 1
    /\ UNCHANGED <<loaderVars, workerVars, clientVars, isValidated, history>>

\* kqt_Handle_set_loader_thread_count: the client itself is one of the count.
SetThreadCount(count) ==
    /\ pc = "idle"
    /\ isValidated
    /\ threadCount' = count - 1
    /\ UNCHANGED <<loaderVars, workerVars, clientVars, isValidated, history>>

\* Background_loader_wait_idle ignores a ring without room for the marker.
WaitAddEnd ==
    /\ pc = "addEnd"
    /\ workQueue' = IF IsFull(workQueue, EndInfo) THEN workQueue ELSE Add(workQueue, EndInfo)
    /\ pc' = "signalWait"
    /\ UNCHANGED <<cleanupQueue, activeTaskCount, firstError, loaderState, finalCleanups,
                   workerVars, caller, adding, nextWorker, anyRunning, handleVars, history>>

WaitSignal ==
    /\ pc = "signalWait"
    /\ loaderState' = "WAITING"
    /\ workerPc' = WakeAll
    /\ pc' = "join"
    /\ nextWorker' = 0
    /\ UNCHANGED <<workQueue, cleanupQueue, activeTaskCount, firstError, finalCleanups,
                   workerInfo, caller, adding, anyRunning, handleVars, history>>

WaitJoin ==
    /\ pc = "join"
    /\ nextWorker < MaxThreads
    /\ workerPc[nextWorker] \in {"off", "exited"}
    /\ workerPc' = [workerPc EXCEPT ![nextWorker] = "off"]
    /\ nextWorker' = nextWorker + 1
    /\ UNCHANGED <<loaderVars, workerInfo, pc, caller, adding, anyRunning, handleVars, history>>

WaitJoined ==
    /\ pc = "join"
    /\ nextWorker = MaxThreads
    /\ pc' = "waitCleanups"
    /\ UNCHANGED <<loaderVars, workerVars, caller, adding, nextWorker, anyRunning,
                   handleVars, history>>

\* Wrong: the final cleanups run before the cleanups of the tasks.
WaitCleanedEarly ==
    /\ pc = "waitCleanups"
    /\ pc' = "finalCleanups"
    /\ UNCHANGED <<loaderVars, workerVars, caller, adding, nextWorker, anyRunning,
                   handleVars, history>>

WaitCleaned ==
    /\ pc = "waitCleanups"
    /\ IsEmpty(cleanupQueue)
    /\ pc' = "finalCleanups"
    /\ UNCHANGED <<loaderVars, workerVars, caller, adding, nextWorker, anyRunning,
                   handleVars, history>>

\* The final cleanups run and wait_idle returns to set_impl or del_Handle.
WaitReturn ==
    /\ pc = "finalCleanups"
    /\ caller # "validate"
    /\ finalCleanups' = 0
    /\ pc' = IF caller = "del" THEN "deleted" ELSE "idle"
    /\ caller' = "none"
    /\ UNCHANGED <<workQueue, cleanupQueue, activeTaskCount, firstError, loaderState,
                   workerVars, adding, nextWorker, anyRunning, handleVars, history>>

\* The final cleanups run and kqt_Handle_validate goes on with the reset,
\* which insists that no worker runs and no task is active.  An error of the
\* data itself is as good as a background error here.
WaitReset ==
    /\ pc = "finalCleanups"
    /\ caller = "validate"
    /\ finalCleanups' = 0
    /\ caller' = "none"
    /\ IF activeTaskCount # 0 \/ \E w \in Workers : IsRunning(w)
       THEN /\ pc' = "aborted"
            /\ UNCHANGED <<workQueue, cleanupQueue, isValidated>>
       ELSE /\ workQueue' = EmptyQueue
            /\ cleanupQueue' = EmptyQueue
            /\ \/ pc' = "invalid" /\ UNCHANGED isValidated
               \/ firstError = NoTask /\ pc' = "idle" /\ isValidated' = TRUE
    /\ UNCHANGED <<activeTaskCount, firstError, loaderState, workerVars, adding,
                   nextWorker, anyRunning, threadCount, history>>

(***************************************************************************)
(* The workers: Background_loader_fetch_task_info and Task_worker_run_tasks.*)
(***************************************************************************)

WorkerFetch(w) ==
    /\ pc # "aborted"
    /\ workerPc[w] = "fetch"
    /\ IF IsEmpty(workQueue)
       THEN /\ workerPc' = [workerPc EXCEPT ![w] = "check"]
            /\ UNCHANGED <<workQueue, workerInfo>>
       ELSE LET info == Front(workQueue)
            IN  /\ workQueue' = Fetch(workQueue)
                /\ IF info.state = "END_QUEUE"
                   THEN /\ workerPc' = [workerPc EXCEPT ![w] = "exited"]
                        /\ workerInfo' = [workerInfo EXCEPT ![w] = info]
                   ELSE /\ workerPc' = [workerPc EXCEPT ![w] = "busy"]
                        /\ workerInfo' = [workerInfo EXCEPT ![w] =
                                              [info EXCEPT !.state = "IN_PROGRESS"]]
    /\ UNCHANGED <<cleanupQueue, activeTaskCount, firstError, loaderState, finalCleanups,
                   clientVars, handleVars, history>>

\* Another thread may add a task between the fetch and this check.
WorkerCheckState(w) ==
    /\ pc # "aborted"
    /\ workerPc[w] = "check"
    /\ workerPc' = [workerPc EXCEPT ![w] =
                        IF loaderState = "WAITING" THEN "fetch" ELSE "waiting"]
    /\ UNCHANGED <<loaderVars, workerInfo, clientVars, handleVars, history>>

\* pthread_cond_wait may return without a signal.
SpuriousWakeup(w) ==
    /\ pc # "aborted"
    /\ workerPc[w] = "waiting"
    /\ workerPc' = [workerPc EXCEPT ![w] = "fetch"]
    /\ UNCHANGED <<loaderVars, workerInfo, clientVars, handleVars, history>>

\* Without room in the cleanup queue an assertion stops the program.
WorkerProcess(w) ==
    /\ pc # "aborted"
    /\ workerPc[w] = "busy"
    /\ \E error \in BOOLEAN :
          LET info == [workerInfo[w] EXCEPT !.error = error]
          IN  /\ runs' = [runs EXCEPT ![info.task] = @ + 1]
              /\ failed' = IF error THEN failed \cup {info.task} ELSE failed
              /\ workerInfo' = [workerInfo EXCEPT ![w] = info]
              /\ IF IsFull(cleanupQueue, info)
                 THEN pc' = "aborted" /\ UNCHANGED <<cleanupQueue, workerPc>>
                 ELSE /\ cleanupQueue' = Add(cleanupQueue, info)
                      /\ workerPc' = [workerPc EXCEPT ![w] = "fetch"]
                      /\ UNCHANGED pc
    /\ UNCHANGED <<workQueue, activeTaskCount, firstError, loaderState, finalCleanups,
                   caller, adding, nextWorker, anyRunning, handleVars, cleaned>>

WorkerStep(w) == WorkerFetch(w) \/ WorkerCheckState(w) \/ WorkerProcess(w)

\* The steps of a call the client is inside of.
CallStep ==
    \/ RunCleanup \/ AddTaskRefused \/ AddTaskEnqueue \/ StartWorker
    \/ AddTaskUndo \/ AddTaskSignal
    \/ WaitAddEnd \/ WaitSignal \/ WaitJoin \/ WaitJoined \/ WaitCleaned
    \/ WaitReturn \/ WaitReset

\* The Handle is gone, or an assertion has stopped the program.
Finished == pc \in {"deleted", "aborted"} /\ UNCHANGED vars

Next ==
    \/ \E t \in Tasks : AddTaskNoThreads(t) \/ AddTask(t)
    \/ AddDelayedTask \/ AddDelayedTaskFails
    \/ ValidateRejects \/ Validate \/ DeleteHandle
    \/ \E count \in 1 .. MaxThreads : SetThreadCount(count)
    \/ CallStep
    \/ \E w \in Workers : WorkerStep(w) \/ SpuriousWakeup(w)
    \/ Finished

\* Every thread keeps running; when the client calls is up to the program
\* that uses the library.
Fairness ==
    /\ WF_vars(CallStep)
    /\ \A w \in Workers : WF_vars(WorkerStep(w))

Spec == Init /\ [][Next]_vars /\ Fairness

(***************************************************************************)
(* Properties.                                                             *)
(***************************************************************************)

BusyWorkers == {w \in Workers : workerPc[w] = "busy"}

NoTaskOutstanding ==
    /\ TaskSlots(workQueue) = {}
    /\ BusyWorkers = {}
    /\ TaskSlots(cleanupQueue) = {}

\* No assertion of the loader fails: a worker always finds room in the
\* cleanup queue (line 538), an added task is still there to be taken back
\* (253), and the reset finds no worker and no active task (601-605).
AssertionsHold == pc # "aborted"

\* active_task_count is the number of tasks that are queued, in process or
\* to be cleaned up, however the threads interleave; the task of a call that
\* has not been signalled yet is not counted.
Outstanding == activeTaskCount + (IF pc = "startWorkers" THEN 1 ELSE 0)

ActiveTaskCountExact ==
    Outstanding = Cardinality(TaskSlots(workQueue)) + Cardinality(BusyWorkers)
                      + Cardinality(TaskSlots(cleanupQueue))

\* A task is processed at most once and cleaned up at most once, and never
\* cleaned up before it was processed, whether a worker or the client ran it.
EachTaskOnce ==
    \A t \in Tasks : cleaned[t] <= runs[t] /\ runs[t] <= 1

\* A worker that finishes its task finds room in the cleanup queue, which it
\* insists on (line 538), although the client may not have looked at that queue
\* for long.
CleanupHasRoom ==
    \A w \in BusyWorkers : ~IsFull(cleanupQueue, workerInfo[w])

\* When the final cleanups delete old device implementations no task can be
\* using them any more: Background_loader_wait_idle has finished every task.
WaitIdleFinishesTasks == pc = "finalCleanups" => NoTaskOutstanding

\* A Handle that counts as validated has no background task left, and none of
\* its tasks failed without kqt_Handle_validate reporting it.
ValidatedMeansLoaded ==
    isValidated /\ pc = "idle" => NoTaskOutstanding /\ failed = {}

\* Whoever waits for the loader, a caller that deletes devices or one that
\* validates, may go on as if there never had been tasks: all have been run and
\* cleaned up, and a failure of any has been reported.
TasksAreFinished == WaitIdleFinishesTasks /\ ValidatedMeansLoaded

\* A task is only taken back if no worker can have seen it ("there are no
\* workers that could run it", line 460).
UndoneTaskHasNoWorker ==
    pc = "startWorkers" /\ nextWorker = threadCount /\ ~anyRunning
        => \A w \in Workers : ~IsRunning(w)

(***************************************************************************)
(* The inductive invariant behind the count, for a Handle whose set_data   *)
(* calls do not fail after adding a task.                                  *)
(***************************************************************************)

\* Both rings are in order, the end marker only ever is in the work queue,
\* and a busy worker holds a task.
RingsOK ==
    /\ RingOK(workQueue)
    /\ RingOK(cleanupQueue)
    /\ \A i \in Indices : cleanupQueue.slots[i].state # "END_QUEUE"
    /\ \A w \in BusyWorkers :
          workerInfo[w].task \in Tasks /\ workerInfo[w].state = "IN_PROGRESS"

\* The count is exact and leaves room in both rings.
CountOK == ActiveTaskCountExact /\ Outstanding <= QueueSize - 2

WaitPcs == {"addEnd", "signalWait", "join", "waitCleanups", "finalCleanups"}

Running == {w \in Workers : IsRunning(w)}

\* The thread count only changes while no worker runs, and a call that starts
\* workers knows of each that runs already.  While none runs, the task the
\* call has added is the last item of the work queue.
ThreadsOK ==
    /\ \A w \in Running : w < threadCount
    /\ isValidated => pc \notin {"addCleanups", "startWorkers"}
    /\ isValidated /\ pc = "idle" => Running = {}
    /\ pc \in WaitPcs => caller # "none" /\ (isValidated => caller # "set_impl")
    /\ pc \in {"addCleanups", "startWorkers"} => adding \in Tasks
    /\ pc = "startWorkers" =>
          /\ nextWorker <= threadCount
          /\ ~anyRunning => \A w \in Running : w >= nextWorker
          /\ Running = {} =>
                /\ ~IsEmpty(workQueue)
                /\ Advance(workQueue.add, QueueSize - 1) \in TaskSlots(workQueue)

\* What makes ActiveTaskCountExact, CleanupHasRoom and UndoneTaskHasNoWorker
\* true in every state.
LoaderInv == TypeOK /\ RingsOK /\ CountOK /\ ThreadsOK

\* Later errors never replace the first one.
FirstErrorIsKept == [][firstError # NoTask => firstError' = firstError]_firstError

\* Every call of the client returns: the workers meet the end marker, whatever
\* wakeups they missed, the client can join them, and no assertion stops the
\* program (pc = "aborted" never returns); the error that it reports is the
\* first one.
ClientWaits == pc \in {"idle", "invalid", "deleted"}
CallsReturn == (~ClientWaits ~> ClientWaits) /\ FirstErrorIsKept

(***************************************************************************)
(* The loader implements a pool of tasks.  A queued task counts once there *)
(* is a worker that could run it: until then add_task may still refuse it. *)
(***************************************************************************)

Pool == INSTANCE TaskPool WITH
    Capacity <- QueueSize - 2,
    pending <- {workerInfo[w].task : w \in BusyWorkers}
                   \cup IF \E w \in Workers : IsRunning(w) THEN TasksOf(workQueue) ELSE {},
    processed <- TasksOf(cleanupQueue),
    retired <- {t \in Tasks : cleaned[t] > 0},
    mode <- IF pc \in {"addEnd", "signalWait", "join", "waitCleanups", "finalCleanups"}
            THEN "draining" ELSE IF pc = "deleted" THEN "closed" ELSE "open"

\* Every behaviour of the loader is one of the pool, and a wait for the pool
\* ends, after every task the loader has accepted.
ImplementsTaskPool == Pool!Spec

=============================================================================
