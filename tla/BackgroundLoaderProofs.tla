----------------------- MODULE BackgroundLoaderProofs -----------------------
(***************************************************************************)
(* The background loader's type invariant, the exactness of                *)
(* active_task_count and what follows from it, for any number of tasks and *)
(* workers and any size of the rings.                                      *)
(***************************************************************************)
EXTENDS BackgroundLoader, FiniteSetTheorems, TLAPS

\* The ring Task_queue: where its items are, what adding, taking back
\* and fetching do to the set of slots that hold a task, and that a ring
\* that is full holds QueueSize - 2 items.
\* The remainder in Advance only matters at the end of the slots.
LEMMA AdvanceCases ==
    ASSUME NEW i \in Indices, NEW k \in 0 .. QueueSize
    PROVE  Advance(i, k) = IF i + k < QueueSize THEN i + k ELSE i + k - QueueSize
BY QueueSizeAssumption DEF Indices, Advance

\* A ring has as many task slots as it can count.
LEMMA TaskSlotsFinite ==
    ASSUME NEW q
    PROVE  /\ IsFiniteSet(TaskSlots(q))
           /\ Cardinality(TaskSlots(q)) \in Nat
<1>1. IsFiniteSet(Indices)  BY FS_Interval, QueueSizeAssumption DEF Indices
<1> QED  BY <1>1, FS_Subset, FS_CardinalityType DEF TaskSlots

LEMMA EmptyQueueOK == RingOK(EmptyQueue) /\ TaskSlots(EmptyQueue) = {}
    BY QueueSizeAssumption
    DEF RingOK, Queues, EmptyQueue, EmptyInfo, Infos, InfoStates, Indices, InRing, TaskSlots

\* Adding an item keeps the ring in order and adds at most the one slot.
LEMMA AddOK ==
    ASSUME NEW q, RingOK(q), NEW info \in Infos, ~IsFull(q, info),
           info.state # "EMPTY",
           info.task # NoTask <=> info.state \in {"READY_TO_START", "IN_PROGRESS"}
    PROVE  /\ RingOK(Add(q, info))
           /\ q.add \notin TaskSlots(q)
           /\ TaskSlots(Add(q, info)) =
                IF info.task # NoTask THEN TaskSlots(q) \cup {q.add} ELSE TaskSlots(q)
<1> DEFINE next == Advance(q.add, 1)
           r == Add(q, info)
<1>1. q.add \in Indices /\ q.fetch \in Indices /\ q.slots \in [Indices -> Infos]  BY DEF RingOK, Queues
<1>2. next = IF q.add + 1 < QueueSize THEN q.add + 1 ELSE 0  BY <1>1, AdvanceCases, QueueSizeAssumption DEF Indices
<1>3. next \in Indices /\ next # q.fetch  BY <1>1, <1>2, QueueSizeAssumption DEF Indices, IsFull
<1> HIDE DEF next
<1>4. /\ r.add = next /\ r.fetch = q.fetch
      /\ r.slots = [q.slots EXCEPT ![q.add] = info]
      /\ r \in Queues  BY <1>1, <1>3 DEF Add, Queues, RingOK, next
<1>5. q.slots[q.add].state = "EMPTY" /\ q.slots[q.add].task = NoTask
  BY <1>1 DEF RingOK, InRing, Indices, Infos, InfoStates
<1>6. \A i \in Indices : InRing(r, i) <=> InRing(q, i) \/ i = q.add
  BY <1>1, <1>2, <1>3, <1>4, QueueSizeAssumption DEF InRing, Indices
<1> QED  BY <1>5, <1>1, <1>4, <1>6 DEF TaskSlots, RingOK

\* Taking the last item back.
LEMMA UndoAddOK ==
    ASSUME NEW q, RingOK(q), ~IsEmpty(q)
    PROVE  /\ RingOK(UndoAdd(q))
           /\ TaskSlots(UndoAdd(q)) = TaskSlots(q) \ {Advance(q.add, QueueSize - 1)}
<1> DEFINE last == Advance(q.add, QueueSize - 1)
           r == UndoAdd(q)
<1>1. q.add \in Indices /\ q.fetch \in Indices /\ q.slots \in [Indices -> Infos]  BY DEF RingOK, Queues
<1>2. last = IF q.add = 0 THEN QueueSize - 1 ELSE q.add - 1
  <2>1. last = IF q.add + (QueueSize - 1) < QueueSize
               THEN q.add + (QueueSize - 1) ELSE q.add + (QueueSize - 1) - QueueSize
    BY <1>1, AdvanceCases, QueueSizeAssumption
  <2> QED  BY <1>1, <2>1, QueueSizeAssumption DEF Indices
<1>3. last \in Indices  BY <1>1, <1>2, QueueSizeAssumption DEF Indices
<1> HIDE DEF last
<1>4. /\ r.add = last /\ r.fetch = q.fetch
      /\ r.slots = [q.slots EXCEPT ![last] = EmptyInfo]
      /\ r \in Queues  BY <1>1, <1>3 DEF UndoAdd, Queues, RingOK, last, EmptyInfo, Infos, InfoStates
<1>5. \A i \in Indices : InRing(r, i) <=> InRing(q, i) /\ i # last
  BY <1>1, <1>2, <1>3, <1>4, QueueSizeAssumption DEF InRing, Indices, IsEmpty
<1> QED  BY <1>1, <1>4, <1>5 DEF last, RingOK, EmptyInfo, TaskSlots

\* Fetching takes the front item, unless it is the end marker.
LEMMA FetchOK ==
    ASSUME NEW q, RingOK(q), ~IsEmpty(q)
    PROVE  /\ RingOK(Fetch(q))
           /\ Front(q) \in Infos
           /\ Front(q).state = "END_QUEUE" => Fetch(q) = q
           /\ Front(q).state # "END_QUEUE" =>
                 /\ Front(q).task \in Tasks
                 /\ Front(q).state \in {"READY_TO_START", "IN_PROGRESS"}
                 /\ q.fetch \in TaskSlots(q)
                 /\ TaskSlots(Fetch(q)) = TaskSlots(q) \ {q.fetch}
<1> DEFINE next == Advance(q.fetch, 1)
           r == Fetch(q)
<1>1. q.add \in Indices /\ q.fetch \in Indices /\ q.slots \in [Indices -> Infos]  BY DEF RingOK, Queues
<1>2. Front(q) \in Infos /\ Front(q).state # "EMPTY"
  BY <1>1, QueueSizeAssumption DEF InRing, Indices, IsEmpty, RingOK, Front
<1>3. CASE Front(q).state = "END_QUEUE"  BY <1>2, <1>3 DEF Fetch
<1>4. CASE Front(q).state # "END_QUEUE"
  <2>1. /\ Front(q).state \in {"READY_TO_START", "IN_PROGRESS"}
        /\ Front(q).task \in Tasks
        /\ q.fetch \in TaskSlots(q)  BY <1>1, <1>2, <1>4 DEF RingOK, Front, Infos, InfoStates, TaskSlots
  <2>2. next = IF q.fetch + 1 < QueueSize THEN q.fetch + 1 ELSE 0
    BY <1>1, AdvanceCases, QueueSizeAssumption DEF Indices
  <2>3. next \in Indices  BY <1>1, <2>2, QueueSizeAssumption DEF Indices
  <2>4. EmptyInfo \in Infos  BY DEF EmptyInfo, Infos, InfoStates
  <2> HIDE DEF next
  <2>5. /\ r.add = q.add /\ r.fetch = next
        /\ r.slots = [q.slots EXCEPT ![q.fetch] = EmptyInfo]
        /\ r \in Queues  BY <1>1, <1>4, <2>3, <2>4 DEF Fetch, Queues, RingOK, next
  <2>6. \A i \in Indices : InRing(r, i) <=> InRing(q, i) /\ i # q.fetch
    BY <1>1, <2>2, <2>5, QueueSizeAssumption DEF InRing, Indices, IsEmpty
  <2>7. \A i \in Indices : r.slots[i] = IF i = q.fetch THEN EmptyInfo ELSE q.slots[i]  BY <1>1, <2>5
  <2>8. RingOK(r)  BY <1>1, <2>5, <2>6, <2>7 DEF RingOK, EmptyInfo
  <2> QED  BY <1>2, <1>4, <2>1, <2>8, <2>7 DEF TaskSlots, EmptyInfo
<1> QED  BY <1>3, <1>4

\* A ring without end markers that has no room for another task holds
\* QueueSize - 2 tasks at least.
LEMMA FullRingHoldsTasks ==
    ASSUME NEW q, RingOK(q), NEW info \in Infos, IsFull(q, info),
           \A i \in Indices : q.slots[i].state # "END_QUEUE"
    PROVE  Cardinality(TaskSlots(q)) >= QueueSize - 2
<1> DEFINE next == Advance(q.add, 1)
           free == {q.add, next}
<1>1. q.add \in Indices /\ q.fetch \in Indices /\ q.slots \in [Indices -> Infos]  BY DEF RingOK, Queues
<1>2. next = IF q.add + 1 < QueueSize THEN q.add + 1 ELSE 0  BY <1>1, AdvanceCases, QueueSizeAssumption DEF Indices
<1>3. Advance(q.add, 2) = IF q.add + 2 < QueueSize THEN q.add + 2 ELSE q.add + 2 - QueueSize
  BY <1>1, AdvanceCases, QueueSizeAssumption DEF Indices
<1>4. next = q.fetch \/ Advance(q.add, 2) = q.fetch  BY DEF IsFull
<1> HIDE DEF next
<1>5. \A i \in Indices \ free : InRing(q, i)  BY <1>1, <1>2, <1>3, <1>4, QueueSizeAssumption DEF InRing, Indices
<1>6. (Indices \ {q.add}) \ {next} \in SUBSET TaskSlots(q)  BY <1>1, <1>5 DEF TaskSlots, RingOK, Infos, InfoStates
<1>7. IsFiniteSet(Indices) /\ Cardinality(Indices) = QueueSize  BY FS_Interval, QueueSizeAssumption DEF Indices
<1>8. /\ IsFiniteSet((Indices \ {q.add}) \ {next})
      /\ Cardinality((Indices \ {q.add}) \ {next}) \in {QueueSize - 2, QueueSize - 1}
  <2> DEFINE rest == Indices \ {q.add}
  <2>1. IsFiniteSet(rest) /\ Cardinality(rest) = QueueSize - 1  BY <1>1, <1>7, FS_RemoveElement
  <2> HIDE DEF rest
  <2>2. /\ IsFiniteSet(rest \ {next})
        /\ Cardinality(rest \ {next}) =
              IF next \in rest THEN Cardinality(rest) - 1 ELSE Cardinality(rest)  BY <2>1, FS_RemoveElement
  <2>3. Cardinality(rest \ {next}) \in {QueueSize - 2, QueueSize - 1}  BY <2>1, <2>2, QueueSizeAssumption
  <2> QED  BY <2>2, <2>3 DEF rest
<1> QED  BY <1>6, <1>8, TaskSlotsFinite, FS_Subset, QueueSizeAssumption

-----------------------------------------------------------------------------

\* The ring operations keep the type of a ring.
LEMMA QueueTypes ==
    ASSUME NEW q \in Queues, NEW info \in Infos
    PROVE  /\ EmptyQueue \in Queues
           /\ Add(q, info) \in Queues
           /\ UndoAdd(q) \in Queues
           /\ Fetch(q) \in Queues
           /\ Front(q) \in Infos
<1>1. \A i \in Indices : Advance(i, 1) \in Indices /\ Advance(i, QueueSize - 1) \in Indices
  BY QueueSizeAssumption DEF Indices, Advance
<1>2. EmptyInfo \in Infos  BY DEF EmptyInfo, Infos, InfoStates
<1>3. EmptyQueue \in Queues  BY <1>2, QueueSizeAssumption DEF EmptyQueue, Queues, Indices
<1> QED  BY <1>3, <1>1, <1>2 DEF Front, Add, Queues, UndoAdd, Fetch

LEMMA InfoTypes ==
    /\ EmptyInfo \in Infos
    /\ EndInfo \in Infos
    /\ \A t \in Tasks : ReadyInfo(t) \in Infos
    BY DEF EmptyInfo, EndInfo, ReadyInfo, Infos, InfoStates

LEMMA WakeAllType == workerPc \in [Workers -> WorkerPcs] => WakeAll \in [Workers -> WorkerPcs]
    BY DEF WakeAll, WorkerPcs

LEMMA CountType ==
    ASSUME NEW f \in [Tasks -> Nat], NEW t
    PROVE  [f EXCEPT ![t] = @ + 1] \in [Tasks -> Nat]
<1>1. CASE t \in Tasks  BY <1>1
<1>2. CASE t \notin Tasks  BY <1>2
<1> QED  BY <1>1, <1>2

LEMMA InitTypeOK == Init => TypeOK
<1> SUFFICES ASSUME Init PROVE TypeOK  OBVIOUS
<1>1. /\ workQueue \in Queues /\ cleanupQueue \in Queues
      /\ threadCount \in Workers /\ activeTaskCount \in Int
      /\ finalCleanups \in 0 .. MaxDelayed /\ nextWorker \in 0 .. MaxThreads
  BY EmptyQueueOK, MaxThreadsAssumption, MaxDelayedAssumption DEF Init, RingOK, Workers
<1>2. /\ firstError \in Tasks \cup {NoTask} /\ adding \in Tasks \cup {NoTask}
      /\ loaderState \in {"INIT", "IN_PROGRESS", "WAITING"}
      /\ pc \in ClientPcs /\ caller \in Callers
      /\ anyRunning \in BOOLEAN /\ isValidated \in BOOLEAN  BY DEF Init, ClientPcs, Callers
<1>3. /\ workerPc \in [Workers -> WorkerPcs] /\ workerInfo \in [Workers -> Infos]
      /\ runs \in [Tasks -> Nat] /\ cleaned \in [Tasks -> Nat]
      /\ failed \subseteq Tasks \cup {NoTask}  BY InfoTypes DEF Init, WorkerPcs
<1> QED  BY <1>1, <1>2, <1>3 DEF TypeOK

LEMMA NextTypeOK == TypeOK /\ [Next]_vars => TypeOK'
<1> SUFFICES ASSUME TypeOK, [Next]_vars PROVE TypeOK'  OBVIOUS
<1> USE DEF TypeOK, ClientPcs, Callers, loaderVars, workerVars, clientVars, handleVars, history
<1>1. ASSUME NEW t \in Tasks, AddTaskNoThreads(t) PROVE TypeOK'
  BY <1>1, CountType DEF AddTaskNoThreads, RunDirectly, SetData
<1>2. ASSUME NEW t \in Tasks, AddTask(t) PROVE TypeOK'  BY <1>2 DEF AddTask, SetData
<1>3. CASE AddDelayedTask
  <2>1. finalCleanups + 1 \in 0 .. MaxDelayed  BY <1>3, MaxDelayedAssumption DEF AddDelayedTask
  <2> QED  BY <1>3, <2>1 DEF AddDelayedTask, SetData
<1>4. CASE AddDelayedTaskFails  BY <1>4 DEF AddDelayedTaskFails, BeginWait, SetData
<1>5. CASE ValidateRejects  BY <1>5 DEF ValidateRejects
<1>6. CASE Validate  BY <1>6 DEF Validate, BeginWait
<1>7. CASE DeleteHandle  BY <1>7 DEF DeleteHandle, BeginWait
<1>8. ASSUME NEW count \in 1 .. MaxThreads, SetThreadCount(count) PROVE TypeOK'
  BY MaxThreadsAssumption, <1>8 DEF Workers, SetThreadCount
<1>9. CASE CallStep
  <2>1. CASE RunCleanup  BY QueueTypes, InfoTypes, <2>1, CountType DEF Infos, RunCleanup, FirstError
  <2>2. CASE AddTaskRefused  BY <2>2, CountType DEF AddTaskRefused, RunDirectly
  <2>3. CASE AddTaskEnqueue
    <3>1. 0 \in 0 .. MaxThreads  BY MaxThreadsAssumption
    <3> QED  BY <2>3, <3>1, QueueTypes DEF AddTaskEnqueue, ReadyInfo, Infos, InfoStates
  <2>4. CASE StartWorker
    <3>1. nextWorker + 1 \in 0 .. MaxThreads  BY <2>4, MaxThreadsAssumption DEF StartWorker, Workers
    <3> QED  BY <2>4, <3>1 DEF StartWorker, WorkerPcs
  <2>5. CASE AddTaskUndo  BY QueueTypes, InfoTypes, <2>5, CountType DEF AddTaskUndo, RunDirectly
  <2>6. CASE AddTaskSignal  BY <2>6, WakeAllType DEF AddTaskSignal
  <2>7. CASE WaitAddEnd  BY QueueTypes, InfoTypes, <2>7 DEF WaitAddEnd
  <2>8. CASE WaitSignal  BY <2>8, WakeAllType, MaxThreadsAssumption DEF WaitSignal
  <2>9. CASE WaitJoin
    <3>1. nextWorker + 1 \in 0 .. MaxThreads  BY <2>9, MaxThreadsAssumption DEF WaitJoin
    <3> QED  BY <2>9, <3>1 DEF WaitJoin, WorkerPcs
  <2>10. CASE WaitJoined  BY <2>10 DEF WaitJoined
  <2>11. CASE WaitCleaned  BY <2>11 DEF WaitCleaned
  <2>12. CASE WaitReturn  BY <2>12, MaxDelayedAssumption DEF WaitReturn
  <2>13. CASE WaitReset
    <3>1. 0 \in 0 .. MaxDelayed  BY MaxDelayedAssumption
    <3> QED  BY <2>13, <3>1, QueueTypes, InfoTypes DEF WaitReset
  <2> QED  BY <1>9, <2>1, <2>2, <2>3, <2>4, <2>5, <2>6, <2>7, <2>8, <2>9, <2>10, <2>11, <2>12, <2>13 DEF CallStep
<1>10. ASSUME NEW w \in Workers, WorkerFetch(w) PROVE TypeOK'
  BY QueueTypes, InfoTypes, <1>10 DEF Infos, InfoStates, WorkerFetch, WorkerPcs
<1>11. ASSUME NEW w \in Workers, WorkerCheckState(w) PROVE TypeOK'  BY <1>11 DEF WorkerCheckState, WorkerPcs
<1>12. ASSUME NEW w \in Workers, WorkerProcess(w) PROVE TypeOK'
  <2>1. PICK error \in BOOLEAN :
           LET info == [workerInfo[w] EXCEPT !.error = error]
           IN  /\ runs' = [runs EXCEPT ![info.task] = @ + 1]
               /\ failed' = IF error THEN failed \cup {info.task} ELSE failed
               /\ workerInfo' = [workerInfo EXCEPT ![w] = info]
               /\ IF IsFull(cleanupQueue, info)
                  THEN pc' = "aborted" /\ UNCHANGED <<cleanupQueue, workerPc>>
                  ELSE /\ cleanupQueue' = Add(cleanupQueue, info)
                       /\ workerPc' = [workerPc EXCEPT ![w] = "fetch"]
                       /\ UNCHANGED pc  BY <1>12 DEF WorkerProcess
  <2> DEFINE info == [workerInfo[w] EXCEPT !.error = error]
  <2>2. info \in Infos /\ info.task \in Tasks \cup {NoTask}  BY DEF Infos
  <2>3. Add(cleanupQueue, info) \in Queues  BY <2>2, QueueTypes
  <2> QED  BY <1>12, <2>1, <2>2, <2>3, CountType DEF WorkerProcess, WorkerPcs
<1>13. ASSUME NEW w \in Workers, SpuriousWakeup(w) PROVE TypeOK'  BY <1>13 DEF SpuriousWakeup, WorkerPcs
<1>14. CASE UNCHANGED vars  BY <1>14 DEF vars
<1> QED
  BY <1>1, <1>2, <1>3, <1>4, <1>5, <1>6, <1>7, <1>8, <1>9, <1>10, <1>11, <1>12, <1>13, <1>14 DEF Next, WorkerStep,
     Finished

\* Every variable keeps its type.
THEOREM TypeCorrect == Spec => []TypeOK
    BY InitTypeOK, NextTypeOK, PTL DEF Spec

\* The count of active tasks.  Most steps change neither the rings nor the
\* set of busy workers nor the count; the other seven move one task.

LEMMA WorkersFinite == IsFiniteSet(BusyWorkers) /\ Cardinality(BusyWorkers) \in Nat
<1>1. IsFiniteSet(Workers)  BY FS_Interval, MaxThreadsAssumption DEF Workers
<1> QED  BY <1>1, FS_Subset, FS_CardinalityType DEF BusyWorkers

QuietStep ==
    \/ \E t \in Tasks : AddTaskNoThreads(t) \/ AddTask(t)
    \/ AddDelayedTask \/ AddDelayedTaskFails
    \/ ValidateRejects \/ Validate \/ DeleteHandle
    \/ \E count \in 1 .. MaxThreads : SetThreadCount(count)
    \/ AddTaskRefused \/ StartWorker \/ AddTaskSignal
    \/ WaitSignal \/ WaitJoin \/ WaitJoined \/ WaitCleaned \/ WaitReturn
    \/ \E w \in Workers : WorkerCheckState(w) \/ SpuriousWakeup(w)
    \/ UNCHANGED vars

LEMMA NextCases ==
    ASSUME [Next]_vars
    PROVE  \/ QuietStep
           \/ RunCleanup \/ AddTaskEnqueue \/ AddTaskUndo \/ WaitAddEnd \/ WaitReset
           \/ \E w \in Workers : WorkerFetch(w) \/ WorkerProcess(w)
    BY DEF Next, CallStep, WorkerStep, Finished, QuietStep

LEMMA QuietStepsChangeNothing ==
    ASSUME TypeOK, QuietStep
    PROVE  /\ UNCHANGED <<workQueue, cleanupQueue, workerInfo>>
           /\ BusyWorkers' = BusyWorkers
           /\ Outstanding' = Outstanding
<1> USE DEF loaderVars, workerVars, clientVars, handleVars, history, TypeOK
<1>1. ASSUME NEW t \in Tasks, AddTaskNoThreads(t) \/ AddTask(t)
      PROVE  UNCHANGED <<workQueue, cleanupQueue, workerInfo, workerPc, Outstanding>>
  BY <1>1 DEF AddTaskNoThreads, AddTask, RunDirectly, Outstanding
<1>2. CASE AddDelayedTask \/ AddDelayedTaskFails \/ ValidateRejects \/ Validate \/ DeleteHandle
  BY <1>2 DEF AddDelayedTask, AddDelayedTaskFails, ValidateRejects, Validate, DeleteHandle, BeginWait, Outstanding,
     BusyWorkers
<1>3. ASSUME NEW count \in 1 .. MaxThreads, SetThreadCount(count)
      PROVE  UNCHANGED <<workQueue, cleanupQueue, workerInfo, workerPc, Outstanding>>
  BY <1>3 DEF SetThreadCount, Outstanding
<1>4. CASE AddTaskRefused \/ WaitJoined \/ WaitCleaned \/ WaitReturn
  BY <1>4 DEF AddTaskRefused, RunDirectly, WaitJoined, WaitCleaned, WaitReturn, Outstanding, BusyWorkers
<1>5. CASE StartWorker  BY <1>5 DEF StartWorker, BusyWorkers, Outstanding, IsRunning
<1>6. CASE AddTaskSignal  BY <1>6 DEF AddTaskSignal, WakeAll, BusyWorkers, Outstanding
<1>7. CASE WaitSignal  BY <1>7 DEF WaitSignal, WakeAll, BusyWorkers, Outstanding
<1>8. CASE WaitJoin  BY <1>8 DEF WaitJoin, BusyWorkers, Outstanding
<1>9. ASSUME NEW w \in Workers, WorkerCheckState(w) \/ SpuriousWakeup(w)
      PROVE  /\ UNCHANGED <<workQueue, cleanupQueue, workerInfo, Outstanding>>
             /\ BusyWorkers' = BusyWorkers  BY <1>9 DEF WorkerCheckState, SpuriousWakeup, BusyWorkers, Outstanding
<1>10. CASE UNCHANGED vars  BY <1>10 DEF vars, BusyWorkers, Outstanding
<1> QED  BY <1>1, <1>2, <1>3, <1>4, <1>5, <1>6, <1>7, <1>8, <1>9, <1>10 DEF QuietStep, BusyWorkers

\* RingsOK and CountOK are about these expressions only.
LEMMA QuietStepsKeepCount ==
    ASSUME TypeOK, RingsOK, CountOK, QuietStep
    PROVE  RingsOK' /\ CountOK'
BY QuietStepsChangeNothing DEF RingsOK, CountOK, ActiveTaskCountExact

\* A finished worker makes the outstanding tasks outnumber the cleanup queue.
LEMMA BusyWorkerHasRoom ==
    ASSUME RingsOK, CountOK, NEW w \in BusyWorkers, NEW info \in Infos
    PROVE  ~IsFull(cleanupQueue, info)
<1> SUFFICES ASSUME IsFull(cleanupQueue, info) PROVE FALSE  OBVIOUS
<1> QED
  BY QueueSizeAssumption, FullRingHoldsTasks, WorkersFinite, FS_EmptySet, TaskSlotsFinite DEF CountOK,
     ActiveTaskCountExact, RingsOK

\* The client takes a finished task out of the cleanup queue and counts it.
LEMMA RunCleanupKeepsCount ==
    ASSUME TypeOK, RingsOK, CountOK, RunCleanup
    PROVE  RingsOK' /\ CountOK'
<1> DEFINE slot == cleanupQueue.fetch
<1>1. /\ cleanupQueue' = Fetch(cleanupQueue) /\ ~IsEmpty(cleanupQueue)
      /\ UNCHANGED <<workQueue, workerPc, workerInfo>>
      /\ pc # "startWorkers" /\ pc' = pc
      /\ activeTaskCount' = activeTaskCount - 1  BY DEF RunCleanup, workerVars, clientVars
<1>2. cleanupQueue \in Queues /\ slot \in Indices  BY DEF TypeOK, Queues
<1>3. Front(cleanupQueue).state # "END_QUEUE"  BY <1>2 DEF RingsOK, Front
<1>4. /\ RingOK(cleanupQueue')
      /\ slot \in TaskSlots(cleanupQueue)
      /\ TaskSlots(cleanupQueue') = TaskSlots(cleanupQueue) \ {slot}  BY <1>1, <1>3, FetchOK DEF RingsOK
<1>5. Cardinality(TaskSlots(cleanupQueue')) = Cardinality(TaskSlots(cleanupQueue)) - 1
  BY <1>4, TaskSlotsFinite, FS_RemoveElement
<1>6. BusyWorkers' = BusyWorkers  BY <1>1 DEF BusyWorkers
<1>7. RingsOK'  BY <1>1, <1>4, <1>6, <1>2, <1>3 DEF RingsOK, Fetch, Queues, EmptyInfo
<1>8. CountOK'
  BY <1>1, <1>5, <1>6, TaskSlotsFinite, WorkersFinite, QueueSizeAssumption DEF CountOK, ActiveTaskCountExact,
     Outstanding, TypeOK
<1> QED  BY <1>7, <1>8

\* The client puts a task in the work queue.
LEMMA AddTaskEnqueueKeepsCount ==
    ASSUME TypeOK, RingsOK, CountOK, ThreadsOK, AddTaskEnqueue
    PROVE  RingsOK' /\ CountOK'
<1> DEFINE info == ReadyInfo(adding)
<1>1. /\ workQueue' = Add(workQueue, info)
      /\ ~IsFull(workQueue, info)
      /\ activeTaskCount + 2 < QueueSize
      /\ UNCHANGED <<cleanupQueue, workerPc, workerInfo, activeTaskCount>>
      /\ pc = "addCleanups" /\ pc' = "startWorkers"  BY DEF AddTaskEnqueue, HasRoom, workerVars
<1>2. info \in Infos /\ info.task \in Tasks /\ info.state = "READY_TO_START"
  BY <1>1 DEF ThreadsOK, ReadyInfo, Infos, InfoStates
<1> HIDE DEF info
<1>3. /\ RingOK(workQueue')
      /\ workQueue.add \notin TaskSlots(workQueue)
      /\ TaskSlots(workQueue') = TaskSlots(workQueue) \cup {workQueue.add}
  BY <1>1, <1>2, AddOK, NoTaskAssumption DEF RingsOK
<1>4. Cardinality(TaskSlots(workQueue')) = Cardinality(TaskSlots(workQueue)) + 1
  BY <1>3, TaskSlotsFinite, FS_AddElement
<1>5. BusyWorkers' = BusyWorkers  BY <1>1 DEF BusyWorkers
<1>6. CountOK'
  BY <1>1, <1>4, <1>5, TaskSlotsFinite, WorkersFinite, QueueSizeAssumption DEF CountOK, ActiveTaskCountExact,
     Outstanding, TypeOK
<1> QED  BY <1>6, <1>1, <1>3, <1>5 DEF RingsOK

\* Without a worker the task the client added is the one it takes back.
LEMMA AddTaskUndoKeepsCount ==
    ASSUME TypeOK, RingsOK, CountOK, ThreadsOK, AddTaskUndo
    PROVE  RingsOK' /\ CountOK'
<1> DEFINE slot == Advance(workQueue.add, QueueSize - 1)
<1>1. ~IsEmpty(workQueue) /\ slot \in TaskSlots(workQueue)
  BY MaxThreadsAssumption DEF AddTaskUndo, ThreadsOK, Running, Workers, TypeOK
<1>2. /\ workQueue' = UndoAdd(workQueue)
      /\ UNCHANGED <<cleanupQueue, workerPc, workerInfo, activeTaskCount>>
      /\ pc = "startWorkers" /\ pc' = "idle"  BY <1>1 DEF AddTaskUndo, RunDirectly, workerVars
<1>3. /\ RingOK(workQueue')
      /\ TaskSlots(workQueue') = TaskSlots(workQueue) \ {slot}  BY <1>1, <1>2, UndoAddOK DEF RingsOK
<1> HIDE DEF slot
<1>4. Cardinality(TaskSlots(workQueue')) = Cardinality(TaskSlots(workQueue)) - 1
  BY <1>1, <1>3, TaskSlotsFinite, FS_RemoveElement
<1>5. BusyWorkers' = BusyWorkers  BY <1>2 DEF BusyWorkers
<1>6. CountOK'
  BY <1>2, <1>4, <1>5, TaskSlotsFinite, WorkersFinite, QueueSizeAssumption DEF CountOK, ActiveTaskCountExact,
     Outstanding, TypeOK
<1> QED  BY <1>6, <1>2, <1>3, <1>5 DEF RingsOK

\* The end marker is no task.
LEMMA WaitAddEndKeepsCount ==
    ASSUME TypeOK, RingsOK, CountOK, WaitAddEnd
    PROVE  RingsOK' /\ CountOK'
<1>1. RingOK(workQueue') /\ TaskSlots(workQueue') = TaskSlots(workQueue)
  BY InfoTypes, AddOK DEF WaitAddEnd, RingsOK, EndInfo
<1> QED  BY <1>1 DEF RingsOK, CountOK, ActiveTaskCountExact, BusyWorkers, Outstanding, WaitAddEnd, workerVars

\* The reset finds the rings without tasks, as it insists that none is active.
LEMMA WaitResetKeepsCount ==
    ASSUME TypeOK, RingsOK, CountOK, WaitReset
    PROVE  RingsOK' /\ CountOK'
<1>1. /\ UNCHANGED <<workerPc, workerInfo, activeTaskCount>>
      /\ pc = "finalCleanups" /\ pc' # "startWorkers"  BY DEF WaitReset, workerVars
<1>2. BusyWorkers' = BusyWorkers /\ Outstanding' = Outstanding  BY <1>1 DEF BusyWorkers, Outstanding
<1>3. CASE UNCHANGED <<workQueue, cleanupQueue>>  BY <1>1, <1>2, <1>3 DEF RingsOK, CountOK, ActiveTaskCountExact
<1>4. CASE /\ workQueue' = EmptyQueue /\ cleanupQueue' = EmptyQueue
           /\ activeTaskCount = 0
  <2>1. Outstanding = 0  BY <1>1, <1>4 DEF Outstanding
  <2>2. RingsOK'  BY <1>1, <1>2, <1>4, EmptyQueueOK DEF RingsOK, EmptyQueue, EmptyInfo
  <2>3. /\ Cardinality(TaskSlots(workQueue')) = 0
        /\ Cardinality(TaskSlots(cleanupQueue')) = 0  BY <1>4, EmptyQueueOK, FS_EmptySet
  <2> QED
    BY <1>2, <2>1, <2>2, <2>3, QueueSizeAssumption, TaskSlotsFinite, WorkersFinite DEF CountOK, ActiveTaskCountExact
<1> QED  BY <1>3, <1>4 DEF WaitReset

\* A worker takes a task out of the work queue, meets the end or finds nothing.
LEMMA WorkerFetchKeepsCount ==
    ASSUME TypeOK, RingsOK, CountOK, NEW w \in Workers, WorkerFetch(w)
    PROVE  RingsOK' /\ CountOK'
<1> DEFINE info == Front(workQueue)
           slot == workQueue.fetch
<1>1. /\ workerPc[w] = "fetch" /\ w \notin BusyWorkers
      /\ UNCHANGED cleanupQueue
      /\ Outstanding' = Outstanding  BY DEF WorkerFetch, BusyWorkers, Outstanding, clientVars
<1>2. CASE IsEmpty(workQueue)
  BY <1>1, <1>2 DEF WorkerFetch, BusyWorkers, TypeOK, RingsOK, CountOK, ActiveTaskCountExact
<1>3. CASE ~IsEmpty(workQueue) /\ info.state = "END_QUEUE"
  BY <1>3, <1>1 DEF WorkerFetch, Fetch, BusyWorkers, TypeOK, RingsOK, CountOK, ActiveTaskCountExact
<1>4. CASE ~IsEmpty(workQueue) /\ info.state # "END_QUEUE"
  <2>1. /\ workQueue' = Fetch(workQueue)
        /\ workerPc' = [workerPc EXCEPT ![w] = "busy"]
        /\ workerInfo' = [workerInfo EXCEPT ![w] = [info EXCEPT !.state = "IN_PROGRESS"]]  BY <1>4 DEF WorkerFetch
  <2>2. /\ RingOK(workQueue')
        /\ info \in Infos /\ info.task \in Tasks
        /\ slot \in TaskSlots(workQueue)
        /\ TaskSlots(workQueue') = TaskSlots(workQueue) \ {slot}  BY <1>4, <2>1, FetchOK DEF RingsOK
  <2> HIDE DEF info, slot
  <2>3. Cardinality(TaskSlots(workQueue')) = Cardinality(TaskSlots(workQueue)) - 1
    BY <2>2, TaskSlotsFinite, FS_RemoveElement
  <2>4. BusyWorkers' = BusyWorkers \cup {w}  BY <2>1 DEF BusyWorkers, TypeOK
  <2>5. Cardinality(BusyWorkers') = Cardinality(BusyWorkers) + 1  BY <1>1, <2>4, WorkersFinite, FS_AddElement
  <2>6. CountOK'  BY <1>1, <2>3, <2>5, TaskSlotsFinite, WorkersFinite DEF CountOK, ActiveTaskCountExact
  <2> QED  BY <2>6, <1>1, <2>2, <2>4, <2>1 DEF RingsOK, TypeOK, Infos, BusyWorkers
<1> QED  BY <1>2, <1>3, <1>4

\* A worker hands its task to the client; there is room for it.
LEMMA WorkerProcessKeepsCount ==
    ASSUME TypeOK, RingsOK, CountOK, NEW w \in Workers, WorkerProcess(w)
    PROVE  RingsOK' /\ CountOK'
<1>1. w \in BusyWorkers /\ UNCHANGED <<workQueue, activeTaskCount>>  BY DEF WorkerProcess, BusyWorkers
<1>2. PICK error \in BOOLEAN :
         LET info == [workerInfo[w] EXCEPT !.error = error]
         IN  /\ workerInfo' = [workerInfo EXCEPT ![w] = info]
             /\ IF IsFull(cleanupQueue, info)
                THEN pc' = "aborted" /\ UNCHANGED <<cleanupQueue, workerPc>>
                ELSE /\ cleanupQueue' = Add(cleanupQueue, info)
                     /\ workerPc' = [workerPc EXCEPT ![w] = "fetch"]
                     /\ UNCHANGED pc  BY DEF WorkerProcess
<1> DEFINE info == [workerInfo[w] EXCEPT !.error = error]
           slot == cleanupQueue.add
<1>3. info \in Infos /\ info.task \in Tasks /\ info.state = "IN_PROGRESS"  BY <1>1 DEF TypeOK, RingsOK, Infos
<1>4. ~IsFull(cleanupQueue, info) /\ info.task # NoTask  BY <1>1, <1>3, BusyWorkerHasRoom, NoTaskAssumption
<1>5. /\ workerInfo' = [workerInfo EXCEPT ![w] = info]
      /\ cleanupQueue' = Add(cleanupQueue, info)
      /\ workerPc' = [workerPc EXCEPT ![w] = "fetch"]
      /\ UNCHANGED pc  BY <1>2, <1>4
<1> HIDE DEF info
<1>6. /\ RingOK(cleanupQueue')
      /\ slot \notin TaskSlots(cleanupQueue)
      /\ TaskSlots(cleanupQueue') = TaskSlots(cleanupQueue) \cup {slot}  BY <1>3, <1>4, <1>5, AddOK DEF RingsOK
<1>7. \A i \in Indices : cleanupQueue'.slots[i].state # "END_QUEUE"  BY <1>3, <1>5 DEF TypeOK, Queues, RingsOK, Add
<1> HIDE DEF slot
<1>8. Cardinality(TaskSlots(cleanupQueue')) = Cardinality(TaskSlots(cleanupQueue)) + 1
  BY <1>6, TaskSlotsFinite, FS_AddElement
<1>9. BusyWorkers' = BusyWorkers \ {w}  BY <1>5 DEF BusyWorkers, TypeOK
<1>10. Cardinality(BusyWorkers') = Cardinality(BusyWorkers) - 1  BY <1>1, <1>9, WorkersFinite, FS_RemoveElement
<1>11. CountOK'
  BY <1>1, <1>8, <1>10, TaskSlotsFinite, WorkersFinite, <1>5 DEF CountOK, ActiveTaskCountExact, Outstanding
<1> QED  BY <1>11, <1>1, <1>6, <1>7, <1>9, <1>5 DEF RingsOK, TypeOK, BusyWorkers

\* The thread count and the workers that run.

\* An added task is the last item of its ring.
LEMMA AddedIsLast ==
    ASSUME NEW q, RingOK(q), NEW t \in Tasks, ~IsFull(q, ReadyInfo(t))
    PROVE  LET r == Add(q, ReadyInfo(t))
           IN  ~IsEmpty(r) /\ Advance(r.add, QueueSize - 1) \in TaskSlots(r)
<1> DEFINE r == Add(q, ReadyInfo(t))
           next == Advance(q.add, 1)
<1>1. q.add \in Indices /\ q.slots \in [Indices -> Infos]  BY DEF RingOK, Queues
<1>2. next = IF q.add + 1 < QueueSize THEN q.add + 1 ELSE 0  BY <1>1, AdvanceCases, QueueSizeAssumption DEF Indices
<1>3. next \in Indices /\ next # q.fetch  BY <1>1, <1>2, QueueSizeAssumption DEF Indices, IsFull
<1>4. Advance(next, QueueSize - 1) = q.add
  <2>1. Advance(next, QueueSize - 1) =
          IF next + (QueueSize - 1) < QueueSize
          THEN next + (QueueSize - 1) ELSE next + (QueueSize - 1) - QueueSize
    BY <1>3, AdvanceCases, QueueSizeAssumption
  <2> QED  BY <1>1, <1>2, <2>1, QueueSizeAssumption DEF Indices
<1>5. r.add = next /\ r.fetch = q.fetch /\ r.slots[q.add].task = t  BY <1>1 DEF Add, ReadyInfo, RingOK, Queues
<1> QED  BY <1>1, <1>3, <1>4, <1>5, NoTaskAssumption DEF IsEmpty, TaskSlots

\* What the workers do leaves the set of running workers alone, and only a
\* running worker fetches.
LEMMA WorkerStepsKeepThreads ==
    ASSUME TypeOK, ThreadsOK, NEW w \in Workers,
           WorkerFetch(w) \/ WorkerCheckState(w) \/ WorkerProcess(w) \/ SpuriousWakeup(w)
    PROVE  ThreadsOK'
<1>1. w \in Running /\ Running' = Running
  BY DEF WorkerFetch, WorkerCheckState, WorkerProcess, SpuriousWakeup, Running, IsRunning, TypeOK
<1>2. /\ UNCHANGED <<threadCount, isValidated, adding, nextWorker, anyRunning, caller>>
      /\ pc' = pc \/ pc' = "aborted"
  BY DEF WorkerFetch, WorkerCheckState, WorkerProcess, SpuriousWakeup, clientVars, handleVars
<1> QED  BY <1>1, <1>2 DEF ThreadsOK, WaitPcs

LEMMA CallStepsKeepThreads ==
    ASSUME TypeOK, RingsOK, ThreadsOK, CallStep
    PROVE  ThreadsOK'
<1> USE DEF loaderVars, workerVars, clientVars, handleVars, history, WaitPcs
<1>1. CASE RunCleanup  BY <1>1 DEF RunCleanup, Running, IsRunning, ThreadsOK
<1>2. CASE AddTaskRefused  BY <1>2 DEF AddTaskRefused, RunDirectly, Running, IsRunning, ThreadsOK
<1>3. CASE AddTaskEnqueue
  <2>1. ~IsEmpty(workQueue') /\ Advance(workQueue'.add, QueueSize - 1) \in TaskSlots(workQueue')
    BY <1>3, AddedIsLast DEF AddTaskEnqueue, HasRoom, RingsOK, ThreadsOK
  <2> QED  BY <1>3, <2>1, MaxThreadsAssumption DEF ThreadsOK, AddTaskEnqueue, Running, IsRunning, Workers, TypeOK
<1>4. CASE StartWorker
  <2>1. /\ nextWorker \in Int /\ threadCount \in Int /\ nextWorker < threadCount
        /\ nextWorker \in Workers  BY <1>4, MaxThreadsAssumption DEF StartWorker, TypeOK, Workers
  <2>2. /\ Running' \in {Running, Running \cup {nextWorker}}
        /\ anyRunning' \in BOOLEAN
        /\ ~anyRunning' => Running' = Running /\ ~anyRunning /\ nextWorker \notin Running
    <3>1. CASE UNCHANGED workerPc /\ anyRunning' = TRUE  BY <3>1 DEF Running, IsRunning
    <3>2. CASE /\ anyRunning' = TRUE
               /\ workerPc' = [workerPc EXCEPT ![nextWorker] = "fetch"]  BY <2>1, <3>2 DEF Running, IsRunning, TypeOK
    <3>3. CASE ~IsRunning(nextWorker) /\ UNCHANGED <<anyRunning, workerPc>>  BY <3>3 DEF Running, IsRunning, TypeOK
    <3> QED  BY <1>4, <3>1, <3>2, <3>3 DEF StartWorker
  <2>3. Running' = {} => Running = {}  BY <2>2
  <2> QED  BY <2>3, <2>1, <2>2, MaxThreadsAssumption, <1>4 DEF ThreadsOK, Running, Workers, StartWorker
<1>5. CASE AddTaskUndo  BY <1>5 DEF AddTaskUndo, Running, IsRunning, ThreadsOK, RunDirectly
<1>6. CASE AddTaskSignal  BY <1>6 DEF AddTaskSignal, WakeAll, Running, IsRunning, ThreadsOK
<1>7. CASE WaitAddEnd  BY <1>7 DEF WaitAddEnd, Running, IsRunning, ThreadsOK
<1>8. CASE WaitSignal  BY <1>8 DEF WaitSignal, WakeAll, Running, IsRunning, ThreadsOK
<1>9. CASE WaitJoin  BY <1>9 DEF WaitJoin, Running, IsRunning, TypeOK, ThreadsOK
<1>10. CASE WaitJoined \/ WaitCleaned  BY <1>10 DEF WaitJoined, WaitCleaned, Running, IsRunning, ThreadsOK
<1>11. CASE WaitReturn  BY <1>11 DEF WaitReturn, Running, IsRunning, ThreadsOK, TypeOK, Callers
<1>12. CASE WaitReset  BY <1>12 DEF WaitReset, Running, IsRunning, ThreadsOK
<1> QED  BY <1>1, <1>2, <1>3, <1>4, <1>5, <1>6, <1>7, <1>8, <1>9, <1>10, <1>11, <1>12 DEF CallStep

\* A set_data call that succeeds takes the validation back before a worker
\* can start.
LEMMA ClientStepsKeepThreads ==
    ASSUME "set_data" \notin Failures, TypeOK, ThreadsOK,
           \/ \E t \in Tasks : AddTaskNoThreads(t) \/ AddTask(t)
           \/ AddDelayedTask \/ AddDelayedTaskFails
           \/ ValidateRejects \/ Validate \/ DeleteHandle
           \/ \E count \in 1 .. MaxThreads : SetThreadCount(count)
           \/ UNCHANGED vars
    PROVE  ThreadsOK'
<1> USE DEF loaderVars, workerVars, clientVars, handleVars, history, WaitPcs
<1>1. ASSUME NEW t \in Tasks, AddTaskNoThreads(t) PROVE ThreadsOK'
  BY <1>1 DEF AddTaskNoThreads, RunDirectly, Running, IsRunning, ThreadsOK, SetData
<1>2. ASSUME NEW t \in Tasks, AddTask(t) PROVE ThreadsOK'  BY <1>2 DEF AddTask, Running, IsRunning, ThreadsOK, SetData
<1>3. CASE AddDelayedTask \/ AddDelayedTaskFails
  BY <1>3 DEF AddDelayedTask, AddDelayedTaskFails, BeginWait, Running, IsRunning, ThreadsOK, SetData
<1>4. CASE ValidateRejects \/ Validate \/ DeleteHandle
  BY <1>4 DEF ValidateRejects, Validate, DeleteHandle, BeginWait, Running, IsRunning, ThreadsOK
<1>5. ASSUME NEW count \in 1 .. MaxThreads, SetThreadCount(count) PROVE ThreadsOK'
  BY <1>5 DEF SetThreadCount, ThreadsOK, Running, IsRunning
<1>6. CASE UNCHANGED vars  BY <1>6 DEF vars, Running, IsRunning, ThreadsOK
<1> QED  BY <1>1, <1>2, <1>3, <1>4, <1>5, <1>6

\* The invariant and what it implies.

LEMMA InitLoaderInv == Init => LoaderInv
<1> SUFFICES ASSUME Init PROVE LoaderInv  OBVIOUS
<1>1. BusyWorkers = {} /\ Running = {}  BY DEF Init, BusyWorkers, Running, IsRunning
<1>2. RingsOK  BY <1>1, EmptyQueueOK DEF Init, RingsOK, EmptyQueue, EmptyInfo
<1>3. CountOK
  BY <1>1, EmptyQueueOK, FS_EmptySet, QueueSizeAssumption DEF Init, CountOK, ActiveTaskCountExact, Outstanding
<1> QED  BY <1>2, <1>3, InitTypeOK, <1>1 DEF LoaderInv, Init, ThreadsOK, WaitPcs

LEMMA NextLoaderInv ==
    ASSUME "set_data" \notin Failures, LoaderInv, [Next]_vars
    PROVE  LoaderInv'
<1> USE DEF LoaderInv
<1>1. RingsOK' /\ CountOK'
  BY NextCases, QuietStepsKeepCount, RunCleanupKeepsCount, AddTaskEnqueueKeepsCount, AddTaskUndoKeepsCount,
     WaitAddEndKeepsCount, WaitResetKeepsCount, WorkerFetchKeepsCount, WorkerProcessKeepsCount
<1> QED
  BY <1>1, NextTypeOK, WorkerStepsKeepThreads, CallStepsKeepThreads, ClientStepsKeepThreads DEF Next, WorkerStep,
     Finished

\* The loader's bookkeeping holds in every state, whichever threads fail to
\* start and whichever delayed task finds no memory.
THEOREM LoaderInvariant ==
    ASSUME "set_data" \notin Failures
    PROVE  Spec => []LoaderInv
<1>1. LoaderInv /\ [Next]_vars => LoaderInv'  BY NextLoaderInv
<1> QED  BY <1>1, InitLoaderInv, PTL DEF Spec

\* active_task_count is the number of outstanding tasks.
THEOREM ActiveTaskCountIsExact ==
    ASSUME "set_data" \notin Failures
    PROVE  Spec => []ActiveTaskCountExact
<1>1. LoaderInv => ActiveTaskCountExact  BY DEF LoaderInv, CountOK
<1> QED  BY <1>1, LoaderInvariant, PTL

\* The assertion of Background_loader_add_cleanup_task_info never fails.
THEOREM CleanupQueueHasRoom ==
    ASSUME "set_data" \notin Failures
    PROVE  Spec => []CleanupHasRoom
<1>1. LoaderInv => CleanupHasRoom
  <2> SUFFICES ASSUME LoaderInv, NEW w \in BusyWorkers
               PROVE  ~IsFull(cleanupQueue, workerInfo[w])  BY DEF CleanupHasRoom
  <2> QED  BY BusyWorkerHasRoom DEF LoaderInv, TypeOK, BusyWorkers
<1> QED  BY <1>1, LoaderInvariant, PTL

\* A task that is taken back has been seen by no worker.
THEOREM TakenBackUnseen ==
    ASSUME "set_data" \notin Failures
    PROVE  Spec => []UndoneTaskHasNoWorker
<1>1. LoaderInv => UndoneTaskHasNoWorker
  <2> SUFFICES ASSUME LoaderInv, pc = "startWorkers", nextWorker = threadCount,
                      ~anyRunning, NEW w \in Workers, IsRunning(w)
               PROVE  FALSE  BY DEF UndoneTaskHasNoWorker
  <2> QED  BY MaxThreadsAssumption DEF LoaderInv, TypeOK, Workers, ThreadsOK, Running
<1> QED  BY <1>1, LoaderInvariant, PTL

\* What becomes of a task: it waits in the work queue, a worker processes
\* it, it lies in the cleanup queue, and it is gone.

LastSlot(q) == Advance(q.add, QueueSize - 1)

\* No two slots of a ring hold the same task.
ApartIn(q) == \A i, j \in TaskSlots(q) : q.slots[i].task = q.slots[j].task => i = j

\* A task is in one place only, and its history says in which.  The task a
\* call offers is in none, and the one a call may take back is the last item
\* of the work queue.
StagesOK ==
    /\ EachTaskOnce
    /\ ApartIn(workQueue) /\ ApartIn(cleanupQueue)
    /\ \A v, w \in BusyWorkers : workerInfo[v].task = workerInfo[w].task => v = w
    /\ \A i \in TaskSlots(workQueue) : runs[workQueue.slots[i].task] = 0
    /\ \A w \in BusyWorkers :
          /\ runs[workerInfo[w].task] = 0
          /\ \A i \in TaskSlots(workQueue) : workQueue.slots[i].task # workerInfo[w].task
    /\ \A i \in TaskSlots(cleanupQueue) :
          runs[cleanupQueue.slots[i].task] = 1 /\ cleaned[cleanupQueue.slots[i].task] = 0
    /\ pc = "addCleanups" => IsFresh(adding)
    /\ pc = "startWorkers" /\ Running = {} => workQueue.slots[LastSlot(workQueue)].task = adding

\* What adding, taking back and fetching do to the slots.
LEMMA SlotsOfAdd ==
    ASSUME NEW q, RingOK(q), NEW info \in Infos, ~IsFull(q, info)
    PROVE  /\ q.add \in Indices
           /\ LastSlot(Add(q, info)) = q.add
           /\ \A i \in Indices :
                 Add(q, info).slots[i] = IF i = q.add THEN info ELSE q.slots[i]
<1> DEFINE next == Advance(q.add, 1)
<1>1. q.add \in Indices /\ q.slots \in [Indices -> Infos]  BY DEF RingOK, Queues
<1>2. next = IF q.add + 1 < QueueSize THEN q.add + 1 ELSE 0  BY <1>1, AdvanceCases, QueueSizeAssumption DEF Indices
<1>3. next \in Indices  BY <1>1, <1>2, QueueSizeAssumption DEF Indices
<1>4. QueueSize - 1 \in 0 .. QueueSize  BY QueueSizeAssumption
<1>5. Advance(next, QueueSize - 1) =
        IF next + (QueueSize - 1) < QueueSize
        THEN next + (QueueSize - 1) ELSE next + (QueueSize - 1) - QueueSize  BY <1>3, <1>4, AdvanceCases
<1>6. Advance(next, QueueSize - 1) = q.add  BY <1>1, <1>2, <1>5, QueueSizeAssumption DEF Indices
<1>7. /\ Add(q, info).add = next
      /\ Add(q, info).slots = [q.slots EXCEPT ![q.add] = info]  BY DEF Add, RingOK, Queues
<1> QED  BY <1>1, <1>6, <1>7 DEF LastSlot

LEMMA SlotsOfFetch ==
    ASSUME NEW q, RingOK(q), Front(q).state # "END_QUEUE"
    PROVE  /\ q.fetch \in Indices /\ Fetch(q).add = q.add
           /\ \A i \in Indices :
                 Fetch(q).slots[i] = IF i = q.fetch THEN EmptyInfo ELSE q.slots[i]
BY DEF RingOK, Queues, Fetch

LEMMA SlotsOfUndo ==
    ASSUME NEW q, RingOK(q)
    PROVE  \A i \in Indices :
              UndoAdd(q).slots[i] = IF i = LastSlot(q) THEN EmptyInfo ELSE q.slots[i]
BY DEF RingOK, Queues, UndoAdd, LastSlot

\* The client runs a task that is nowhere else.
LEMMA RunDirectlyKeepsStages ==
    ASSUME TypeOK, RingsOK, StagesOK, NEW t \in Tasks, RunDirectly(t), runs[t] = 0,
           RingsOK', TaskSlots(workQueue') \subseteq TaskSlots(workQueue),
           \A i \in TaskSlots(workQueue') :
              workQueue'.slots[i] = workQueue.slots[i] /\ workQueue.slots[i].task # t,
           \A w \in BusyWorkers : workerInfo[w].task # t,
           UNCHANGED <<cleanupQueue, workerPc, workerInfo>>
    PROVE  StagesOK'
BY DEF RunDirectly, StagesOK, BusyWorkers, TypeOK, EachTaskOnce, ApartIn

\* A call offers the loader a task that is nowhere.
LEMMA AddTaskKeepsStages ==
    ASSUME LoaderInv, StagesOK, NEW t \in Tasks, AddTask(t) \/ AddTaskNoThreads(t), LoaderInv'
    PROVE  StagesOK'
<1> USE DEF LoaderInv, loaderVars, workerVars, clientVars, handleVars, history
<1>1. CASE AddTask(t)  BY <1>1 DEF AddTask, BusyWorkers, IsFresh, StagesOK, EachTaskOnce, ApartIn
<1>2. CASE AddTaskNoThreads(t)  BY <1>2, RunDirectlyKeepsStages DEF AddTaskNoThreads, IsFresh, TasksOf, BusyWorkers
<1> QED  BY <1>1, <1>2

LEMMA AddTaskRefusedKeepsStages ==
    ASSUME LoaderInv, StagesOK, AddTaskRefused, LoaderInv'
    PROVE  StagesOK'
<1> USE DEF LoaderInv, loaderVars, workerVars, handleVars
<1> QED  BY RunDirectlyKeepsStages DEF AddTaskRefused, IsFresh, TasksOf, BusyWorkers, ThreadsOK, StagesOK

\* No worker runs when the loop that starts workers has ended without one.
LEMMA NobodyStarted ==
    ASSUME TypeOK, ThreadsOK, AddTaskUndo
    PROVE  Running = {} /\ BusyWorkers = {} /\ ~IsEmpty(workQueue)
<1>1. Running = {}  BY MaxThreadsAssumption DEF AddTaskUndo, ThreadsOK, Running, Workers, TypeOK
<1> QED  BY <1>1 DEF AddTaskUndo, ThreadsOK, Running, BusyWorkers, IsRunning

\* The task that is taken back is the one the client then runs.
LEMMA AddTaskUndoKeepsStages ==
    ASSUME LoaderInv, StagesOK, AddTaskUndo, LoaderInv'
    PROVE  StagesOK'
<1> USE DEF LoaderInv
<1>1. Running = {} /\ BusyWorkers = {} /\ ~IsEmpty(workQueue) /\ pc = "startWorkers"  BY NobodyStarted DEF AddTaskUndo
<1>2. /\ adding \in Tasks /\ workQueue.slots[LastSlot(workQueue)].task = adding
      /\ LastSlot(workQueue) \in TaskSlots(workQueue)  BY <1>1 DEF ThreadsOK, StagesOK, LastSlot
<1>3. /\ workQueue' = UndoAdd(workQueue) /\ RunDirectly(adding)
      /\ UNCHANGED <<cleanupQueue, workerPc, workerInfo>>  BY <1>1 DEF AddTaskUndo, workerVars
<1>4. TaskSlots(workQueue') = TaskSlots(workQueue) \ {LastSlot(workQueue)}
  BY <1>1, <1>3, UndoAddOK DEF RingsOK, LastSlot
<1>5. \A i \in TaskSlots(workQueue') :
         workQueue'.slots[i] = workQueue.slots[i] /\ workQueue.slots[i].task # adding
  BY <1>2, <1>4, <1>3, SlotsOfUndo DEF StagesOK, ApartIn, TaskSlots, RingsOK
<1> QED  BY <1>1, <1>2, <1>3, <1>4, <1>5, RunDirectlyKeepsStages DEF StagesOK

LEMMA RunCleanupKeepsStages ==
    ASSUME LoaderInv, StagesOK, RunCleanup, LoaderInv'
    PROVE  StagesOK'
<1> USE DEF LoaderInv
<1> DEFINE slot == cleanupQueue.fetch
           t == cleanupQueue.slots[slot].task
<1>1. /\ cleanupQueue' = Fetch(cleanupQueue) /\ ~IsEmpty(cleanupQueue)
      /\ cleaned' = [cleaned EXCEPT ![t] = @ + 1]
      /\ UNCHANGED <<workQueue, workerPc, workerInfo, runs, pc, adding>>
      /\ pc # "startWorkers"  BY DEF RunCleanup, workerVars, clientVars, Front
<1>2. slot \in Indices /\ Front(cleanupQueue).state # "END_QUEUE"  BY DEF TypeOK, Queues, RingsOK, Front
<1>3. /\ slot \in TaskSlots(cleanupQueue) /\ t \in Tasks
      /\ TaskSlots(cleanupQueue') = TaskSlots(cleanupQueue) \ {slot}  BY <1>1, <1>2, FetchOK DEF RingsOK, Front
<1>4. \A i \in TaskSlots(cleanupQueue') : cleanupQueue'.slots[i] = cleanupQueue.slots[i]
  BY <1>1, <1>2, <1>3, SlotsOfFetch DEF RingsOK, TaskSlots
<1>5. \A i \in TaskSlots(cleanupQueue') : cleanupQueue'.slots[i].task # t  BY <1>3, <1>4 DEF StagesOK, ApartIn
<1>6. runs[t] = 1 /\ cleaned[t] = 0  BY <1>3 DEF StagesOK
<1> HIDE DEF slot, t
<1>7. cleaned'[t] = 1 /\ \A u : u # t => cleaned'[u] = cleaned[u]  BY <1>1, <1>3, <1>6 DEF TypeOK
<1>8. BusyWorkers' = BusyWorkers /\ (IsFresh(adding)' <=> IsFresh(adding))  BY <1>1 DEF BusyWorkers, IsFresh
<1>9. \A i \in TaskSlots(cleanupQueue') :
         runs'[cleanupQueue'.slots[i].task] = 1 /\ cleaned'[cleanupQueue'.slots[i].task] = 0
  BY <1>1, <1>3, <1>4, <1>5, <1>7 DEF StagesOK
<1>10. ApartIn(cleanupQueue)'  BY <1>3, <1>4 DEF StagesOK, ApartIn
<1> QED  BY <1>1, <1>8, <1>9, <1>10, <1>6, <1>7 DEF StagesOK, ApartIn, EachTaskOnce

LEMMA AddTaskEnqueueKeepsStages ==
    ASSUME LoaderInv, StagesOK, AddTaskEnqueue, LoaderInv'
    PROVE  StagesOK'
<1> USE DEF LoaderInv
<1> DEFINE slot == workQueue.add
<1>1. /\ workQueue' = Add(workQueue, ReadyInfo(adding)) /\ ~IsFull(workQueue, ReadyInfo(adding))
      /\ pc = "addCleanups" /\ pc' = "startWorkers"
      /\ UNCHANGED <<cleanupQueue, workerPc, workerInfo, runs, cleaned, adding>>
  BY DEF AddTaskEnqueue, HasRoom, workerVars, history
<1>2. adding \in Tasks /\ adding # NoTask /\ IsFresh(adding)  BY <1>1, NoTaskAssumption DEF ThreadsOK, StagesOK
<1>3. ReadyInfo(adding) \in Infos /\ ReadyInfo(adding).task = adding  BY <1>2, InfoTypes DEF ReadyInfo
<1>4. /\ slot \in Indices /\ LastSlot(workQueue') = slot
      /\ \A i \in Indices :
            workQueue'.slots[i] = IF i = slot THEN ReadyInfo(adding) ELSE workQueue.slots[i]
  BY <1>1, <1>3, SlotsOfAdd DEF RingsOK
<1>5. slot \notin TaskSlots(workQueue) /\ TaskSlots(workQueue') = TaskSlots(workQueue) \cup {slot}
  BY <1>1, <1>2, <1>3, AddOK DEF RingsOK, ReadyInfo
<1> HIDE DEF slot
<1>6. /\ workQueue'.slots[slot].task = adding
      /\ \A i \in TaskSlots(workQueue) :
            i # slot /\ workQueue'.slots[i] = workQueue.slots[i]  BY <1>3, <1>4, <1>5 DEF TaskSlots
<1>7. /\ runs[adding] = 0
      /\ \A i \in TaskSlots(workQueue) : workQueue.slots[i].task # adding
      /\ \A w \in BusyWorkers : workerInfo[w].task # adding  BY <1>2 DEF IsFresh, TasksOf, BusyWorkers
<1>8. BusyWorkers' = BusyWorkers  BY <1>1 DEF BusyWorkers
<1>9. ApartIn(workQueue)'  BY <1>5, <1>6, <1>7 DEF StagesOK, ApartIn
<1>10. \A i \in TaskSlots(workQueue') : runs'[workQueue'.slots[i].task] = 0  BY <1>1, <1>5, <1>6, <1>7 DEF StagesOK
<1>11. \A w \in BusyWorkers' :
          /\ runs'[workerInfo'[w].task] = 0
          /\ \A i \in TaskSlots(workQueue') : workQueue'.slots[i].task # workerInfo'[w].task
  BY <1>1, <1>5, <1>6, <1>7, <1>8 DEF StagesOK
<1> QED  BY <1>1, <1>4, <1>6, <1>8, <1>9, <1>10, <1>11 DEF StagesOK, ApartIn, EachTaskOnce

LEMMA WorkerFetchKeepsStages ==
    ASSUME LoaderInv, StagesOK, NEW w \in Workers, WorkerFetch(w), LoaderInv'
    PROVE  StagesOK'
<1> USE DEF LoaderInv
<1>1. /\ workerPc[w] = "fetch" /\ w \notin BusyWorkers /\ w \in Running
      /\ UNCHANGED <<cleanupQueue, runs, cleaned, pc, adding>>
  BY DEF WorkerFetch, BusyWorkers, Running, IsRunning, clientVars, history
<1>2. w \in Running'  BY <1>1 DEF WorkerFetch, Running, IsRunning, TypeOK
<1>3. CASE IsEmpty(workQueue) \/ Front(workQueue).state = "END_QUEUE"
  <2>1. workQueue' = workQueue  BY <1>3 DEF WorkerFetch, Fetch
  <2>2. BusyWorkers' = BusyWorkers /\ \A v \in BusyWorkers : workerInfo'[v] = workerInfo[v]
    BY <1>1, <1>3 DEF WorkerFetch, BusyWorkers, TypeOK
  <2> QED  BY <1>1, <1>2, <2>1, <2>2 DEF StagesOK, ApartIn, EachTaskOnce, IsFresh, BusyWorkers
<1>4. CASE ~IsEmpty(workQueue) /\ Front(workQueue).state # "END_QUEUE"
  <2> DEFINE slot == workQueue.fetch
             t == workQueue.slots[slot].task
  <2>1. /\ workQueue' = Fetch(workQueue)
        /\ workerPc' = [workerPc EXCEPT ![w] = "busy"]
        /\ workerInfo' =
              [workerInfo EXCEPT ![w] = [Front(workQueue) EXCEPT !.state = "IN_PROGRESS"]]  BY <1>4 DEF WorkerFetch
  <2>2. /\ slot \in TaskSlots(workQueue) /\ t \in Tasks /\ Front(workQueue) \in Infos
        /\ TaskSlots(workQueue') = TaskSlots(workQueue) \ {slot}  BY <1>4, <2>1, FetchOK DEF RingsOK, Front
  <2>3. \A i \in TaskSlots(workQueue') : workQueue'.slots[i] = workQueue.slots[i]
    BY <1>4, <2>1, <2>2, SlotsOfFetch DEF RingsOK, TaskSlots
  <2>4. BusyWorkers' = BusyWorkers \cup {w}  BY <2>1 DEF BusyWorkers, TypeOK
  <2>5. workerInfo'[w].task = t /\ \A v \in BusyWorkers : workerInfo'[v] = workerInfo[v]
    BY <1>1, <2>1, <2>2 DEF TypeOK, Infos, BusyWorkers, Front
  <2>6. \A i \in TaskSlots(workQueue') : workQueue'.slots[i].task # t  BY <2>2, <2>3 DEF StagesOK, ApartIn
  <2>7. runs[t] = 0 /\ \A v \in BusyWorkers : workerInfo[v].task # t  BY <2>2 DEF StagesOK
  <2>8. pc = "addCleanups" => IsFresh(adding)'
    BY <2>2, <2>3, <2>4, <2>5, <1>1 DEF StagesOK, IsFresh, TasksOf, BusyWorkers
  <2> HIDE DEF slot, t
  <2>9. ApartIn(workQueue)'  BY <2>2, <2>3 DEF StagesOK, ApartIn
  <2>10. \A u, v \in BusyWorkers' : workerInfo'[u].task = workerInfo'[v].task => u = v
    BY <2>4, <2>5, <2>7 DEF StagesOK
  <2>11. \A v \in BusyWorkers' :
            /\ runs'[workerInfo'[v].task] = 0
            /\ \A i \in TaskSlots(workQueue') : workQueue'.slots[i].task # workerInfo'[v].task
    BY <1>1, <2>2, <2>3, <2>4, <2>5, <2>6, <2>7 DEF StagesOK
  <2> QED  BY <1>1, <1>2, <2>2, <2>3, <2>8, <2>9, <2>10, <2>11 DEF StagesOK, ApartIn, EachTaskOnce
<1> QED  BY <1>3, <1>4

LEMMA ProcessedTask ==
    ASSUME LoaderInv, NEW w \in Workers, WorkerProcess(w)
    PROVE  LET t == workerInfo[w].task
           IN  /\ w \in BusyWorkers /\ t \in Tasks /\ t # NoTask
               /\ runs' = [runs EXCEPT ![t] = @ + 1]
               /\ \E error \in BOOLEAN :
                     /\ failed' = IF error THEN failed \cup {t} ELSE failed
                     /\ cleanupQueue'.slots[cleanupQueue.add].task = t
                     /\ cleanupQueue'.slots[cleanupQueue.add].error = error
               /\ cleanupQueue.add \notin TaskSlots(cleanupQueue)
               /\ TaskSlots(cleanupQueue') = TaskSlots(cleanupQueue) \cup {cleanupQueue.add}
               /\ \A i \in TaskSlots(cleanupQueue) : cleanupQueue'.slots[i] = cleanupQueue.slots[i]
               /\ BusyWorkers' = BusyWorkers \ {w} /\ Running' = Running
               /\ \A v \in Workers : v # w =>
                     workerPc'[v] = workerPc[v] /\ workerInfo'[v] = workerInfo[v]
               /\ workerPc'[w] = "fetch"
               /\ UNCHANGED <<workQueue, activeTaskCount, firstError, pc, caller, adding,
                              nextWorker, anyRunning, isValidated, threadCount, cleaned>>
<1> USE DEF LoaderInv
<1>1. /\ w \in BusyWorkers
      /\ UNCHANGED <<workQueue, activeTaskCount, firstError, caller, adding, nextWorker,
                     anyRunning, isValidated, threadCount, cleaned>>  BY DEF WorkerProcess, BusyWorkers, handleVars
<1>2. PICK error \in BOOLEAN :
         LET info == [workerInfo[w] EXCEPT !.error = error]
         IN  /\ runs' = [runs EXCEPT ![info.task] = @ + 1]
             /\ failed' = IF error THEN failed \cup {info.task} ELSE failed
             /\ workerInfo' = [workerInfo EXCEPT ![w] = info]
             /\ IF IsFull(cleanupQueue, info)
                THEN pc' = "aborted" /\ UNCHANGED <<cleanupQueue, workerPc>>
                ELSE /\ cleanupQueue' = Add(cleanupQueue, info)
                     /\ workerPc' = [workerPc EXCEPT ![w] = "fetch"]
                     /\ UNCHANGED pc  BY DEF WorkerProcess
<1> DEFINE info == [workerInfo[w] EXCEPT !.error = error]
           t == workerInfo[w].task
<1>3. /\ info \in Infos /\ info.task = t /\ info.error = error /\ info.state = "IN_PROGRESS"
      /\ t \in Tasks /\ t # NoTask  BY <1>1, NoTaskAssumption DEF TypeOK, RingsOK, Infos
<1>4. ~IsFull(cleanupQueue, info)  BY <1>1, <1>3, BusyWorkerHasRoom
<1>5. /\ runs' = [runs EXCEPT ![t] = @ + 1]
      /\ failed' = IF error THEN failed \cup {t} ELSE failed
      /\ workerInfo' = [workerInfo EXCEPT ![w] = info]
      /\ cleanupQueue' = Add(cleanupQueue, info)
      /\ workerPc' = [workerPc EXCEPT ![w] = "fetch"]
      /\ UNCHANGED pc  BY <1>2, <1>3, <1>4
<1> HIDE DEF info
<1>6. /\ BusyWorkers' = BusyWorkers \ {w} /\ Running' = Running
      /\ workerPc'[w] = "fetch"
      /\ \A v \in Workers : v # w =>
            workerPc'[v] = workerPc[v] /\ workerInfo'[v] = workerInfo[v]
  BY <1>1, <1>5 DEF TypeOK, BusyWorkers, Running, IsRunning
<1> QED  BY <1>1, <1>3, <1>5, <1>6, <1>4, AddOK, SlotsOfAdd DEF TaskSlots, RingsOK

LEMMA WorkerProcessKeepsStages ==
    ASSUME LoaderInv, StagesOK, NEW w \in Workers, WorkerProcess(w), LoaderInv'
    PROVE  StagesOK'
<1> DEFINE t == workerInfo[w].task
           slot == cleanupQueue.add
<1>1. /\ w \in BusyWorkers /\ t \in Tasks
      /\ runs' = [runs EXCEPT ![t] = @ + 1]
      /\ cleanupQueue'.slots[slot].task = t
      /\ slot \notin TaskSlots(cleanupQueue)
      /\ TaskSlots(cleanupQueue') = TaskSlots(cleanupQueue) \cup {slot}
      /\ \A i \in TaskSlots(cleanupQueue) : cleanupQueue'.slots[i] = cleanupQueue.slots[i]
      /\ BusyWorkers' = BusyWorkers \ {w} /\ Running' = Running
      /\ \A v \in BusyWorkers' : workerInfo'[v] = workerInfo[v]
      /\ UNCHANGED <<workQueue, pc, adding, cleaned>>  BY ProcessedTask DEF BusyWorkers
<1>2. /\ runs[t] = 0
      /\ \A v \in BusyWorkers' : workerInfo'[v].task # t
      /\ \A i \in TaskSlots(workQueue) : workQueue.slots[i].task # t
      /\ \A i \in TaskSlots(cleanupQueue) : cleanupQueue.slots[i].task # t  BY <1>1 DEF StagesOK
<1>3. pc = "addCleanups" => IsFresh(adding)'  BY <1>1 DEF BusyWorkers, StagesOK, IsFresh, LoaderInv, TypeOK
<1> HIDE DEF t, slot
<1>4. runs'[t] = 1 /\ cleaned[t] = 0 /\ \A u : u # t => runs'[u] = runs[u]
  BY <1>1, <1>2 DEF LoaderInv, TypeOK, StagesOK, EachTaskOnce
<1>5. \A v \in BusyWorkers' :
         /\ runs'[workerInfo'[v].task] = 0
         /\ \A i \in TaskSlots(workQueue') : workQueue'.slots[i].task # workerInfo'[v].task
  BY <1>1, <1>2, <1>4 DEF StagesOK
<1> QED  BY <1>1, <1>3, <1>5, <1>4, <1>2 DEF StagesOK, EachTaskOnce, ApartIn

\* The steps that move no task.
OtherStep ==
    \/ AddDelayedTask \/ AddDelayedTaskFails
    \/ ValidateRejects \/ Validate \/ DeleteHandle
    \/ \E count \in 1 .. MaxThreads : SetThreadCount(count)
    \/ StartWorker \/ AddTaskSignal
    \/ WaitSignal \/ WaitJoin \/ WaitJoined \/ WaitCleaned \/ WaitReturn
    \/ \E w \in Workers : WorkerCheckState(w) \/ SpuriousWakeup(w)
    \/ UNCHANGED vars

LEMMA StepCases ==
    ASSUME [Next]_vars
    PROVE  \/ OtherStep
           \/ \E t \in Tasks : AddTaskNoThreads(t) \/ AddTask(t)
           \/ RunCleanup \/ AddTaskRefused \/ AddTaskEnqueue \/ AddTaskUndo
           \/ WaitAddEnd \/ WaitReset
           \/ \E w \in Workers : WorkerFetch(w) \/ WorkerProcess(w)
    BY DEF Next, CallStep, WorkerStep, Finished, OtherStep

LEMMA OtherStepsMoveNothing ==
    ASSUME LoaderInv, OtherStep
    PROVE  /\ UNCHANGED <<workQueue, cleanupQueue, workerInfo, runs, cleaned, failed, firstError>>
           /\ BusyWorkers' = BusyWorkers
           /\ pc' = "addCleanups" => pc' = pc /\ adding' = adding
           /\ pc' = "startWorkers" => pc' = pc /\ adding' = adding /\ Running \subseteq Running'
<1> USE DEF loaderVars, workerVars, clientVars, handleVars, history
<1>1. CASE AddDelayedTask \/ AddDelayedTaskFails \/ ValidateRejects \/ Validate \/ DeleteHandle
  BY <1>1 DEF AddDelayedTask, AddDelayedTaskFails, ValidateRejects, Validate, DeleteHandle, BeginWait, BusyWorkers
<1>2. ASSUME NEW count \in 1 .. MaxThreads, SetThreadCount(count)
      PROVE  UNCHANGED <<workQueue, cleanupQueue, workerInfo, workerPc, runs, cleaned, failed, firstError>>
             /\ pc' = "idle"  BY <1>2 DEF SetThreadCount
<1>3. CASE StartWorker  BY <1>3 DEF StartWorker, Running, BusyWorkers, IsRunning, LoaderInv, TypeOK
<1>4. CASE AddTaskSignal \/ WaitSignal  BY <1>4 DEF AddTaskSignal, WaitSignal, WakeAll, BusyWorkers
<1>5. CASE WaitJoin  BY <1>5 DEF WaitJoin, BusyWorkers
<1>6. CASE WaitJoined \/ WaitCleaned \/ WaitReturn  BY <1>6 DEF WaitJoined, WaitCleaned, WaitReturn, BusyWorkers
<1>7. ASSUME NEW w \in Workers, WorkerCheckState(w) \/ SpuriousWakeup(w)
      PROVE  /\ UNCHANGED <<workQueue, cleanupQueue, workerInfo, runs, cleaned, failed, firstError>>
             /\ BusyWorkers' = BusyWorkers /\ Running' = Running
             /\ UNCHANGED <<pc, adding>>
  BY <1>7 DEF WorkerCheckState, SpuriousWakeup, BusyWorkers, Running, IsRunning, LoaderInv, TypeOK
<1>8. CASE UNCHANGED vars  BY <1>8 DEF vars, BusyWorkers, Running, IsRunning
<1> QED  BY <1>1, <1>2, <1>3, <1>4, <1>5, <1>6, <1>7, <1>8 DEF OtherStep, BusyWorkers

LEMMA OtherStepsKeepStages ==
    ASSUME LoaderInv, StagesOK, OtherStep, LoaderInv'
    PROVE  StagesOK'
BY OtherStepsMoveNothing DEF IsFresh, BusyWorkers, StagesOK, ApartIn, EachTaskOnce

\* The end marker carries no task, and a reset finds no task either.
LEMMA WaitsKeepStages ==
    ASSUME LoaderInv, StagesOK, WaitAddEnd \/ WaitReset, LoaderInv'
    PROVE  StagesOK'
<1>1. /\ UNCHANGED <<workerPc, workerInfo, runs, cleaned>>
      /\ pc' \notin {"addCleanups", "startWorkers"}  BY DEF WaitAddEnd, WaitReset, workerVars, history
<1>2. /\ TaskSlots(workQueue') \subseteq TaskSlots(workQueue)
      /\ \A i \in TaskSlots(workQueue') : workQueue'.slots[i] = workQueue.slots[i]
  <2>1. CASE workQueue' = workQueue  BY <2>1
  <2>2. CASE workQueue' = EmptyQueue  BY <2>2, EmptyQueueOK
  <2>3. CASE workQueue' = Add(workQueue, EndInfo) /\ ~IsFull(workQueue, EndInfo)
    <3>1. EndInfo \in Infos /\ EndInfo.task = NoTask /\ EndInfo.state = "END_QUEUE"  BY InfoTypes DEF EndInfo
    <3> QED  BY <2>3, <3>1, AddOK, SlotsOfAdd DEF TaskSlots, LoaderInv, RingsOK
  <2> QED  BY <2>1, <2>2, <2>3 DEF WaitAddEnd, WaitReset
<1> QED  BY <1>1, <1>2, EmptyQueueOK DEF StagesOK, ApartIn, EachTaskOnce, BusyWorkers, WaitAddEnd, WaitReset

\* Every task is in one place.
LEMMA NextStagesOK ==
    ASSUME "set_data" \notin Failures, LoaderInv, StagesOK, [Next]_vars
    PROVE  StagesOK'
<1>1. LoaderInv'  BY NextLoaderInv
<1> QED
  BY <1>1, StepCases, OtherStepsKeepStages, AddTaskKeepsStages, RunCleanupKeepsStages, AddTaskRefusedKeepsStages,
     AddTaskEnqueueKeepsStages, AddTaskUndoKeepsStages, WaitsKeepStages, WorkerFetchKeepsStages,
     WorkerProcessKeepsStages

LEMMA InitStagesOK == Init => StagesOK
<1> SUFFICES ASSUME Init PROVE StagesOK  OBVIOUS
<1> QED  BY EmptyQueueOK DEF StagesOK, ApartIn, Init, BusyWorkers, EachTaskOnce

\* Whatever fails to start and whichever delayed task finds no memory: a task is
\* processed at most once and cleaned up at most once, and only after that.
THEOREM TasksRunOnce ==
    ASSUME "set_data" \notin Failures
    PROVE  Spec => []EachTaskOnce
<1>1. Init => StagesOK  BY InitStagesOK
<1>2. LoaderInv /\ StagesOK /\ [Next]_vars => StagesOK'  BY NextStagesOK
<1>3. StagesOK => EachTaskOnce  BY DEF StagesOK
<1> QED  BY <1>1, <1>2, <1>3, LoaderInvariant, PTL DEF Spec

\* Waiting for the tasks.  A worker leaves when it meets the end marker,
\* which is the last item of the work queue, so whoever has joined one
\* knows that no task is left there.

BeforeEnd == {"idle", "addCleanups", "startWorkers", "addEnd", "invalid"}

EndOK ==
    /\ \A i \in Indices : workQueue.slots[i].state = "END_QUEUE" =>
          pc \notin BeforeEnd /\ i = LastSlot(workQueue)
    /\ \A w \in Workers : workerPc[w] = "exited" =>
          pc \in {"signalWait", "join"} /\ TaskSlots(workQueue) = {}
    /\ pc = "startWorkers" /\ anyRunning => Running # {}
    /\ Running = {} =>
          TaskSlots(workQueue) = IF pc = "startWorkers" THEN {LastSlot(workQueue)} ELSE {}
    /\ pc = "join" => \A w \in Running : w >= nextWorker
    /\ pc \in {"waitCleanups", "finalCleanups", "deleted"} => Running = {}
    /\ pc = "finalCleanups" => TaskSlots(cleanupQueue) = {}
    /\ caller # "set_impl" /\ pc # "aborted"

\* What a Handle reports: a failed task has its error on the way to the client.
ReportsOK ==
    /\ isValidated => NoTaskOutstanding /\ failed = {}
    /\ failed # {} /\ firstError = NoTask =>
          \E i \in TaskSlots(cleanupQueue) : cleanupQueue.slots[i].error

\* A ring with nothing in it holds no task, nor does one whose only item is the
\* end marker.
LEMMA RingWithoutTasks ==
    ASSUME NEW q, RingOK(q),
           IsEmpty(q) \/ (Front(q).state = "END_QUEUE" /\ q.fetch = LastSlot(q))
    PROVE  TaskSlots(q) = {}
<1>1. q.add \in Indices /\ q.fetch \in Indices  BY DEF RingOK, Queues
<1>2. \A i \in TaskSlots(q) : i \in Indices /\ InRing(q, i) /\ q.slots[i].state # "END_QUEUE"
  BY DEF RingOK, TaskSlots
<1>3. CASE IsEmpty(q)  BY <1>1, <1>2, <1>3 DEF IsEmpty, InRing, Indices
<1>4. CASE Front(q).state = "END_QUEUE" /\ q.fetch = LastSlot(q)
  <2>1. LastSlot(q) = IF q.add + (QueueSize - 1) < QueueSize
                      THEN q.add + (QueueSize - 1) ELSE q.add + (QueueSize - 1) - QueueSize
    BY <1>1, AdvanceCases, QueueSizeAssumption DEF LastSlot
  <2> QED  BY <1>2, <1>4, <1>1, <2>1, QueueSizeAssumption DEF Front, InRing, Indices
<1> QED  BY <1>3, <1>4

LEMMA BusyWorkersRun == BusyWorkers \subseteq Running
    BY DEF BusyWorkers, Running, IsRunning

\* When the final cleanups are due nothing is outstanding, and the count says so.
LEMMA NothingLeft ==
    ASSUME LoaderInv, EndOK, pc = "finalCleanups"
    PROVE  NoTaskOutstanding /\ Running = {} /\ activeTaskCount = 0
<1>1. Running = {} /\ NoTaskOutstanding  BY BusyWorkersRun DEF EndOK, NoTaskOutstanding
<1> QED  BY <1>1, FS_EmptySet DEF LoaderInv, TypeOK, CountOK, ActiveTaskCountExact, Outstanding, NoTaskOutstanding

\* The steps of the client outside the loader's loops.
LEMMA CallsKeepEnd ==
    ASSUME Failures \subseteq {"thread_start"}, LoaderInv, EndOK,
           \/ \E t \in Tasks : AddTaskNoThreads(t) \/ AddTask(t)
           \/ AddDelayedTask \/ AddDelayedTaskFails
           \/ ValidateRejects \/ Validate \/ DeleteHandle
           \/ \E count \in 1 .. MaxThreads : SetThreadCount(count)
           \/ AddTaskRefused \/ RunCleanup
    PROVE  EndOK'
<1> USE DEF loaderVars, workerVars, clientVars, handleVars, history
<1>1. /\ UNCHANGED <<workQueue, workerPc>>
      /\ pc \in {"idle", "invalid", "addCleanups", "waitCleanups"}
      /\ pc' \in {"idle", "invalid", "addCleanups", "addEnd"} \/ pc' = pc
      /\ pc # "waitCleanups" \/ pc' = pc
      /\ caller' # "set_impl" /\ pc' # "aborted"
  BY DEF AddTaskNoThreads, AddTask, AddDelayedTask, AddDelayedTaskFails, ValidateRejects, Validate, DeleteHandle,
     SetThreadCount, AddTaskRefused, RunCleanup, RunDirectly, BeginWait, BeforeEnd, EndOK
<1> QED  BY <1>1 DEF EndOK, BeforeEnd, Running, IsRunning

LEMMA StartWorkerKeepsEnd ==
    ASSUME LoaderInv, EndOK, StartWorker
    PROVE  EndOK'
<1>1. /\ UNCHANGED <<workQueue, cleanupQueue, pc, caller>> /\ pc = "startWorkers"
      /\ nextWorker \in Workers  BY MaxThreadsAssumption DEF StartWorker, loaderVars, LoaderInv, TypeOK, Workers
<1>2. /\ Running \subseteq Running'
      /\ anyRunning' => anyRunning \/ nextWorker \in Running'
      /\ \A w \in Workers : workerPc'[w] = "exited" => workerPc[w] = "exited"
  <2>1. CASE workerPc' = [workerPc EXCEPT ![nextWorker] = "fetch"]
    BY <1>1, <2>1 DEF Running, IsRunning, LoaderInv, TypeOK
  <2>2. CASE UNCHANGED workerPc  BY <1>1, <2>2 DEF StartWorker, Running, IsRunning, LoaderInv, TypeOK
  <2> QED  BY <2>1, <2>2 DEF StartWorker
<1> QED  BY <1>1, <1>2 DEF EndOK

LEMMA AddTaskEnqueueKeepsEnd ==
    ASSUME LoaderInv, EndOK, AddTaskEnqueue
    PROVE  EndOK'
<1>1. /\ workQueue' = Add(workQueue, ReadyInfo(adding)) /\ ~IsFull(workQueue, ReadyInfo(adding))
      /\ pc = "addCleanups" /\ pc' = "startWorkers" /\ ~anyRunning'
      /\ UNCHANGED <<workerPc, caller>>  BY DEF AddTaskEnqueue, HasRoom, workerVars
<1>2. ReadyInfo(adding) \in Infos /\ ReadyInfo(adding).task # NoTask /\ adding \in Tasks
  BY <1>1, InfoTypes, NoTaskAssumption DEF LoaderInv, ThreadsOK, ReadyInfo
<1>3. /\ LastSlot(workQueue') = workQueue.add
      /\ \A i \in Indices :
            workQueue'.slots[i] = IF i = workQueue.add THEN ReadyInfo(adding) ELSE workQueue.slots[i]
  BY <1>1, <1>2, SlotsOfAdd DEF LoaderInv, RingsOK
<1>4. TaskSlots(workQueue') = TaskSlots(workQueue) \cup {workQueue.add}
  BY <1>1, <1>2, AddOK DEF LoaderInv, RingsOK, ReadyInfo
<1>5. \A i \in Indices : workQueue'.slots[i].state # "END_QUEUE"
  <2>1. ReadyInfo(adding).state # "END_QUEUE"  BY DEF ReadyInfo
  <2> QED  BY <1>3, <2>1, <1>1 DEF EndOK, BeforeEnd
<1> QED  BY <1>1, <1>3, <1>4, <1>5 DEF EndOK, Running, IsRunning

LEMMA AddTaskUndoKeepsEnd ==
    ASSUME LoaderInv, EndOK, AddTaskUndo
    PROVE  EndOK'
<1>1. Running = {} /\ ~IsEmpty(workQueue)  BY NobodyStarted DEF LoaderInv
<1>2. /\ workQueue' = UndoAdd(workQueue) /\ pc = "startWorkers" /\ pc' = "idle"
      /\ UNCHANGED <<workerPc, caller>>  BY <1>1 DEF AddTaskUndo, RunDirectly, workerVars
<1>3. \A i \in Indices : workQueue'.slots[i].state # "END_QUEUE"
  BY <1>2, SlotsOfUndo DEF LoaderInv, RingsOK, EndOK, BeforeEnd, EmptyInfo
<1>4. Running' = Running  BY <1>2 DEF Running, IsRunning
<1> QED  BY <1>2, <1>3, <1>4, <1>1, UndoAddOK DEF EndOK, LoaderInv, RingsOK, LastSlot

LEMMA SignalsKeepEnd ==
    ASSUME LoaderInv, EndOK, AddTaskSignal \/ WaitSignal
    PROVE  EndOK'
<1>1. \A w \in Workers : w >= 0  BY DEF Workers
<1> QED  BY <1>1 DEF EndOK, BeforeEnd, Running, WakeAll, IsRunning, AddTaskSignal, WaitSignal

\* The marker goes behind all the tasks.
LEMMA WaitAddEndKeepsEnd ==
    ASSUME LoaderInv, EndOK, WaitAddEnd
    PROVE  EndOK'
<1>1. /\ pc = "addEnd" /\ pc' = "signalWait" /\ UNCHANGED <<workerPc, caller>>  BY DEF WaitAddEnd, workerVars
<1>2. /\ TaskSlots(workQueue') = TaskSlots(workQueue)
      /\ \A i \in Indices : workQueue'.slots[i].state = "END_QUEUE" => i = LastSlot(workQueue')
  <2>1. CASE IsFull(workQueue, EndInfo)  BY <1>1, <2>1 DEF WaitAddEnd, EndOK, BeforeEnd
  <2>2. CASE ~IsFull(workQueue, EndInfo)
    <3>1. EndInfo \in Infos /\ EndInfo.task = NoTask /\ EndInfo.state = "END_QUEUE"  BY InfoTypes DEF EndInfo
    <3>2. workQueue' = Add(workQueue, EndInfo)  BY <2>2 DEF WaitAddEnd
    <3>3. TaskSlots(workQueue') = TaskSlots(workQueue)  BY <2>2, <3>1, <3>2, AddOK DEF LoaderInv, RingsOK
    <3>4. /\ LastSlot(workQueue') = workQueue.add
          /\ \A i \in Indices :
                workQueue'.slots[i] = IF i = workQueue.add THEN EndInfo ELSE workQueue.slots[i]
      BY <2>2, <3>1, <3>2, SlotsOfAdd DEF LoaderInv, RingsOK
    <3> QED  BY <1>1, <3>3, <3>4 DEF EndOK, BeforeEnd
  <2> QED  BY <2>1, <2>2
<1> QED  BY <1>1, <1>2 DEF EndOK, BeforeEnd, Running, IsRunning

\* A joined worker has met the marker.
LEMMA WaitJoinKeepsEnd ==
    ASSUME LoaderInv, EndOK, WaitJoin \/ WaitJoined
    PROVE  EndOK'
<1>1. UNCHANGED <<workQueue, cleanupQueue, caller>> /\ pc = "join"  BY DEF WaitJoin, WaitJoined, loaderVars
<1>2. CASE WaitJoin
  <2>1. /\ nextWorker \in Workers /\ pc' = "join" /\ nextWorker' = nextWorker + 1
        /\ workerPc' = [workerPc EXCEPT ![nextWorker] = "off"]
        /\ workerPc[nextWorker] \in {"off", "exited"}
    BY <1>2, MaxThreadsAssumption DEF WaitJoin, LoaderInv, TypeOK, Workers
  <2>2. Running' = Running \ {nextWorker} /\ Running \subseteq Workers
    BY <2>1 DEF Running, IsRunning, LoaderInv, TypeOK
  <2>3. Running' = {} => TaskSlots(workQueue) = {}  BY <2>1, <1>1, <2>2 DEF EndOK, Running, IsRunning
  <2> QED  BY <1>1, <2>1, <2>3, <2>2 DEF EndOK, BeforeEnd, LoaderInv, TypeOK, Workers
<1>3. CASE WaitJoined
  <2>1. pc' = "waitCleanups" /\ nextWorker = MaxThreads /\ UNCHANGED workerPc  BY <1>3 DEF WaitJoined, workerVars
  <2> QED  BY <1>1, <2>1, MaxThreadsAssumption DEF EndOK, BeforeEnd, Running, IsRunning, Workers
<1> QED  BY <1>2, <1>3

\* A wait that ends finds nothing outstanding, so the reset aborts nothing.
LEMMA WaitEndsKeepEnd ==
    ASSUME LoaderInv, EndOK, WaitCleaned \/ WaitReturn \/ WaitReset
    PROVE  EndOK'
<1>1. Running = {} /\ \A w \in Workers : workerPc[w] # "exited"  BY DEF WaitCleaned, WaitReturn, WaitReset, EndOK
<1>2. UNCHANGED workerPc /\ Running' = {}
  BY <1>1 DEF WaitCleaned, WaitReturn, WaitReset, workerVars, Running, IsRunning
<1>3. TaskSlots(workQueue) = {}  BY <1>1 DEF EndOK, WaitCleaned, WaitReturn, WaitReset
<1>4. CASE WaitCleaned
  <2>1. TaskSlots(cleanupQueue) = {}  BY <1>4, RingWithoutTasks DEF WaitCleaned, LoaderInv, RingsOK
  <2> QED  BY <1>1, <1>2, <1>3, <1>4, <2>1 DEF WaitCleaned, EndOK, BeforeEnd, loaderVars
<1>5. CASE WaitReturn
  <2>1. pc' = "deleted" /\ UNCHANGED workQueue /\ caller' = "none"
    BY <1>5 DEF WaitReturn, LoaderInv, ThreadsOK, TypeOK, Callers, WaitPcs, EndOK
  <2> QED  BY <1>1, <1>2, <1>3, <1>5, <2>1 DEF WaitReturn, EndOK, BeforeEnd
<1>6. CASE WaitReset
  <2>1. workQueue' = EmptyQueue /\ pc' \in {"idle", "invalid"} /\ caller' = "none"
    BY <1>6, NothingLeft DEF WaitReset, Running
  <2> QED  BY <1>1, <1>2, <2>1, EmptyQueueOK DEF EndOK, EmptyQueue, EmptyInfo
<1> QED  BY <1>4, <1>5, <1>6

\* A worker that meets the marker knows the work queue to be through.
LEMMA WorkersKeepEnd ==
    ASSUME LoaderInv, EndOK, NEW w \in Workers,
           WorkerFetch(w) \/ WorkerCheckState(w) \/ SpuriousWakeup(w)
    PROVE  EndOK'
<1>1. /\ w \in Running /\ Running' = Running
      /\ UNCHANGED <<cleanupQueue, pc, caller, nextWorker, anyRunning>>
      /\ \A v \in Workers : v # w => workerPc'[v] = workerPc[v]
  BY DEF WorkerFetch, WorkerCheckState, SpuriousWakeup, Running, IsRunning, loaderVars, clientVars, LoaderInv, TypeOK
<1>2. CASE WorkerCheckState(w) \/ SpuriousWakeup(w) \/ (WorkerFetch(w) /\ IsEmpty(workQueue))
  BY <1>2, <1>1 DEF WorkerFetch, WorkerCheckState, SpuriousWakeup, loaderVars, LoaderInv, TypeOK, EndOK
<1>3. CASE WorkerFetch(w) /\ ~IsEmpty(workQueue) /\ Front(workQueue).state = "END_QUEUE"
  <2>1. workQueue.fetch = LastSlot(workQueue) /\ pc \notin BeforeEnd
    BY <1>3 DEF EndOK, Front, LoaderInv, TypeOK, Queues
  <2>2. TaskSlots(workQueue) = {}  BY <1>3, <2>1, RingWithoutTasks DEF LoaderInv, RingsOK
  <2>3. pc \in {"signalWait", "join"}  BY <1>1, <2>1 DEF EndOK, BeforeEnd, LoaderInv, TypeOK, ClientPcs
  <2> QED  BY <1>1, <2>2, <2>3, <1>3 DEF EndOK, WorkerFetch, Fetch
<1>4. CASE WorkerFetch(w) /\ ~IsEmpty(workQueue) /\ Front(workQueue).state # "END_QUEUE"
  <2>1. workQueue' = Fetch(workQueue) /\ workerPc'[w] = "busy"  BY <1>4 DEF WorkerFetch, LoaderInv, TypeOK
  <2>2. /\ LastSlot(workQueue') = LastSlot(workQueue)
        /\ \A i \in Indices :
              workQueue'.slots[i] = EmptyInfo \/ workQueue'.slots[i] = workQueue.slots[i]
    BY <1>4, <2>1, SlotsOfFetch DEF LoaderInv, RingsOK, LastSlot
  <2> QED  BY <1>1, <2>1, <2>2, <1>4, FetchOK DEF EndOK, EmptyInfo, LoaderInv, RingsOK
<1> QED  BY <1>2, <1>3, <1>4

LEMMA WorkerProcessKeepsEnd ==
    ASSUME LoaderInv, EndOK, NEW w \in Workers, WorkerProcess(w)
    PROVE  EndOK'
BY ProcessedTask, BusyWorkersRun DEF EndOK

LEMMA NextEndOK ==
    ASSUME Failures \subseteq {"thread_start"}, LoaderInv, EndOK, [Next]_vars
    PROVE  EndOK'
<1>1. CASE UNCHANGED vars  BY <1>1 DEF vars, workerVars, Running, IsRunning, loaderVars, clientVars, EndOK
<1> QED
  BY <1>1, CallsKeepEnd, StartWorkerKeepsEnd, AddTaskEnqueueKeepsEnd, AddTaskUndoKeepsEnd, SignalsKeepEnd,
     WaitAddEndKeepsEnd, WaitJoinKeepsEnd, WaitEndsKeepEnd, WorkersKeepEnd, WorkerProcessKeepsEnd DEF Next, CallStep,
     WorkerStep, Finished

LEMMA OtherStepsKeepReports ==
    ASSUME Failures \subseteq {"thread_start"}, LoaderInv, ReportsOK, OtherStep
    PROVE  ReportsOK'
<1>1. isValidated' => isValidated
  <2>1. CASE AddDelayedTask \/ AddDelayedTaskFails  BY <2>1 DEF AddDelayedTask, AddDelayedTaskFails, SetData
  <2>2. CASE \/ ValidateRejects \/ Validate \/ DeleteHandle
             \/ \E count \in 1 .. MaxThreads : SetThreadCount(count)
    BY <2>2 DEF ValidateRejects, Validate, DeleteHandle, SetThreadCount, handleVars
  <2>3. CASE StartWorker \/ AddTaskSignal \/ WaitSignal
    BY <2>3 DEF StartWorker, AddTaskSignal, WaitSignal, handleVars
  <2>4. CASE WaitJoin \/ WaitJoined \/ WaitCleaned \/ WaitReturn
    BY <2>4 DEF WaitJoin, WaitJoined, WaitCleaned, WaitReturn, handleVars
  <2>5. ASSUME NEW w \in Workers, WorkerCheckState(w) \/ SpuriousWakeup(w)
        PROVE  UNCHANGED isValidated  BY <2>5 DEF WorkerCheckState, SpuriousWakeup, handleVars
  <2>6. CASE UNCHANGED vars  BY <2>6 DEF vars, handleVars
  <2> QED  BY <2>1, <2>2, <2>3, <2>4, <2>5, <2>6 DEF OtherStep
<1> QED  BY <1>1, OtherStepsMoveNothing DEF ReportsOK, NoTaskOutstanding

\* A call that adds a task makes the Handle not validated.
LEMMA AddTaskKeepsReports ==
    ASSUME Failures \subseteq {"thread_start"}, LoaderInv, ReportsOK,
           \/ \E t \in Tasks : AddTaskNoThreads(t) \/ AddTask(t)
           \/ AddTaskRefused \/ AddTaskEnqueue \/ AddTaskUndo
    PROVE  ReportsOK'
<1>1. /\ ~isValidated'
      /\ UNCHANGED <<cleanupQueue, failed, firstError>>
  <2>1. ASSUME NEW t \in Tasks, AddTaskNoThreads(t) \/ AddTask(t)
        PROVE  ~isValidated' /\ UNCHANGED <<cleanupQueue, failed, firstError>>
    BY <2>1 DEF AddTaskNoThreads, AddTask, RunDirectly, SetData, loaderVars, history
  <2>2. CASE AddTaskRefused \/ AddTaskEnqueue \/ AddTaskUndo
    <3>1. UNCHANGED failed  BY <2>2 DEF AddTaskRefused, AddTaskEnqueue, AddTaskUndo, RunDirectly, history
    <3> QED
      BY <3>1, <2>2 DEF LoaderInv, ThreadsOK, AddTaskRefused, AddTaskEnqueue, AddTaskUndo, loaderVars, handleVars
  <2> QED  BY <2>1, <2>2
<1> QED  BY <1>1 DEF ReportsOK

\* An error that leaves the cleanup queue becomes the first error.
LEMMA RunCleanupKeepsReports ==
    ASSUME LoaderInv, ReportsOK, RunCleanup
    PROVE  ReportsOK'
<1> DEFINE slot == cleanupQueue.fetch
<1>1. /\ cleanupQueue' = Fetch(cleanupQueue) /\ ~IsEmpty(cleanupQueue)
      /\ firstError' = FirstError(cleanupQueue.slots[slot])
      /\ UNCHANGED <<workQueue, workerPc, isValidated, failed>>  BY DEF RunCleanup, workerVars, handleVars, Front
<1>2. slot \in Indices /\ Front(cleanupQueue).state # "END_QUEUE"  BY DEF LoaderInv, TypeOK, Queues, RingsOK, Front
<1>3. /\ slot \in TaskSlots(cleanupQueue) /\ cleanupQueue.slots[slot].task # NoTask
      /\ TaskSlots(cleanupQueue') = TaskSlots(cleanupQueue) \ {slot}
  BY <1>1, <1>2, FetchOK DEF LoaderInv, RingsOK, TaskSlots
<1>4. ASSUME failed' # {}, firstError' = NoTask
      PROVE  \E i \in TaskSlots(cleanupQueue') : cleanupQueue'.slots[i].error
  <2>1. firstError = NoTask /\ ~cleanupQueue.slots[slot].error  BY <1>1, <1>3, <1>4 DEF FirstError
  <2>2. PICK i \in TaskSlots(cleanupQueue) : cleanupQueue.slots[i].error  BY <1>1, <1>4, <2>1 DEF ReportsOK
  <2> QED  BY <1>3, <2>1, <2>2, <1>1, <1>2, SlotsOfFetch DEF LoaderInv, RingsOK, TaskSlots
<1> QED  BY <1>4, <1>1, <1>3 DEF ReportsOK, NoTaskOutstanding, BusyWorkers

LEMMA WaitAddEndKeepsReports ==
    ASSUME LoaderInv, ReportsOK, WaitAddEnd
    PROVE  ReportsOK'
<1>1. TaskSlots(workQueue') = TaskSlots(workQueue)  BY InfoTypes, AddOK DEF EndInfo, LoaderInv, RingsOK, WaitAddEnd
<1> QED  BY <1>1 DEF ReportsOK, NoTaskOutstanding, BusyWorkers, WaitAddEnd, workerVars, handleVars, history

\* A validation succeeds only if no task has left an error.
LEMMA WaitResetKeepsReports ==
    ASSUME LoaderInv, EndOK, ReportsOK, WaitReset
    PROVE  ReportsOK'
BY NothingLeft, EmptyQueueOK DEF WaitReset, Running, workerVars, history, NoTaskOutstanding, BusyWorkers, ReportsOK

LEMMA WorkerFetchKeepsReports ==
    ASSUME LoaderInv, ReportsOK, NEW w \in Workers, WorkerFetch(w)
    PROVE  ReportsOK'
<1>1. UNCHANGED <<cleanupQueue, isValidated, failed, firstError>> /\ workerPc[w] = "fetch"
  BY DEF WorkerFetch, handleVars, history
<1>2. CASE IsEmpty(workQueue) \/ Front(workQueue).state = "END_QUEUE"
  BY <1>1, <1>2 DEF WorkerFetch, Fetch, BusyWorkers, LoaderInv, TypeOK, ReportsOK, NoTaskOutstanding
<1>3. CASE ~IsEmpty(workQueue) /\ Front(workQueue).state # "END_QUEUE"
  BY <1>3, FetchOK, <1>1 DEF LoaderInv, RingsOK, ReportsOK, NoTaskOutstanding
<1> QED  BY <1>2, <1>3

\* A task that fails puts its error into the cleanup queue.
LEMMA WorkerProcessKeepsReports ==
    ASSUME LoaderInv, ReportsOK, NEW w \in Workers, WorkerProcess(w)
    PROVE  ReportsOK'
<1> DEFINE t == workerInfo[w].task
           slot == cleanupQueue.add
<1>1. /\ w \in BusyWorkers
      /\ TaskSlots(cleanupQueue') = TaskSlots(cleanupQueue) \cup {slot}
      /\ \A i \in TaskSlots(cleanupQueue) : cleanupQueue'.slots[i] = cleanupQueue.slots[i]
      /\ UNCHANGED <<firstError, isValidated>>  BY ProcessedTask
<1>2. PICK error \in BOOLEAN :
         /\ failed' = IF error THEN failed \cup {t} ELSE failed
         /\ cleanupQueue'.slots[slot].error = error  BY ProcessedTask
<1> HIDE DEF t, slot
<1>3. ASSUME failed' # {}, firstError' = NoTask
      PROVE  \E i \in TaskSlots(cleanupQueue') : cleanupQueue'.slots[i].error
  <2>1. CASE error  BY <1>1, <1>2, <2>1
  <2>2. CASE ~error
    <3>1. PICK i \in TaskSlots(cleanupQueue) : cleanupQueue.slots[i].error  BY <1>1, <1>2, <1>3, <2>2 DEF ReportsOK
    <3> QED  BY <1>1, <3>1
  <2> QED  BY <2>1, <2>2
<1> QED  BY <1>1, <1>3 DEF ReportsOK, NoTaskOutstanding

LEMMA NextReportsOK ==
    ASSUME Failures \subseteq {"thread_start"}, LoaderInv, EndOK, ReportsOK, [Next]_vars
    PROVE  ReportsOK'
    BY StepCases, OtherStepsKeepReports, AddTaskKeepsReports, RunCleanupKeepsReports,
       WaitAddEndKeepsReports, WaitResetKeepsReports, WorkerFetchKeepsReports,
       WorkerProcessKeepsReports

LEMMA InitEndAndReports == Init => EndOK /\ ReportsOK
<1> SUFFICES ASSUME Init PROVE EndOK /\ ReportsOK  OBVIOUS
<1> QED  BY EmptyQueueOK DEF EndOK, ReportsOK, NoTaskOutstanding, BeforeEnd, Init, BusyWorkers, EmptyQueue, EmptyInfo

\* Where the end marker lies and what a joined worker has seen, and that the
\* error of a failed task is on its way, in every state of a program that finds
\* memory for what it adds.
THEOREM WaitsFinish ==
    ASSUME Failures \subseteq {"thread_start"}
    PROVE  Spec => [](LoaderInv /\ EndOK /\ ReportsOK)
<1>1. LoaderInv /\ EndOK /\ ReportsOK /\ [Next]_vars => (LoaderInv /\ EndOK /\ ReportsOK)'
  BY NextLoaderInv, NextEndOK, NextReportsOK
<1>2. Init => LoaderInv /\ EndOK /\ ReportsOK  BY InitLoaderInv, InitEndAndReports
<1> QED  BY <1>1, <1>2, PTL DEF Spec

\* Whoever waits for the loader finds all tasks finished, and a validated
\* Handle has none left and none that failed.
THEOREM WaitFindsTasksFinished ==
    ASSUME Failures \subseteq {"thread_start"}
    PROVE  Spec => []TasksAreFinished
<1>1. LoaderInv /\ EndOK /\ ReportsOK => TasksAreFinished
  BY NothingLeft DEF TasksAreFinished, WaitIdleFinishesTasks, ValidatedMeansLoaded, ReportsOK
<1> QED  BY <1>1, WaitsFinish, PTL

\* No assertion of the loader stops the program: a finishing worker finds room,
\* a task to take back is there, and a reset finds the loader idle.
THEOREM LoaderAssertions ==
    ASSUME Failures \subseteq {"thread_start"}
    PROVE  Spec => []AssertionsHold
<1>1. EndOK => AssertionsHold  BY DEF EndOK, AssertionsHold
<1> QED  BY <1>1, WaitsFinish, PTL

\* The loader implements the pool of tasks, step by step.

\* The tasks behind the slots of a ring and behind the busy workers.
BusyTasks == {workerInfo[w].task : w \in BusyWorkers}

\* What the pool's variables stand for.
Pending == BusyTasks \cup IF \E w \in Workers : IsRunning(w) THEN TasksOf(workQueue) ELSE {}
Processed == TasksOf(cleanupQueue)
Retired == {t \in Tasks : cleaned[t] > 0}
Mode == IF pc \in {"addEnd", "signalWait", "join", "waitCleanups", "finalCleanups"}
        THEN "draining" ELSE IF pc = "deleted" THEN "closed" ELSE "open"

LEMMA PoolStutters ==
    ASSUME UNCHANGED <<Pending, Processed, Retired, Mode>>
    PROVE  UNCHANGED Pool!vars
    BY DEF Pool!vars, Pending, Processed, Retired, Mode, BusyTasks

LEMMA PoolCardinality == \A S : Pool!Cardinality(S) = Cardinality(S)
    BY DEF Pool!Cardinality, Cardinality

LEMMA PoolAccepts ==
    ASSUME NEW t \in Tasks, Mode = "open", t \notin Pending, t \notin Processed, t \notin Retired,
           Cardinality(Pending) + Cardinality(Processed) < QueueSize - 2,
           Pending' = Pending \cup {t}, UNCHANGED <<Processed, Retired, Mode>>
    PROVE  Pool!Next
BY PoolCardinality DEF Pool!IsNew, Pending, Processed, Retired, BusyTasks, Pool!Accept, Mode, Pool!Next

LEMMA PoolLeaves ==
    ASSUME NEW t \in Tasks, Mode = "open", t \notin Pending, t \notin Processed, t \notin Retired,
           Retired' = Retired \cup {t}, UNCHANGED <<Pending, Processed, Mode>>
    PROVE  Pool!Next
    BY DEF Pool!Next, Pool!RunDirectly, Pool!IsNew, Pending, Processed, Retired, Mode, BusyTasks

LEMMA PoolProcesses ==
    ASSUME NEW t \in Tasks, t \in Pending, Pending' = Pending \ {t},
           Processed' = Processed \cup {t}, UNCHANGED <<Retired, Mode>>
    PROVE  Pool!Next
    BY DEF Pool!Next, Pool!Process, Pending, Processed, Retired, Mode, BusyTasks

LEMMA PoolRetires ==
    ASSUME NEW t \in Tasks, t \in Processed, Processed' = Processed \ {t},
           Retired' = Retired \cup {t}, UNCHANGED <<Pending, Mode>>
    PROVE  Pool!Next
    BY DEF Pool!Next, Pool!Retire, Pending, Processed, Retired, Mode, BusyTasks

LEMMA PoolDrains ==
    ASSUME \/ Mode = "open" /\ Mode' = "draining"
           \/ (Mode = "draining" /\ Pending = {} /\ Processed = {} /\ Mode' \in {"open", "closed"}),
           UNCHANGED <<Pending, Processed, Retired>>
    PROVE  Pool!Next
    BY DEF Pool!Next, Pool!BeginDrain, Pool!EndDrain, Pending, Processed, Retired, Mode, BusyTasks

\* An image of a finite set is no larger than the set.
LEMMA SlotTasks ==
    ASSUME NEW q
    PROVE  /\ IsFiniteSet(TasksOf(q)) /\ Cardinality(TasksOf(q)) \in Nat
           /\ Cardinality(TasksOf(q)) <= Cardinality(TaskSlots(q))
<1> DEFINE f == [i \in TaskSlots(q) |-> q.slots[i].task]
<1>1. f \in Surjection(TaskSlots(q), TasksOf(q))  BY DEF TasksOf, Surjection
<1> QED  BY <1>1, FS_Surjection, FS_CardinalityType, TaskSlotsFinite

LEMMA BusyTasksFinite ==
    /\ IsFiniteSet(BusyTasks) /\ Cardinality(BusyTasks) \in Nat
    /\ Cardinality(BusyTasks) <= Cardinality(BusyWorkers)
<1> DEFINE f == [w \in BusyWorkers |-> workerInfo[w].task]
<1>1. f \in Surjection(BusyWorkers, BusyTasks)  BY DEF BusyTasks, Surjection
<1> QED  BY <1>1, WorkersFinite, FS_Surjection, FS_CardinalityType

\* The tasks of the pool are as many as the loader counts, or fewer.
LEMMA PoolCount ==
    ASSUME LoaderInv, EndOK
    PROVE  Cardinality(Pending) + Cardinality(Processed) <=
             IF Running = {} THEN Cardinality(TaskSlots(cleanupQueue)) ELSE Outstanding
<1>1. /\ Cardinality(Processed) \in Nat /\ Cardinality(TaskSlots(cleanupQueue)) \in Nat
      /\ Cardinality(Processed) <= Cardinality(TaskSlots(cleanupQueue))  BY SlotTasks, TaskSlotsFinite DEF Processed
<1>2. CASE Running = {}  BY <1>2, BusyWorkersRun, <1>1, FS_EmptySet DEF Running, Pending, BusyTasks
<1>3. CASE Running # {}
  <2>1. Pending = BusyTasks \cup TasksOf(workQueue)  BY <1>3 DEF Pending, Running
  <2>2. /\ Cardinality(TasksOf(workQueue)) \in Nat /\ IsFiniteSet(TasksOf(workQueue))
        /\ Cardinality(TasksOf(workQueue)) <= Cardinality(TaskSlots(workQueue))
        /\ Cardinality(TaskSlots(workQueue)) \in Nat  BY SlotTasks, TaskSlotsFinite
  <2>3. /\ Cardinality(BusyTasks \cup TasksOf(workQueue)) =
             Cardinality(BusyTasks) + Cardinality(TasksOf(workQueue))
               - Cardinality(BusyTasks \cap TasksOf(workQueue))
        /\ IsFiniteSet(BusyTasks \cup TasksOf(workQueue))  BY <2>2, BusyTasksFinite, FS_Union
  <2>4. Cardinality(BusyTasks \cap TasksOf(workQueue)) \in Nat  BY <2>2, FS_Intersection, FS_CardinalityType
  <2>5. /\ Outstanding = Cardinality(TaskSlots(workQueue)) + Cardinality(BusyWorkers)
                           + Cardinality(TaskSlots(cleanupQueue))
        /\ Cardinality(BusyWorkers) \in Nat  BY WorkersFinite DEF LoaderInv, CountOK, ActiveTaskCountExact
  <2> QED  BY <1>1, <1>3, <2>2, <2>5, <2>1, <2>3, <2>4, BusyTasksFinite, FS_CardinalityType
<1> QED  BY <1>2, <1>3

\* A task that no queue and no worker has and that has not run is new.
LEMMA FreshIsNew ==
    ASSUME LoaderInv, StagesOK, NEW t \in Tasks, runs[t] = 0
    PROVE  t \notin Processed /\ t \notin Retired
BY DEF Processed, TasksOf, StagesOK, EachTaskOnce, Retired, LoaderInv, TypeOK

\* The client runs a task itself, whatever the loader did with it before.
LEMMA DirectRunImplements ==
    ASSUME LoaderInv, StagesOK, NEW t \in Tasks, IsFresh(t), RunDirectly(t),
           pc \in {"idle", "addCleanups"},
           UNCHANGED <<workQueue, cleanupQueue, workerPc, workerInfo>>
    PROVE  Pool!Next
<1>1. cleaned' = [cleaned EXCEPT ![t] = @ + 1] /\ pc' = "idle"  BY DEF RunDirectly
<1>2. Retired' = Retired \cup {t}  BY <1>1 DEF LoaderInv, TypeOK, Retired
<1>3. UNCHANGED <<Pending, Processed, Mode>> /\ Mode = "open"
  BY <1>1 DEF Pending, Processed, Mode, BusyTasks, BusyWorkers, IsRunning
<1> QED  BY <1>2, <1>3, PoolLeaves, FreshIsNew DEF Pending, BusyTasks, BusyWorkers, IsFresh

LEMMA AddTaskImplements ==
    ASSUME LoaderInv, StagesOK,
           (\E t \in Tasks : AddTaskNoThreads(t) \/ AddTask(t)) \/ AddTaskRefused
    PROVE  [Pool!Next]_Pool!vars
<1>1. ASSUME NEW t \in Tasks, AddTaskNoThreads(t)
      PROVE  Pool!Next  BY <1>1, DirectRunImplements DEF AddTaskNoThreads, loaderVars, workerVars
<1>2. ASSUME NEW t \in Tasks, AddTask(t)
      PROVE  UNCHANGED Pool!vars
  <2>1. UNCHANGED <<workQueue, cleanupQueue, workerPc, workerInfo, cleaned>>
        /\ pc = "idle" /\ pc' = "addCleanups"  BY <1>2 DEF AddTask, loaderVars, workerVars, history
  <2> QED  BY PoolStutters, <2>1 DEF Pending, Processed, Retired, Mode, BusyTasks, BusyWorkers, IsRunning
<1>3. CASE AddTaskRefused
  BY <1>3, DirectRunImplements DEF AddTaskRefused, LoaderInv, ThreadsOK, StagesOK, loaderVars, workerVars
<1> QED  BY <1>1, <1>2, <1>3

\* While no worker runs, taking a task back leaves the pool as it is.
LEMMA AddTaskUndoImplements ==
    ASSUME LoaderInv, EndOK, StagesOK, AddTaskUndo
    PROVE  [Pool!Next]_Pool!vars
<1>1. Running = {} /\ ~IsEmpty(workQueue)  BY NobodyStarted DEF LoaderInv
<1>2. /\ RunDirectly(adding) /\ pc = "startWorkers" /\ adding \in Tasks
      /\ UNCHANGED <<workerPc, workerInfo, cleanupQueue>>  BY <1>1 DEF AddTaskUndo, workerVars, LoaderInv, ThreadsOK
<1>3. Pending = {} /\ Pending' = {}
  BY <1>1, <1>2, BusyWorkersRun DEF Pending, BusyTasks, Running, BusyWorkers, IsRunning
<1>4. Retired' = Retired \cup {adding}  BY <1>2 DEF RunDirectly, LoaderInv, TypeOK, Retired
<1>5. UNCHANGED <<Processed, Mode>> /\ Mode = "open"  BY <1>2 DEF RunDirectly, Processed, Mode
<1> QED  BY <1>2, <1>3, <1>4, <1>5, PoolLeaves, FreshIsNew, <1>1 DEF EndOK, StagesOK

\* A task in the queue of a running loader is accepted at once.
LEMMA AddTaskEnqueueImplements ==
    ASSUME LoaderInv, EndOK, StagesOK, AddTaskEnqueue
    PROVE  [Pool!Next]_Pool!vars
<1>1. /\ workQueue' = Add(workQueue, ReadyInfo(adding)) /\ ~IsFull(workQueue, ReadyInfo(adding))
      /\ activeTaskCount + 2 < QueueSize
      /\ pc = "addCleanups" /\ pc' = "startWorkers"
      /\ UNCHANGED <<cleanupQueue, workerPc, workerInfo, cleaned>>
  BY DEF AddTaskEnqueue, HasRoom, workerVars, history
<1>2. adding \in Tasks /\ adding # NoTask /\ IsFresh(adding)
  BY <1>1, NoTaskAssumption DEF LoaderInv, ThreadsOK, StagesOK
<1>3. /\ ReadyInfo(adding) \in Infos /\ ReadyInfo(adding).task = adding
      /\ ReadyInfo(adding).state = "READY_TO_START"  BY <1>2, InfoTypes DEF ReadyInfo
<1>4. TasksOf(workQueue') = TasksOf(workQueue) \cup {adding}
  BY <1>3, <1>1, <1>2, SlotsOfAdd, AddOK DEF TasksOf, TaskSlots, LoaderInv, RingsOK
<1>5. /\ UNCHANGED <<BusyTasks, Processed, Retired, Mode, BusyWorkers>> /\ Mode = "open"
      /\ \A w \in Workers : IsRunning(w)' <=> IsRunning(w)
  BY <1>1 DEF BusyTasks, BusyWorkers, Processed, Retired, Mode, IsRunning
<1>6. CASE Running = {}  BY <1>5, <1>6, PoolStutters DEF Pending, Running
<1>7. CASE Running # {}
  <2>1. adding \notin Pending /\ adding \notin Processed /\ adding \notin Retired
    BY <1>2, FreshIsNew DEF IsFresh, Pending, BusyTasks, BusyWorkers
  <2>2. Cardinality(Processed) \in Nat  BY SlotTasks DEF Processed
  <2>3. Cardinality(Pending) \in Nat
    BY <1>7, BusyTasksFinite, SlotTasks, FS_Union, FS_CardinalityType DEF Pending, Running
  <2>4. Cardinality(Pending) + Cardinality(Processed) < QueueSize - 2
    BY <2>2, <2>3, QueueSizeAssumption, <1>1, <1>7, PoolCount DEF Outstanding, LoaderInv, TypeOK
  <2> QED  BY <1>2, <1>5, <2>1, <2>4, PoolAccepts, <1>4, <1>7 DEF Pending, Running
<1> QED  BY <1>6, <1>7

LEMMA RunCleanupImplements ==
    ASSUME LoaderInv, StagesOK, RunCleanup
    PROVE  [Pool!Next]_Pool!vars
<1> DEFINE slot == cleanupQueue.fetch
           t == cleanupQueue.slots[slot].task
<1>1. /\ cleanupQueue' = Fetch(cleanupQueue) /\ ~IsEmpty(cleanupQueue)
      /\ cleaned' = [cleaned EXCEPT ![t] = @ + 1]
      /\ UNCHANGED <<workQueue, workerPc, workerInfo, pc>>  BY DEF RunCleanup, workerVars, clientVars, Front
<1>2. slot \in Indices /\ Front(cleanupQueue).state # "END_QUEUE"  BY DEF LoaderInv, TypeOK, Queues, RingsOK, Front
<1>3. /\ slot \in TaskSlots(cleanupQueue) /\ t \in Tasks
      /\ TaskSlots(cleanupQueue') = TaskSlots(cleanupQueue) \ {slot}
  BY <1>1, <1>2, FetchOK DEF LoaderInv, RingsOK, Front
<1>4. \A i \in TaskSlots(cleanupQueue') : cleanupQueue'.slots[i] = cleanupQueue.slots[i]
  BY <1>1, <1>2, <1>3, SlotsOfFetch DEF LoaderInv, RingsOK, TaskSlots
<1>5. \A i \in TaskSlots(cleanupQueue') : cleanupQueue.slots[i].task # t  BY <1>3 DEF StagesOK, ApartIn
<1>6. \A i \in TaskSlots(cleanupQueue) :
         i \in TaskSlots(cleanupQueue') \/ cleanupQueue.slots[i].task = t  BY <1>3
<1> HIDE DEF slot
<1>7. t \in Processed /\ Processed' = Processed \ {t}  BY <1>3, <1>4, <1>5, <1>6 DEF Processed, TasksOf, t
<1> HIDE DEF t
<1>8. UNCHANGED <<Pending, Mode>>  BY <1>1 DEF Pending, Mode, BusyTasks, BusyWorkers, IsRunning
<1> QED  BY <1>3, <1>7, <1>8, PoolRetires, <1>1 DEF LoaderInv, TypeOK, Retired

\* A fetched task stays pending.
LEMMA WorkerFetchImplements ==
    ASSUME LoaderInv, NEW w \in Workers, WorkerFetch(w)
    PROVE  UNCHANGED Pool!vars
<1>1. /\ UNCHANGED <<cleanupQueue, cleaned, pc>> /\ workerPc[w] = "fetch" /\ w \notin BusyWorkers
      /\ IsRunning(w) /\ IsRunning(w)'
  BY DEF WorkerFetch, clientVars, history, BusyWorkers, IsRunning, LoaderInv, TypeOK
<1>2. Pending = BusyTasks \cup TasksOf(workQueue) /\ Pending' = (BusyTasks \cup TasksOf(workQueue))'
  BY <1>1 DEF Pending
<1>3. CASE IsEmpty(workQueue) \/ Front(workQueue).state = "END_QUEUE"
  <2>1. Pending' = Pending  BY <1>2, <1>1, <1>3 DEF BusyTasks, WorkerFetch, LoaderInv, TypeOK, BusyWorkers, Fetch
  <2> QED  BY <1>1, <2>1, PoolStutters DEF Processed, Retired, Mode
<1>4. CASE ~IsEmpty(workQueue) /\ Front(workQueue).state # "END_QUEUE"
  <2> DEFINE slot == workQueue.fetch
             t == workQueue.slots[slot].task
  <2>1. /\ workQueue' = Fetch(workQueue)
        /\ workerPc' = [workerPc EXCEPT ![w] = "busy"]
        /\ workerInfo' =
              [workerInfo EXCEPT ![w] = [Front(workQueue) EXCEPT !.state = "IN_PROGRESS"]]  BY <1>4 DEF WorkerFetch
  <2>2. /\ slot \in TaskSlots(workQueue) /\ t \in Tasks /\ Front(workQueue) \in Infos
        /\ TaskSlots(workQueue') = TaskSlots(workQueue) \ {slot}  BY <1>4, <2>1, FetchOK DEF LoaderInv, RingsOK, Front
  <2>3. BusyWorkers' = BusyWorkers \cup {w}  BY <2>1 DEF BusyWorkers, LoaderInv, TypeOK
  <2>4. workerInfo'[w].task = t /\ \A v \in BusyWorkers : workerInfo'[v] = workerInfo[v]
    BY <1>1, <2>1, <2>2 DEF LoaderInv, TypeOK, Infos, BusyWorkers, Front
  <2>5. \A i \in TaskSlots(workQueue) : i \in TaskSlots(workQueue') \/ workQueue.slots[i].task = t  BY <2>2
  <2> HIDE DEF slot, t
  <2>6. TasksOf(workQueue) = TasksOf(workQueue)' \cup {t}
    BY <2>2, <2>5, <1>4, <2>1, SlotsOfFetch DEF TasksOf, LoaderInv, RingsOK, TaskSlots
  <2>7. BusyTasks' = BusyTasks \cup {t}  BY <2>3, <2>4 DEF BusyTasks
  <2>8. Pending' = Pending  BY <1>2, <2>6, <2>7
  <2> QED  BY <1>1, <2>8, PoolStutters DEF Processed, Retired, Mode
<1> QED  BY <1>3, <1>4

LEMMA WorkerProcessImplements ==
    ASSUME LoaderInv, StagesOK, NEW w \in Workers, WorkerProcess(w)
    PROVE  [Pool!Next]_Pool!vars
<1> DEFINE t == workerInfo[w].task
           slot == cleanupQueue.add
<1>1. /\ w \in BusyWorkers /\ t \in Tasks
      /\ cleanupQueue'.slots[slot].task = t
      /\ TaskSlots(cleanupQueue') = TaskSlots(cleanupQueue) \cup {slot}
      /\ \A i \in TaskSlots(cleanupQueue) : cleanupQueue'.slots[i] = cleanupQueue.slots[i]
      /\ slot \notin TaskSlots(cleanupQueue)
      /\ BusyWorkers' = BusyWorkers \ {w} /\ Running' = Running
      /\ \A v \in BusyWorkers' : workerInfo'[v] = workerInfo[v]
      /\ UNCHANGED <<workQueue, pc, cleaned>>  BY ProcessedTask DEF BusyWorkers
<1> HIDE DEF t, slot
<1>2. t \in Pending /\ Pending' = Pending \ {t}
  BY <1>1, BusyWorkersRun DEF Pending, BusyTasks, t, Running, TasksOf, StagesOK
<1>3. Processed' = Processed \cup {t}  BY <1>1 DEF Processed, TasksOf
<1>4. UNCHANGED <<Retired, Mode>>  BY <1>1 DEF Retired, Mode
<1> QED  BY <1>1, <1>2, <1>3, <1>4, PoolProcesses

\* The first worker that starts makes the loader accept the task.
LEMMA StartWorkerImplements ==
    ASSUME LoaderInv, EndOK, StagesOK, StartWorker
    PROVE  [Pool!Next]_Pool!vars
<1>1. /\ UNCHANGED <<workQueue, cleanupQueue, workerInfo, cleaned, pc>> /\ pc = "startWorkers"
      /\ Running \subseteq Running' /\ BusyWorkers' = BusyWorkers /\ adding \in Tasks
  BY DEF StartWorker, Running, BusyWorkers, IsRunning, loaderVars, history, LoaderInv, TypeOK, ThreadsOK
<1>2. UNCHANGED <<BusyTasks, Processed, Retired, Mode>> /\ Mode = "open"
  BY <1>1 DEF BusyTasks, Processed, Retired, Mode, TasksOf, TaskSlots
<1>3. TasksOf(workQueue)' = TasksOf(workQueue)  BY <1>1 DEF TasksOf, TaskSlots
<1>4. CASE Running # {} \/ Running' = {}  BY <1>1, <1>2, <1>3, <1>4, PoolStutters DEF Pending, Running
<1>5. CASE Running = {} /\ Running' # {}
  <2>1. TaskSlots(workQueue) = {LastSlot(workQueue)}
        /\ workQueue.slots[LastSlot(workQueue)].task = adding  BY <1>1, <1>5 DEF EndOK, StagesOK
  <2>2. TasksOf(workQueue) = {adding} /\ runs[adding] = 0  BY <2>1 DEF TasksOf, StagesOK
  <2>3. BusyWorkers = {}  BY <1>5, BusyWorkersRun
  <2>4. Pending = {} /\ Pending' = {adding}  BY <1>1, <1>3, <1>5, <2>2, <2>3 DEF Pending, BusyTasks, Running
  <2>5. Cardinality(TaskSlots(workQueue)) = 1 /\ Cardinality(BusyWorkers) = 0
    BY <2>1, <2>3, FS_Singleton, FS_EmptySet
  <2>6. Cardinality(Pending) = 0  BY <2>4, FS_EmptySet
  <2>7. Cardinality(Pending) + Cardinality(Processed) < QueueSize - 2
    BY <2>5, <2>6, QueueSizeAssumption, SlotTasks, TaskSlotsFinite DEF LoaderInv, CountOK, ActiveTaskCountExact,
       Processed
  <2> QED  BY <1>1, <1>2, <2>4, <2>7, PoolAccepts, <2>2, FreshIsNew
<1> QED  BY <1>4, <1>5

\* The last worker is only joined when its queue is through.
LEMMA WaitJoinImplements ==
    ASSUME LoaderInv, EndOK, EndOK', WaitJoin
    PROVE  UNCHANGED Pool!vars
<1>1. /\ UNCHANGED <<workQueue, cleanupQueue, workerInfo, cleaned, pc>> /\ pc = "join"
      /\ BusyWorkers' = BusyWorkers /\ Running' \subseteq Running
  BY DEF WaitJoin, Running, BusyWorkers, IsRunning, loaderVars, history, LoaderInv, TypeOK
<1>2. UNCHANGED <<BusyTasks, Processed, Retired, Mode>> /\ TasksOf(workQueue)' = TasksOf(workQueue)
  BY <1>1 DEF BusyTasks, Processed, Retired, Mode, TasksOf, TaskSlots
<1> QED  BY <1>2, PoolStutters, <1>1 DEF Pending, Running, EndOK, TasksOf, TaskSlots

\* A wait that ends finds the pool empty.
LEMMA WaitEndImplements ==
    ASSUME LoaderInv, EndOK, WaitReturn \/ WaitReset
    PROVE  Pool!Next
<1>1. NoTaskOutstanding /\ Running = {} /\ activeTaskCount = 0 /\ pc = "finalCleanups"
  BY NothingLeft DEF WaitReturn, WaitReset
<1>2. /\ TaskSlots(workQueue') = {} /\ TaskSlots(cleanupQueue') = {}
      /\ UNCHANGED <<workerPc, cleaned>> /\ pc' \in {"deleted", "idle", "invalid"}
  BY <1>1, EmptyQueueOK DEF WaitReturn, NoTaskOutstanding, workerVars, history, WaitReset, Running
<1>3. /\ BusyWorkers = {} /\ BusyWorkers' = {}
      /\ \A w \in Workers : ~IsRunning(w) /\ ~IsRunning(w)'
  BY <1>1, <1>2, BusyWorkersRun DEF Running, BusyWorkers, IsRunning
<1>4. Pending = {} /\ Pending' = {} /\ Processed = {} /\ Processed' = {}
  BY <1>1, <1>2, <1>3 DEF Pending, BusyTasks, Processed, TasksOf, NoTaskOutstanding
<1> QED  BY <1>4, PoolDrains, <1>1, <1>2 DEF Retired, Mode

LEMMA OtherStepsImplement ==
    ASSUME Failures \subseteq {"thread_start"}, LoaderInv, EndOK, EndOK', StagesOK,
           OtherStep \/ WaitAddEnd
    PROVE  [Pool!Next]_Pool!vars
<1> USE DEF loaderVars, workerVars, clientVars, handleVars, history
<1>1. CASE Validate \/ DeleteHandle
  <2>1. UNCHANGED <<workQueue, cleanupQueue, workerPc, workerInfo, cleaned>>
        /\ pc \in {"idle", "invalid"} /\ pc' = "addEnd"  BY <1>1 DEF Validate, DeleteHandle, BeginWait
  <2> QED  BY PoolDrains, <2>1 DEF Pending, Processed, Retired, Mode, BusyTasks, BusyWorkers, IsRunning
<1>2. CASE \/ AddDelayedTask \/ ValidateRejects \/ WaitJoined \/ WaitCleaned
           \/ \E count \in 1 .. MaxThreads : SetThreadCount(count)
  <2>1. /\ UNCHANGED <<workQueue, cleanupQueue, workerPc, workerInfo, cleaned>>
        /\ \/ pc' = pc
           \/ pc = "idle" /\ pc' = "invalid"
           \/ pc = "join" /\ pc' = "waitCleanups"
           \/ pc = "waitCleanups" /\ pc' = "finalCleanups"
    BY <1>2 DEF AddDelayedTask, ValidateRejects, WaitJoined, WaitCleaned, SetThreadCount
  <2> QED  BY PoolStutters, <2>1 DEF Pending, Processed, Retired, Mode, BusyTasks, BusyWorkers, IsRunning
<1>3. CASE AddTaskSignal \/ WaitSignal
  <2>1. /\ UNCHANGED <<workQueue, cleanupQueue, workerInfo, cleaned>> /\ workerPc' = WakeAll
        /\ \/ pc = "startWorkers" /\ pc' = "idle"
           \/ pc = "signalWait" /\ pc' = "join"  BY <1>3 DEF AddTaskSignal, WaitSignal
  <2>2. \A w \in Workers : (IsRunning(w)' <=> IsRunning(w)) /\ (workerPc'[w] = "busy" <=> workerPc[w] = "busy")
    BY <2>1 DEF WakeAll, IsRunning
  <2> QED  BY PoolStutters, <2>2, <2>1 DEF Pending, BusyTasks, Processed, Retired, Mode, BusyWorkers
<1>4. ASSUME NEW w \in Workers, WorkerCheckState(w) \/ SpuriousWakeup(w)
      PROVE  UNCHANGED Pool!vars
  <2>1. /\ UNCHANGED <<workQueue, cleanupQueue, workerInfo, cleaned, pc>>
        /\ \A v \in Workers : (IsRunning(v)' <=> IsRunning(v))
        /\ BusyWorkers' = BusyWorkers
    BY <1>4 DEF WorkerCheckState, SpuriousWakeup, IsRunning, BusyWorkers, LoaderInv, TypeOK
  <2> QED  BY PoolStutters, <2>1 DEF Pending, BusyTasks, Processed, Retired, Mode
<1>5. CASE WaitAddEnd
  <2>1. UNCHANGED <<cleanupQueue, workerPc, workerInfo, cleaned>> /\ pc = "addEnd" /\ pc' = "signalWait"
    BY <1>5 DEF WaitAddEnd
  <2>2. TasksOf(workQueue)' = TasksOf(workQueue)
    <3>1. CASE workQueue' = workQueue  BY <3>1
    <3>2. CASE workQueue' = Add(workQueue, EndInfo) /\ ~IsFull(workQueue, EndInfo)
      BY InfoTypes, <3>2, AddOK, SlotsOfAdd DEF EndInfo, LoaderInv, RingsOK, TaskSlots, TasksOf
    <3> QED  BY <1>5, <3>1, <3>2 DEF WaitAddEnd
  <2>3. UNCHANGED <<BusyTasks, Processed, Retired, Mode, Pending>>
    BY <2>1, <2>2 DEF BusyTasks, BusyWorkers, Processed, Retired, Mode, Pending, IsRunning
  <2> QED  BY <2>3, PoolStutters
<1>6. CASE UNCHANGED vars
  <2>1. UNCHANGED <<Pending, Processed, Retired, Mode>>
    BY <1>6 DEF vars, Pending, Processed, Retired, Mode, BusyTasks, BusyWorkers, IsRunning
  <2> QED  BY <2>1, PoolStutters
<1>7. ~AddDelayedTaskFails  BY DEF AddDelayedTaskFails
<1> QED
  BY <1>1, <1>2, <1>3, <1>4, <1>5, <1>6, <1>7, StartWorkerImplements, WaitJoinImplements, WaitEndImplements DEF
     OtherStep

LEMMA NextImplements ==
    ASSUME Failures \subseteq {"thread_start"}, LoaderInv, EndOK, EndOK', StagesOK, [Next]_vars
    PROVE  [Pool!Next]_Pool!vars
    BY StepCases, OtherStepsImplement, AddTaskImplements, RunCleanupImplements,
       AddTaskEnqueueImplements, AddTaskUndoImplements, WaitEndImplements,
       WorkerFetchImplements, WorkerProcessImplements

\* The loader's threads do what a pool of tasks promises: no task is lost, run
\* twice or left behind when a wait ends, and at most QUEUE_SIZE - 2 are taken.
\* (That the wait does end is left to the runs.)
THEOREM LoaderImplementsPool ==
    ASSUME Failures \subseteq {"thread_start"}
    PROVE  Spec => Pool!PoolSafety
<1>1. Init => Pool!Init
  <2> SUFFICES ASSUME Init PROVE Pool!Init  OBVIOUS
  <2>1. Pending = {} /\ Processed = {} /\ Retired = {} /\ Mode = "open"
    BY EmptyQueueOK DEF Pending, Processed, Retired, Mode, BusyTasks, TasksOf, Init, BusyWorkers
  <2> QED  BY <2>1 DEF Pool!Init, Pending, Processed, Retired, Mode, BusyTasks
<1>2. Init => StagesOK  BY InitStagesOK
<1>3. LoaderInv /\ StagesOK /\ [Next]_vars => StagesOK'  BY NextStagesOK
<1>4. LoaderInv /\ EndOK /\ EndOK' /\ StagesOK /\ [Next]_vars => [Pool!Next]_Pool!vars  BY NextImplements
<1> QED  BY <1>1, <1>2, <1>3, <1>4, WaitsFinish, PTL DEF Spec, Pool!PoolSafety

=============================================================================
