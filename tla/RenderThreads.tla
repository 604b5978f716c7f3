---------------------------- MODULE RenderThreads ----------------------------
(***************************************************************************)
(* The threads of the player that render voices                            *)
(* (src/src/lib/player/Player.c): Player_set_thread_count, which replaces  *)
(* all of them, render_thread_func, Player_process_voices, del_Player.     *)
(*                                                                         *)
(* The main thread, which runs the client's calls, meets the others at two *)
(* barriers, once before and once after the voices are rendered.  Channels *)
(* are dealt out by number, groups of background voices are taken from a   *)
(* shared counter.                                                         *)
(***************************************************************************)
EXTENDS Integers, FiniteSets

CONSTANTS
    MaxThreads,   \* KQT_THREADS_MAX
    NumChannels,  \* KQT_CHANNELS_MAX
    MaxGroups,    \* bound on the groups of background voices
    Failures,     \* what may fail, a subset of FailureKinds
    Retries       \* whether a client asks for more threads after a failure

(***************************************************************************)
(* "buffers": no memory for the work buffers of a thread.                  *)
(* "states":  no memory for the states of the devices or the plans.        *)
(* "barrier": a barrier cannot be made.                                    *)
(* "thread":  a thread cannot be started.                                  *)
(***************************************************************************)
FailureKinds == {"buffers", "states", "barrier", "thread"}

ASSUME MaxThreadsAssumption == MaxThreads \in Nat \ {0}
ASSUME NumChannelsAssumption == NumChannels \in Nat
ASSUME MaxGroupsAssumption == MaxGroups \in Nat
ASSUME FailuresAssumption == Failures \subseteq FailureKinds
ASSUME RetriesAssumption == Retries \in BOOLEAN

Threads == 0 .. MaxThreads - 1
Main == MaxThreads
Actors == 0 .. MaxThreads
Channels == 0 .. NumChannels - 1
Groups == 0 .. MaxGroups - 1

(***************************************************************************)
(* A barrier of threads (src/src/lib/threads/Barrier.c, over               *)
(* pthread_barrier): it opens for everyone who waits as soon as as many    *)
(* threads have arrived as it was made for.                                *)
(***************************************************************************)

\* initialised, the number of threads it waits for, the threads that wait.
Barriers(threads) ==
    [ready : BOOLEAN, count : Nat, waiting : SUBSET threads]

NoBarrier == [ready |-> FALSE, count |-> 0, waiting |-> {}]

NewBarrier(count) == [ready |-> TRUE, count |-> count, waiting |-> {}]

\* The one who arrives last opens the barrier.
Opens(barrier, a) == Cardinality(barrier.waiting \cup {a}) = barrier.count

Arrive(barrier, a) ==
    [barrier EXCEPT !.waiting = IF Opens(barrier, a) THEN {} ELSE @ \cup {a}]

\* Destroying a barrier is an error while a thread waits at it.
Destroyable(barrier) == barrier.ready => barrier.waiting = {}

VARIABLES
    at,           \* where the main thread and the render threads are
    threadCount,  \* player->thread_count
    oldCount,     \* old_count and new_count of the call that changes it;
    newCount,     \*   newCount is 0 when the player is deleted
    buffers,      \* the threads with work_buffers
    start,        \* player->vgroups_start_barrier
    finish,       \* player->vgroups_finished_barrier
    okToStart,    \* player->ok_to_start
    earlyExit,    \* player->early_exit_threads
    stop,         \* player->stop_threads
    groupCount,   \* bg_group_count of the voice pool
    nextGroup,    \* its atomic_bg_iter_index
    group,        \* the group an actor has taken
    channelsDone, \* history: how often each channel was rendered in this call
    groupsDone,   \* history: how often each group was
    trouble,      \* history: why an earlier call failed
    broken        \* the assertion that has stopped the program

control == <<at, broken>>
counts == <<threadCount, oldCount, newCount, buffers>>
barriers == <<start, finish>>
signals == <<okToStart, earlyExit, stop>>
voices == <<groupCount, nextGroup, group, channelsDone, groupsDone>>
vars == <<control, counts, barriers, signals, voices, trouble>>

MainPlaces == {"idle", "start", "released", "groups", "group", "finish", "finishing", "done",
               "stopping", "join", "barriers", "creating", "join_early", "deleted"}
ThreadPlaces == {"off", "created", "ready", "start", "released", "groups", "group",
                 "finish", "exited"}
Assertions == {"none", "buffers_made_twice", "thread_id_too_high", "barrier_not_ready",
               "barrier_busy"}

TypeOK ==
    /\ at \in [Actors -> MainPlaces \cup ThreadPlaces]
    /\ at[Main] \in MainPlaces
    /\ \A w \in Threads : at[w] \in ThreadPlaces
    /\ threadCount \in 1 .. MaxThreads
    /\ oldCount \in 1 .. MaxThreads
    /\ newCount \in 0 .. MaxThreads
    /\ buffers \subseteq Threads
    /\ start \in Barriers(Actors)
    /\ finish \in Barriers(Actors)
    /\ okToStart \in BOOLEAN
    /\ earlyExit \in BOOLEAN
    /\ stop \in BOOLEAN
    /\ groupCount \in 0 .. MaxGroups
    /\ nextGroup \in Nat
    /\ group \in [Actors -> 0 .. MaxGroups]
    /\ channelsDone \in [Channels -> Nat]
    /\ groupsDone \in [Groups -> Nat]
    /\ trouble \in {"none", "memory", "resource"}
    /\ broken \in Assertions

\* new_Player has set the thread count to 1.
Init ==
    /\ at = [a \in Actors |-> IF a = Main THEN "idle" ELSE "off"]
    /\ threadCount = 1
    /\ oldCount = 1
    /\ newCount = 1
    /\ buffers = {0}
    /\ start = NoBarrier
    /\ finish = NoBarrier
    /\ okToStart = TRUE
    /\ earlyExit = FALSE
    /\ stop = FALSE
    /\ groupCount = 0
    /\ nextGroup = 0
    /\ group = [a \in Actors |-> 0]
    /\ channelsDone = [c \in Channels |-> 0]
    /\ groupsDone = [g \in Groups |-> 0]
    /\ trouble = "none"
    /\ broken = "none"

Running == broken = "none"
MainAt(place) == Running /\ at[Main] = place
Move(a, place) == at' = [at EXCEPT ![a] = place] /\ UNCHANGED broken
Break(assertion) == broken' = assertion /\ UNCHANGED at

\* The threads that have been started and not been joined.
Initialised == {w \in Threads : at[w] # "off"}

(***************************************************************************)
(* The barriers.                                                           *)
(***************************************************************************)

\* Where an actor goes from a barrier that opens.
AfterStart(a) == IF a # Main THEN "released" ELSE IF stop' THEN "join" ELSE "finishing"
AfterFinish(a) == IF a = Main THEN "done" ELSE "ready"

MeetAtStart(a) ==
    IF ~start.ready
    THEN Break("barrier_not_ready") /\ UNCHANGED start
    ELSE /\ start' = Arrive(start, a)
         /\ at' = [x \in Actors |->
                      IF x \notin start.waiting \cup {a} THEN at[x]
                      ELSE IF Opens(start, a) THEN AfterStart(x) ELSE "start"]
         /\ UNCHANGED broken

MeetAtFinish(a) ==
    IF ~finish.ready
    THEN Break("barrier_not_ready") /\ UNCHANGED finish
    ELSE /\ finish' = Arrive(finish, a)
         /\ at' = [x \in Actors |->
                      IF x \notin finish.waiting \cup {a} THEN at[x]
                      ELSE IF Opens(finish, a) THEN AfterFinish(x) ELSE "finish"]
         /\ UNCHANGED broken

(***************************************************************************)
(* Player_process_voices, with one thread or many.                         *)
(***************************************************************************)

\* Playback is over after a memory error (Player.h:135).
ProcessVoices(newGroups) ==
    /\ MainAt("idle")
    /\ trouble # "memory"
    /\ groupCount' = newGroups
    /\ nextGroup' = 0
    /\ channelsDone' = [c \in Channels |-> 0]
    /\ groupsDone' = [g \in Groups |-> 0]
    /\ UNCHANGED <<counts, signals, finish, group, trouble>>
    /\ IF threadCount > 1 THEN MeetAtStart(Main) ELSE Move(Main, "released") /\ UNCHANGED start

\* Wrong: every thread renders every channel.
AllChannels(a) == Channels

ChannelsOf(a) ==
    {c \in Channels : a = Main \/ c % threadCount = a}

\* A render thread is through the first barrier, or the main thread is alone.
RenderChannels(a) ==
    /\ Running
    /\ at[a] = "released"
    /\ UNCHANGED <<counts, barriers, signals, groupCount, nextGroup, group, groupsDone, trouble>>
    /\ IF a # Main /\ stop
       THEN Move(a, "exited") /\ UNCHANGED channelsDone
       ELSE IF a # Main /\ a >= threadCount
       THEN Break("thread_id_too_high") /\ UNCHANGED channelsDone
       ELSE /\ Move(a, "groups")
            /\ channelsDone' =
                  [c \in Channels |-> channelsDone[c] + IF c \in ChannelsOf(a) THEN 1 ELSE 0]

\* Voice_pool_get_next_bg_group_synced: the counter moves in one atomic step.
\* What it counts beyond the last group is left out.
TakeGroup(a) ==
    /\ Running
    /\ at[a] = "groups"
    /\ nextGroup < groupCount
    /\ nextGroup' = nextGroup + 1
    /\ group' = [group EXCEPT ![a] = nextGroup]
    /\ Move(a, "group")
    /\ UNCHANGED <<counts, barriers, signals, groupCount, channelsDone, groupsDone, trouble>>

RenderGroup(a) ==
    /\ Running
    /\ at[a] = "group"
    /\ groupsDone' = [groupsDone EXCEPT ![group[a]] = @ + 1]
    /\ Move(a, "groups")
    /\ UNCHANGED <<counts, barriers, signals, groupCount, nextGroup, group, channelsDone, trouble>>

NoMoreGroups(a) ==
    /\ Running
    /\ at[a] = "groups"
    /\ nextGroup >= groupCount
    /\ UNCHANGED <<counts, signals, start, voices, trouble>>
    /\ IF a = Main THEN Move(Main, "done") /\ UNCHANGED finish ELSE MeetAtFinish(a)

\* Wrong: the main thread does not wait for the others.
MainGoesOn ==
    /\ MainAt("finishing")
    /\ Move(Main, "done")
    /\ UNCHANGED <<counts, signals, barriers, voices, trouble>>

MainWaits ==
    /\ MainAt("finishing")
    /\ MeetAtFinish(Main)
    /\ UNCHANGED <<counts, signals, start, voices, trouble>>

FinishVoices ==
    /\ MainAt("done")
    /\ Move(Main, "idle")
    /\ UNCHANGED <<counts, barriers, signals, voices, trouble>>

(***************************************************************************)
(* render_thread_func outside the rendering.                               *)
(***************************************************************************)

BeginThread(w) ==
    /\ Running
    /\ at[w] = "created"
    /\ okToStart
    /\ Move(w, IF earlyExit THEN "exited" ELSE "ready")
    /\ UNCHANGED <<counts, barriers, signals, voices, trouble>>

AwaitStart(w) ==
    /\ Running
    /\ at[w] = "ready"
    /\ UNCHANGED <<counts, signals, finish, voices, trouble>>
    /\ MeetAtStart(w)

(***************************************************************************)
(* Player_set_thread_count and del_Player.                                 *)
(***************************************************************************)

FailCall(why) == at' = [at EXCEPT ![Main] = "idle"] /\ trouble' = why /\ UNCHANGED broken

\* The work buffers, the device states and the plans for the new count.
SetThreadCount(count) ==
    /\ MainAt("idle")
    /\ count # threadCount
    /\ count > threadCount => Retries \/ trouble = "none"
    /\ oldCount' = threadCount
    /\ newCount' = count
    /\ threadCount' = IF count < threadCount THEN count ELSE threadCount
    /\ UNCHANGED <<barriers, signals, voices>>
    /\ LET added == threadCount .. count - 1
           freed == count .. threadCount - 1
       IN  \/ /\ added \cap buffers # {}
              /\ Break("buffers_made_twice")
              /\ UNCHANGED <<buffers, trouble>>
           \/ /\ "buffers" \in Failures
              /\ \E i \in added :
                    /\ added \cap buffers \cap (0 .. i) = {}
                    /\ buffers' = buffers \cup (threadCount .. i - 1)
              /\ FailCall("memory")
           \/ /\ added \cap buffers = {}
              /\ buffers' = (buffers \cup added) \ freed
              /\ \/ "states" \in Failures /\ FailCall("memory")
                 \/ Move(Main, "stopping") /\ UNCHANGED trouble

\* Wrong: the player goes without its threads.
DeleteAlone ==
    /\ MainAt("idle")
    /\ oldCount' = 1
    /\ newCount' = 0
    /\ Move(Main, "stopping")
    /\ UNCHANGED <<threadCount, buffers, barriers, signals, voices, trouble>>

DeletePlayer ==
    /\ MainAt("idle")
    /\ oldCount' = threadCount
    /\ newCount' = 0
    /\ Move(Main, "stopping")
    /\ UNCHANGED <<threadCount, buffers, barriers, signals, voices, trouble>>

\* The main thread counts as one of those the start barrier waits for.
StopThreads ==
    /\ MainAt("stopping")
    /\ UNCHANGED <<counts, finish, okToStart, earlyExit, voices, trouble>>
    /\ IF oldCount > 1
       THEN stop' = TRUE /\ MeetAtStart(Main)
       ELSE Move(Main, "barriers") /\ UNCHANGED <<start, stop>>

JoinThreads ==
    /\ MainAt("join")
    /\ \A w \in Initialised : at[w] = "exited"
    /\ at' = [a \in Actors |-> IF a = Main THEN "barriers" ELSE "off"]
    /\ stop' = (newCount = 0)
    /\ UNCHANGED <<broken, counts, barriers, okToStart, earlyExit, voices, trouble>>

BarrierCount(count) == count + 1

\* The old barriers go and new ones come if there will be threads.
ReplaceBarriers ==
    /\ MainAt("barriers")
    /\ UNCHANGED <<counts, earlyExit, stop, voices>>
    /\ \/ /\ ~(Destroyable(start) /\ Destroyable(finish))
          /\ Break("barrier_busy")
          /\ UNCHANGED <<barriers, okToStart, trouble>>
       \/ /\ Destroyable(start) /\ Destroyable(finish)
          /\ newCount <= 1
          /\ start' = NoBarrier /\ finish' = NoBarrier
          /\ Move(Main, IF newCount = 0 THEN "deleted" ELSE "creating")
          /\ UNCHANGED <<okToStart, trouble>>
       \/ /\ Destroyable(start) /\ Destroyable(finish)
          /\ newCount > 1
          /\ start' = NewBarrier(BarrierCount(newCount))
          /\ finish' = NewBarrier(BarrierCount(newCount))
          /\ okToStart' = FALSE
          /\ Move(Main, "creating")
          /\ UNCHANGED trouble
       \/ /\ "barrier" \in Failures
          /\ Destroyable(start) /\ Destroyable(finish)
          /\ newCount > 1
          /\ start' \in {NoBarrier, NewBarrier(BarrierCount(newCount))}
          /\ finish' = NoBarrier
          /\ FailCall("resource")
          /\ UNCHANGED okToStart

ThreadsNeeded == IF newCount > 1 THEN newCount ELSE 0

\* Threads are started one by one; each waits for ok_to_start.
CreateThread ==
    /\ MainAt("creating")
    /\ Cardinality(Initialised) < ThreadsNeeded
    /\ Move(Cardinality(Initialised), "created")
    /\ UNCHANGED <<counts, barriers, signals, voices, trouble>>

\* One that does not start sends those before it home.
CreateThreadFails ==
    /\ MainAt("creating")
    /\ "thread" \in Failures
    /\ Cardinality(Initialised) < ThreadsNeeded
    /\ earlyExit' = TRUE
    /\ okToStart' = TRUE
    /\ Move(Main, "join_early")
    /\ UNCHANGED <<counts, barriers, stop, voices, trouble>>

JoinEarly ==
    /\ MainAt("join_early")
    /\ \A w \in Initialised : at[w] = "exited"
    /\ at' = [a \in Actors |-> IF a = Main THEN "idle" ELSE "off"]
    /\ earlyExit' = FALSE
    /\ threadCount' = 1
    /\ trouble' = "resource"
    /\ UNCHANGED <<broken, oldCount, newCount, buffers, barriers, okToStart, stop, voices>>

\* Wrong: the threads are not told.
StartNothing ==
    /\ MainAt("creating")
    /\ Cardinality(Initialised) = ThreadsNeeded
    /\ threadCount' = newCount
    /\ Move(Main, "idle")
    /\ UNCHANGED <<oldCount, newCount, buffers, barriers, signals, voices, trouble>>

StartThreads ==
    /\ MainAt("creating")
    /\ Cardinality(Initialised) = ThreadsNeeded
    /\ okToStart' = TRUE
    /\ threadCount' = newCount
    /\ Move(Main, "idle")
    /\ UNCHANGED <<oldCount, newCount, buffers, barriers, earlyExit, stop, voices, trouble>>

Rendering(a) == RenderChannels(a) \/ TakeGroup(a) \/ RenderGroup(a) \/ NoMoreGroups(a)

ThreadStep(w) == BeginThread(w) \/ AwaitStart(w) \/ Rendering(w)

CallStep ==
    \/ Rendering(Main) \/ MainWaits \/ FinishVoices
    \/ StopThreads \/ JoinThreads \/ ReplaceBarriers
    \/ CreateThread \/ CreateThreadFails \/ JoinEarly \/ StartThreads

Next ==
    \/ \E newGroups \in 0 .. MaxGroups : ProcessVoices(newGroups)
    \/ \E count \in 1 .. MaxThreads : SetThreadCount(count)
    \/ DeletePlayer
    \/ CallStep
    \/ \E w \in Threads : ThreadStep(w)

\* The system runs every thread that can go on; no call of the client is taken
\* for granted.
Fairness ==
    /\ WF_vars(CallStep)
    /\ \A w \in Threads : WF_vars(ThreadStep(w))

Spec == Init /\ [][Next]_vars /\ Fairness

(***************************************************************************)
(* Properties.                                                             *)
(***************************************************************************)

\* No assertion of the code fails: work buffers are made once (Player.c:286),
\* no thread has a number beyond the count (Player.c:1235), and no barrier is
\* waited at before it is made or destroyed while someone waits (Barrier.c).
AssertionsHold == broken = "none"

\* No channel and no group of background voices is rendered twice in a call.
RenderedOnce ==
    /\ \A c \in Channels : channelsDone[c] <= 1
    /\ \A g \in Groups : groupsDone[g] <= 1

\* A render thread touches voices only while the main thread is between the
\* two barriers of a call.
VoicesNotShared ==
    \A w \in Threads :
        (at[w] \in {"groups", "group"} \/ (at[w] = "released" /\ ~stop)) =>
            at[Main] \in {"finishing", "finish"}

\* However many threads there are and whatever failed before, a call renders
\* every channel and group once, voices are touched only by whose turn it is,
\* and the threads meet as the assertions of the code demand.
RenderingIsSafe == TypeOK /\ AssertionsHold /\ RenderedOnce /\ VoicesNotShared

\* No render thread outlives the player it points to.
NoThreadLeft == at[Main] = "deleted" => Initialised = {}

\* Every call of the client returns: nobody waits at a barrier for a thread
\* that does not come.
CallsReturn == at[Main] # "idle" ~> at[Main] \in {"idle", "deleted"}

\* What the threads do together is one call that renders everything once
\* and then goes on.
rendering ==
    \/ at[Main] \in {"released", "groups", "group", "finish", "finishing", "done"}
    \/ at[Main] = "start" /\ ~stop

remaining ==
    IF ~rendering THEN {}
    ELSE {<<"channel", c>> : c \in {c \in Channels : channelsDone[c] = 0}}
             \cup {<<"group", g>> : g \in {g \in Groups : g < groupCount /\ groupsDone[g] = 0}}

Call == INSTANCE RenderCall WITH
    Pieces <- ({"channel"} \X Channels) \cup ({"group"} \X Groups),
    busy <- rendering,
    todo <- remaining

ImplementsRenderCall == Call!CallSpec

=============================================================================
