------------------------- MODULE RenderThreadsProofs -------------------------
(***************************************************************************)
(* The threads that render voices, for any number of threads, channels and *)
(* groups: the threads meet at the barriers as the assertions of the code  *)
(* demand, a call renders every channel and every group once, nobody but   *)
(* the thread whose turn it is touches voices, and no thread outlives the  *)
(* player.  Together the threads implement one call (RenderCall).          *)
(***************************************************************************)
EXTENDS RenderThreads, FiniteSetTheorems, TLAPS

\* What is assumed of failures: a client gives up after one, and it is none of
\* the two after which the code goes on with a wrong number of threads (a
\* barrier that cannot be made, device states that cannot be made).
Tame ==
    /\ Failures \subseteq {"buffers", "thread"}
    /\ Retries => Failures = {}

\* The inductive invariant.

\* The threads the main thread counts on: those before the change while they
\* are being stopped, the new ones while they are being made.
Stopping == at[Main] = "stopping" \/ (stop /\ at[Main] \in {"start", "join"})
Members ==
    IF Stopping THEN oldCount
    ELSE IF at[Main] = "creating" THEN newCount ELSE threadCount
Member(a) == a = Main \/ a < Members

Calling == {"idle", "start", "released", "groups", "group", "finish", "finishing", "done"}
Meeting == Calling \cup {"stopping", "join"}

\* When the signals to the threads are given.
SignalsFit ==
    /\ stop => at[Main] \in {"start", "join", "barriers", "deleted"}
    /\ at[Main] = "join" => stop
    /\ stop /\ at[Main] = "barriers" => newCount = 0
    /\ earlyExit <=> at[Main] = "join_early"
    /\ at[Main] = "creating" /\ newCount > 1 => ~okToStart
    /\ at[Main] \in {"creating", "join_early"} => newCount # 0

\* Just the members have been started; where there is one member, none has.
CrewFits ==
    /\ at[Main] \in Meeting =>
            \A w \in Threads : at[w] # "off" <=> Members > 1 /\ w < Members
    /\ at[Main] \in {"barriers", "deleted"} => \A w \in Threads : at[w] = "off"
    /\ at[Main] = "creating" =>
            \E k \in 0 .. ThreadsNeeded : \A w \in Threads :
                at[w] = IF w < k THEN "created" ELSE "off"
    /\ at[Main] = "join_early" =>
            \A w \in Threads : at[w] \in {"off", "created", "exited"}

\* The barriers are made for the members and the main thread, and hold those
\* who wait.
BarriersFit ==
    /\ at[Main] \in Meeting \cup {"creating"} /\ Members > 1 =>
            /\ start.ready /\ finish.ready
            /\ start.count = Members + 1 /\ finish.count = Members + 1
    /\ \A a \in Actors : a \in start.waiting <=> at[a] = "start"
    /\ \A a \in Actors : a \in finish.waiting <=> at[a] = "finish"

\* The threads are before the first barrier, between the two, or leave.
PhasesFit ==
    /\ at[Main] \in {"idle", "start", "released", "groups", "group", "done", "stopping"} =>
            \A w \in Threads : at[w] \in {"off", "created", "ready", "start"}
    /\ at[Main] \in {"finishing", "finish"} =>
            \A w \in Threads : at[w] \in {"off", "released", "groups", "group", "finish"}
    /\ at[Main] = "join" => \A w \in Threads : at[w] \in {"off", "released", "exited"}
    /\ at[Main] \in {"start", "finishing", "finish", "join"} => Members > 1
    /\ at[Main] \in {"released", "groups", "group"} => threadCount = 1

\* While nothing has failed, the threads that were asked for have buffers.
Wanted ==
    IF Stopping \/ at[Main] \in {"barriers", "deleted", "creating", "join_early"}
    THEN newCount ELSE threadCount
BuffersFit ==
    /\ trouble = "none" /\ Wanted # 0 => \A w \in Threads : w \in buffers <=> w < Wanted
    /\ Failures = {} => trouble = "none" /\ at[Main] # "join_early"

\* Groups below the counter are taken, by one actor each, and rendered when
\* nobody holds them any more.
Holds(a, g) == at[a] = "group" /\ group[a] = g
GroupsFit ==
    /\ nextGroup <= groupCount
    /\ \A a \in Actors : at[a] = "group" => group[a] < nextGroup
    /\ \A a, b \in Actors : a # b /\ at[a] = "group" /\ at[b] = "group" => group[a] # group[b]
    /\ \A g \in Groups : groupsDone[g] =
            IF g < nextGroup /\ \A a \in Actors : ~Holds(a, g) THEN 1 ELSE 0
    /\ \A w \in Threads : at[w] = "finish" => nextGroup = groupCount
    /\ at[Main] = "done" => nextGroup = groupCount

\* A channel is rendered when its thread is through with its channels.
ChannelsFit ==
    /\ \A c \in Channels : channelsDone[c] <= 1
    /\ (at[Main] = "start" /\ ~stop) \/ at[Main] = "released" =>
            \A c \in Channels : channelsDone[c] = 0
    /\ at[Main] \in {"finishing", "finish"} =>
            \A c \in Channels :
                channelsDone[c] = IF at[c % threadCount] = "released" THEN 0 ELSE 1
    /\ at[Main] \in {"groups", "group", "done"} => \A c \in Channels : channelsDone[c] = 1

IInv ==
    /\ TypeOK /\ AssertionsHold
    /\ SignalsFit /\ CrewFits /\ BarriersFit /\ PhasesFit /\ BuffersFit
    /\ GroupsFit /\ ChannelsFit

\* The barriers.

LEMMA ActorFacts ==
    /\ MaxThreads \in Nat /\ MaxThreads >= 1
    /\ Main \in Actors /\ Main \notin Threads /\ Main = MaxThreads
    /\ \A a : a \in Actors <=> a \in Threads \/ a = Main
    /\ \A a \in Actors : a \in Int /\ 0 <= a /\ (a # Main => a < MaxThreads)
    BY MaxThreadsAssumption DEF Main, Actors, Threads

\* The thread that renders a channel.
LEMMA ChannelOwner ==
    ASSUME TypeOK, NEW c \in Channels
    PROVE  c % threadCount \in Threads /\ c % threadCount < threadCount
BY NumChannelsAssumption, MaxThreadsAssumption DEF TypeOK, Channels, Threads

\* A barrier opens exactly when all the members and the main thread are there.
LEMMA OpensWhenAllAreThere ==
    ASSUME NEW n \in 2 .. MaxThreads, NEW b \in Barriers(Actors), b.count = n + 1,
           NEW a \in Actors, \A x \in b.waiting \cup {a} : x = Main \/ x < n
    PROVE  Opens(b, a) <=> \A x \in Actors : x = Main \/ x < n => x \in b.waiting \cup {a}
<1> DEFINE All == (0 .. n - 1) \cup {Main}
           There == b.waiting \cup {a}
<1>1. n \in Nat /\ n > 1 /\ n <= MaxThreads /\ n - 1 \in Int /\ Main \notin 0 .. n - 1  BY ActorFacts
<1>2. IsFiniteSet(0 .. n - 1) /\ Cardinality(0 .. n - 1) = n  BY <1>1, FS_Interval
<1>3. IsFiniteSet(All) /\ Cardinality(All) = n + 1  BY <1>1, <1>2, FS_AddElement
<1>4. \A x \in Actors : x \in All <=> x = Main \/ x < n  BY <1>1, ActorFacts
<1>5. There \in SUBSET All  BY <1>4 DEF Barriers
<1>6. There = All <=> \A x \in Actors : x \in All => x \in There  BY <1>1, ActorFacts, <1>5 DEF Actors
<1> QED  BY <1>4, <1>6, <1>3, <1>5, FS_Subset DEF Opens

\* What happens to the others when an actor arrives at the first barrier.
LEMMA MeetingAtStart ==
    ASSUME IInv, at[Main] \in Meeting, Members > 1, NEW a \in Actors, Member(a),
           MeetAtStart(a)
    PROVE  /\ UNCHANGED broken
           /\ start' \in Barriers(Actors)
           /\ start'.ready /\ start'.count = Members + 1
           /\ \/ /\ \A x \in Actors : Member(x) => x = a \/ at[x] = "start"
                 /\ start'.waiting = {}
                 /\ at' = [x \in Actors |-> IF Member(x) THEN AfterStart(x) ELSE at[x]]
              \/ /\ \E x \in Actors : Member(x) /\ x # a /\ at[x] # "start"
                 /\ start'.waiting = start.waiting \cup {a}
                 /\ at' = [at EXCEPT ![a] = "start"]
<1>1. /\ start \in Barriers(Actors) /\ start.ready /\ start.count = Members + 1
      /\ start.waiting \in SUBSET Actors  BY DEF IInv, TypeOK, BarriersFit, Barriers
<1>2. Members \in 2 .. MaxThreads  BY ActorFacts DEF IInv, TypeOK, Members
<1>3. \A x \in Actors : x \in start.waiting <=> at[x] = "start"  BY DEF IInv, BarriersFit
<1>4. \A x \in Actors : at[x] = "start" => Member(x)  BY ActorFacts DEF IInv, CrewFits, Member
<1>5. Opens(start, a) <=> \A x \in Actors : Member(x) => x = a \/ at[x] = "start"
  BY <1>1, <1>2, <1>3, OpensWhenAllAreThere, <1>4 DEF Member
<1>6. /\ UNCHANGED broken /\ start' = Arrive(start, a)
      /\ at' = [x \in Actors |->
                   IF x \notin start.waiting \cup {a} THEN at[x]
                   ELSE IF Opens(start, a) THEN AfterStart(x) ELSE "start"]  BY <1>1 DEF MeetAtStart
<1>7. start' \in Barriers(Actors) /\ start'.ready /\ start'.count = Members + 1  BY <1>1, <1>6 DEF Arrive, Barriers
<1>8. CASE Opens(start, a)  BY <1>1, <1>6, <1>8, <1>3, <1>4, <1>5, <1>7 DEF Arrive, Barriers
<1>9. CASE ~Opens(start, a)
  <2>1. at' = [at EXCEPT ![a] = "start"]  BY <1>3, <1>6, <1>9 DEF IInv, TypeOK
  <2> QED  BY <1>5, <1>6, <1>7, <1>9, <2>1, <1>1 DEF Arrive, Barriers
<1> QED  BY <1>8, <1>9

\* The same for the second barrier.
LEMMA MeetingAtFinish ==
    ASSUME IInv, at[Main] \in {"finishing", "finish"}, NEW a \in Actors, Member(a),
           MeetAtFinish(a)
    PROVE  /\ UNCHANGED broken
           /\ finish' \in Barriers(Actors)
           /\ finish'.ready /\ finish'.count = Members + 1
           /\ \/ /\ \A x \in Actors : Member(x) => x = a \/ at[x] = "finish"
                 /\ finish'.waiting = {}
                 /\ at' = [x \in Actors |-> IF Member(x) THEN AfterFinish(x) ELSE at[x]]
              \/ /\ \E x \in Actors : Member(x) /\ x # a /\ at[x] # "finish"
                 /\ finish'.waiting = finish.waiting \cup {a}
                 /\ at' = [at EXCEPT ![a] = "finish"]
<1>1. Members > 1 /\ at[Main] \in Meeting  BY DEF IInv, PhasesFit, Meeting, Calling
<1>2. /\ finish \in Barriers(Actors) /\ finish.ready /\ finish.count = Members + 1
      /\ finish.waiting \in SUBSET Actors  BY <1>1 DEF IInv, TypeOK, BarriersFit, Barriers
<1>3. Members \in 2 .. MaxThreads  BY <1>1, ActorFacts DEF IInv, TypeOK, Members
<1>4. \A x \in Actors : x \in finish.waiting <=> at[x] = "finish"  BY DEF IInv, BarriersFit
<1>5. \A x \in Actors : at[x] = "finish" => Member(x)  BY <1>1, ActorFacts DEF IInv, CrewFits, Member
<1>6. Opens(finish, a) <=> \A x \in Actors : Member(x) => x = a \/ at[x] = "finish"
  BY <1>2, <1>3, <1>4, OpensWhenAllAreThere, <1>5 DEF Member
<1>7. /\ UNCHANGED broken /\ finish' = Arrive(finish, a)
      /\ at' = [x \in Actors |->
                   IF x \notin finish.waiting \cup {a} THEN at[x]
                   ELSE IF Opens(finish, a) THEN AfterFinish(x) ELSE "finish"]  BY <1>2 DEF MeetAtFinish
<1>8. finish' \in Barriers(Actors) /\ finish'.ready /\ finish'.count = Members + 1  BY <1>2, <1>7 DEF Arrive, Barriers
<1>9. CASE Opens(finish, a)  BY <1>2, <1>7, <1>9, <1>4, <1>5, <1>6, <1>8 DEF Arrive, Barriers
<1>10. CASE ~Opens(finish, a)
  <2>1. at' = [at EXCEPT ![a] = "finish"]  BY <1>4, <1>7, <1>10 DEF IInv, TypeOK
  <2> QED  BY <1>6, <1>7, <1>8, <1>10, <2>1, <1>2 DEF Arrive, Barriers
<1> QED  BY <1>9, <1>10

\* Every step keeps the invariant.

LEMMA TakeGroupKeeps ==
    ASSUME Tame, IInv, NEW a \in Actors, TakeGroup(a)
    PROVE  IInv'
<1>1. TypeOK'
  <2>1. nextGroup \in 0 .. MaxGroups /\ nextGroup + 1 \in Nat  BY MaxGroupsAssumption DEF IInv, TypeOK, TakeGroup
  <2>2. a # Main => at'[a] \in ThreadPlaces  BY DEF IInv, TypeOK, TakeGroup, Move, ThreadPlaces
  <2> QED  BY <2>1, ActorFacts DEF IInv, TypeOK, TakeGroup, Move, MainPlaces, ThreadPlaces, counts, barriers, signals
<1>2. AssertionsHold'
  BY ActorFacts DEF IInv, TypeOK, counts, barriers, signals, Running, Move, TakeGroup, AssertionsHold
<1>3. SignalsFit'  BY ActorFacts DEF IInv, TypeOK, counts, barriers, signals, Running, Move, TakeGroup, SignalsFit
<1>4. CrewFits'
  BY ActorFacts DEF IInv, TypeOK, counts, barriers, signals, Running, Move, TakeGroup, ThreadsNeeded, Stopping,
     Members, Calling, Meeting, SignalsFit, CrewFits
<1>5. BarriersFit'
  BY ActorFacts DEF IInv, TypeOK, counts, barriers, signals, Running, Move, TakeGroup, ThreadsNeeded, Stopping,
     Members, Calling, Meeting, SignalsFit, CrewFits, BarriersFit, PhasesFit
<1>6. PhasesFit'
  BY ActorFacts DEF IInv, TypeOK, counts, barriers, signals, Running, Move, TakeGroup, ThreadsNeeded, Stopping,
     Members, Calling, Meeting, SignalsFit, CrewFits, PhasesFit
<1>7. BuffersFit'
  BY ActorFacts DEF IInv, TypeOK, counts, barriers, signals, Running, Move, TakeGroup, Stopping, SignalsFit, Wanted,
     BuffersFit
<1>8. GroupsFit'
  BY ActorFacts DEF IInv, TypeOK, Groups, counts, barriers, signals, Running, Move, TakeGroup, ThreadsNeeded,
     Stopping, Members, Calling, Meeting, SignalsFit, CrewFits, PhasesFit, Holds, GroupsFit
<1>9. ChannelsFit'
  BY ActorFacts, ChannelOwner DEF IInv, TypeOK, Channels, counts, barriers, signals, Running, Move, TakeGroup,
     ThreadsNeeded, Stopping, Members, Calling, Meeting, SignalsFit, CrewFits, PhasesFit, ChannelsFit
<1> QED  BY <1>1, <1>2, <1>3, <1>4, <1>5, <1>6, <1>7, <1>8, <1>9 DEF IInv

LEMMA RenderGroupKeeps ==
    ASSUME Tame, IInv, NEW a \in Actors, RenderGroup(a)
    PROVE  IInv'
<1>1. TypeOK'
  <2>1. groupsDone' \in [Groups -> Nat]
    <3>1. \A g \in Groups : groupsDone[g] + 1 \in Nat  BY DEF IInv, TypeOK
    <3> QED  BY <3>1 DEF IInv, TypeOK, RenderGroup
  <2> QED
    BY <2>1, ActorFacts DEF IInv, TypeOK, RenderGroup, Move, MainPlaces, ThreadPlaces, counts, barriers, signals
<1>2. AssertionsHold'
  BY ActorFacts DEF IInv, TypeOK, counts, barriers, signals, Running, Move, RenderGroup, AssertionsHold
<1>3. SignalsFit'  BY ActorFacts DEF IInv, TypeOK, counts, barriers, signals, Running, Move, RenderGroup, SignalsFit
<1>4. CrewFits'
  BY ActorFacts DEF IInv, TypeOK, counts, barriers, signals, Running, Move, RenderGroup, ThreadsNeeded, Stopping,
     Members, Calling, Meeting, SignalsFit, CrewFits
<1>5. BarriersFit'
  BY ActorFacts DEF IInv, TypeOK, counts, barriers, signals, Running, Move, RenderGroup, ThreadsNeeded, Stopping,
     Members, Calling, Meeting, SignalsFit, CrewFits, BarriersFit, PhasesFit
<1>6. PhasesFit'
  BY ActorFacts DEF IInv, TypeOK, counts, barriers, signals, Running, Move, RenderGroup, ThreadsNeeded, Stopping,
     Members, Calling, Meeting, SignalsFit, CrewFits, PhasesFit
<1>7. BuffersFit'
  BY ActorFacts DEF IInv, TypeOK, counts, barriers, signals, Running, Move, RenderGroup, Stopping, SignalsFit, Wanted,
     BuffersFit
<1>8. GroupsFit'
  BY ActorFacts DEF IInv, TypeOK, Groups, counts, barriers, signals, Running, Move, RenderGroup, ThreadsNeeded,
     Stopping, Members, Calling, Meeting, SignalsFit, CrewFits, PhasesFit, Holds, GroupsFit
<1>9. ChannelsFit'
  BY ActorFacts, ChannelOwner DEF IInv, TypeOK, Channels, counts, barriers, signals, Running, Move, RenderGroup,
     ThreadsNeeded, Stopping, Members, Calling, Meeting, SignalsFit, CrewFits, PhasesFit, ChannelsFit
<1> QED  BY <1>1, <1>2, <1>3, <1>4, <1>5, <1>6, <1>7, <1>8, <1>9 DEF IInv

LEMMA FinishVoicesKeeps ==
    ASSUME Tame, IInv, FinishVoices
    PROVE  IInv'
<1>1. TypeOK'
  BY ActorFacts DEF IInv, TypeOK, Channels, Groups, Barriers, counts, barriers, signals, voices, MainPlaces,
     ThreadPlaces, Assertions, Running, MainAt, Move, FinishVoices
<1>2. AssertionsHold'
  BY ActorFacts DEF IInv, TypeOK, counts, barriers, signals, voices, Running, MainAt, Move, FinishVoices,
     AssertionsHold
<1>3. SignalsFit'
  BY ActorFacts DEF IInv, TypeOK, counts, barriers, signals, voices, Running, MainAt, Move, FinishVoices, SignalsFit
<1>4. CrewFits'
  BY ActorFacts DEF IInv, TypeOK, counts, barriers, signals, voices, Running, MainAt, Move, FinishVoices,
     ThreadsNeeded, Stopping, Members, Calling, Meeting, SignalsFit, CrewFits
<1>5. BarriersFit'
  BY ActorFacts DEF IInv, TypeOK, counts, barriers, signals, voices, Running, MainAt, Move, FinishVoices,
     ThreadsNeeded, Stopping, Members, Calling, Meeting, SignalsFit, CrewFits, BarriersFit, PhasesFit
<1>6. PhasesFit'
  BY ActorFacts DEF IInv, TypeOK, counts, barriers, signals, voices, Running, MainAt, Move, FinishVoices,
     ThreadsNeeded, Stopping, Members, Calling, Meeting, SignalsFit, CrewFits, PhasesFit
<1>7. BuffersFit'
  BY ActorFacts DEF IInv, TypeOK, counts, barriers, signals, voices, Running, MainAt, Move, FinishVoices, Stopping,
     SignalsFit, Wanted, BuffersFit
<1>8. GroupsFit'
  BY ActorFacts DEF IInv, TypeOK, Groups, counts, barriers, signals, voices, Running, MainAt, Move, FinishVoices,
     ThreadsNeeded, Stopping, Members, Calling, Meeting, SignalsFit, CrewFits, PhasesFit, Holds, GroupsFit
<1>9. ChannelsFit'
  BY ActorFacts, ChannelOwner DEF IInv, TypeOK, Channels, counts, barriers, signals, voices, Running, MainAt, Move,
     FinishVoices, ThreadsNeeded, Stopping, Members, Calling, Meeting, SignalsFit, CrewFits, PhasesFit, ChannelsFit
<1> QED  BY <1>1, <1>2, <1>3, <1>4, <1>5, <1>6, <1>7, <1>8, <1>9 DEF IInv

LEMMA DeletePlayerKeeps ==
    ASSUME Tame, IInv, DeletePlayer
    PROVE  IInv'
<1>1. TypeOK'
  BY ActorFacts DEF IInv, TypeOK, Channels, Groups, Barriers, barriers, signals, voices, MainPlaces, ThreadPlaces,
     Assertions, Running, MainAt, Move, DeletePlayer
<1>2. AssertionsHold'
  BY ActorFacts DEF IInv, TypeOK, barriers, signals, voices, Running, MainAt, Move, DeletePlayer, AssertionsHold
<1>3. SignalsFit'
  BY ActorFacts DEF IInv, TypeOK, barriers, signals, voices, Running, MainAt, Move, DeletePlayer, SignalsFit
<1>4. CrewFits'
  BY ActorFacts DEF IInv, TypeOK, barriers, signals, voices, Running, MainAt, Move, DeletePlayer, ThreadsNeeded,
     Stopping, Members, Calling, Meeting, SignalsFit, CrewFits
<1>5. BarriersFit'
  BY ActorFacts DEF IInv, TypeOK, barriers, signals, voices, Running, MainAt, Move, DeletePlayer, ThreadsNeeded,
     Stopping, Members, Calling, Meeting, SignalsFit, CrewFits, BarriersFit, PhasesFit
<1>6. PhasesFit'
  BY ActorFacts DEF IInv, TypeOK, barriers, signals, voices, Running, MainAt, Move, DeletePlayer, ThreadsNeeded,
     Stopping, Members, Calling, Meeting, SignalsFit, CrewFits, PhasesFit
<1>7. BuffersFit'
  BY ActorFacts DEF IInv, TypeOK, barriers, signals, voices, Running, MainAt, Move, DeletePlayer, Stopping,
     SignalsFit, Wanted, BuffersFit
<1>8. GroupsFit'
  BY ActorFacts DEF IInv, TypeOK, Groups, barriers, signals, voices, Running, MainAt, Move, DeletePlayer,
     ThreadsNeeded, Stopping, Members, Calling, Meeting, SignalsFit, CrewFits, PhasesFit, Holds, GroupsFit
<1>9. ChannelsFit'
  BY ActorFacts, ChannelOwner DEF IInv, TypeOK, Channels, barriers, signals, voices, Running, MainAt, Move,
     DeletePlayer, ThreadsNeeded, Stopping, Members, Calling, Meeting, SignalsFit, CrewFits, PhasesFit, ChannelsFit
<1> QED  BY <1>1, <1>2, <1>3, <1>4, <1>5, <1>6, <1>7, <1>8, <1>9 DEF IInv

LEMMA JoinThreadsKeeps ==
    ASSUME Tame, IInv, JoinThreads
    PROVE  IInv'
<1>1. TypeOK'
  BY ActorFacts DEF IInv, TypeOK, Channels, Groups, Barriers, counts, barriers, voices, MainPlaces, ThreadPlaces,
     Assertions, Running, MainAt, Initialised, JoinThreads
<1>2. AssertionsHold'
  BY ActorFacts DEF IInv, TypeOK, counts, barriers, voices, Running, MainAt, Initialised, JoinThreads, AssertionsHold
<1>3. SignalsFit'
  BY ActorFacts DEF IInv, TypeOK, counts, barriers, voices, Running, MainAt, Initialised, JoinThreads, SignalsFit
<1>4. CrewFits'
  BY ActorFacts DEF IInv, TypeOK, counts, barriers, voices, Running, MainAt, Initialised, JoinThreads, ThreadsNeeded,
     Stopping, Members, Calling, Meeting, SignalsFit, CrewFits
<1>5. BarriersFit'
  BY ActorFacts DEF IInv, TypeOK, counts, barriers, voices, Running, MainAt, Initialised, JoinThreads, ThreadsNeeded,
     Stopping, Members, Calling, Meeting, SignalsFit, CrewFits, BarriersFit, PhasesFit
<1>6. PhasesFit'
  BY ActorFacts DEF IInv, TypeOK, counts, barriers, voices, Running, MainAt, Initialised, JoinThreads, ThreadsNeeded,
     Stopping, Members, Calling, Meeting, SignalsFit, CrewFits, PhasesFit
<1>7. BuffersFit'
  BY ActorFacts DEF IInv, TypeOK, counts, barriers, voices, Running, MainAt, Initialised, JoinThreads, Stopping,
     SignalsFit, Wanted, BuffersFit
<1>8. GroupsFit'
  BY ActorFacts DEF IInv, TypeOK, Groups, counts, barriers, voices, Running, MainAt, Initialised, JoinThreads,
     ThreadsNeeded, Stopping, Members, Calling, Meeting, SignalsFit, CrewFits, PhasesFit, Holds, GroupsFit
<1>9. ChannelsFit'
  BY ActorFacts, ChannelOwner DEF IInv, TypeOK, Channels, counts, barriers, voices, Running, MainAt, Initialised,
     JoinThreads, ThreadsNeeded, Stopping, Members, Calling, Meeting, SignalsFit, CrewFits, PhasesFit, ChannelsFit
<1> QED  BY <1>1, <1>2, <1>3, <1>4, <1>5, <1>6, <1>7, <1>8, <1>9 DEF IInv

LEMMA CreateThreadFailsKeeps ==
    ASSUME Tame, IInv, CreateThreadFails
    PROVE  IInv'
<1>1. TypeOK'
  BY ActorFacts DEF IInv, TypeOK, Channels, Groups, Barriers, counts, barriers, voices, MainPlaces, ThreadPlaces,
     Assertions, Running, MainAt, Move, Initialised, ThreadsNeeded, CreateThreadFails
<1>2. AssertionsHold'
  BY ActorFacts DEF IInv, TypeOK, counts, barriers, voices, Running, MainAt, Move, Initialised, ThreadsNeeded,
     CreateThreadFails, AssertionsHold
<1>3. SignalsFit'
  BY ActorFacts DEF IInv, TypeOK, counts, barriers, voices, Running, MainAt, Move, Initialised, ThreadsNeeded,
     CreateThreadFails, SignalsFit
<1>4. CrewFits'
  BY ActorFacts DEF IInv, TypeOK, counts, barriers, voices, Running, MainAt, Move, Initialised, ThreadsNeeded,
     CreateThreadFails, Stopping, Members, Calling, Meeting, SignalsFit, CrewFits
<1>5. BarriersFit'
  BY ActorFacts DEF IInv, TypeOK, counts, barriers, voices, Running, MainAt, Move, Initialised, ThreadsNeeded,
     CreateThreadFails, Stopping, Members, Calling, Meeting, SignalsFit, CrewFits, BarriersFit, PhasesFit
<1>6. PhasesFit'
  BY ActorFacts DEF IInv, TypeOK, counts, barriers, voices, Running, MainAt, Move, Initialised, ThreadsNeeded,
     CreateThreadFails, Stopping, Members, Calling, Meeting, SignalsFit, CrewFits, PhasesFit
<1>7. BuffersFit'
  BY ActorFacts DEF IInv, TypeOK, counts, barriers, voices, Running, MainAt, Move, Initialised, ThreadsNeeded,
     CreateThreadFails, Stopping, SignalsFit, Wanted, BuffersFit
<1>8. GroupsFit'
  BY ActorFacts DEF IInv, TypeOK, Groups, counts, barriers, voices, Running, MainAt, Move, Initialised, ThreadsNeeded,
     CreateThreadFails, Stopping, Members, Calling, Meeting, SignalsFit, CrewFits, PhasesFit, Holds, GroupsFit
<1>9. ChannelsFit'
  BY ActorFacts, ChannelOwner DEF IInv, TypeOK, Channels, counts, barriers, voices, Running, MainAt, Move,
     Initialised, ThreadsNeeded, CreateThreadFails, Stopping, Members, Calling, Meeting, SignalsFit, CrewFits,
     PhasesFit, ChannelsFit
<1> QED  BY <1>1, <1>2, <1>3, <1>4, <1>5, <1>6, <1>7, <1>8, <1>9 DEF IInv

LEMMA BeginThreadKeeps ==
    ASSUME Tame, IInv, NEW w \in Threads, BeginThread(w)
    PROVE  IInv'
<1>1. TypeOK'
  BY ActorFacts DEF IInv, TypeOK, Channels, Groups, Barriers, counts, barriers, signals, voices, MainPlaces,
     ThreadPlaces, Assertions, Running, Move, BeginThread
<1>2. AssertionsHold'
  BY ActorFacts DEF IInv, TypeOK, counts, barriers, signals, voices, Running, Move, BeginThread, AssertionsHold
<1>3. SignalsFit'
  BY ActorFacts DEF IInv, TypeOK, counts, barriers, signals, voices, Running, Move, BeginThread, SignalsFit
<1>4. CrewFits'
  <2>1. at[w] = "created" /\ at' = [at EXCEPT ![w] = IF earlyExit THEN "exited" ELSE "ready"]
    BY DEF BeginThread, Move
  <2>2. at[Main] = "creating" => FALSE
    BY <2>1, ActorFacts DEF IInv, CrewFits, ThreadsNeeded, Threads, SignalsFit, BeginThread
  <2>3. at'[Main] = at[Main] /\ at[w] # "off" /\ (at[Main] = "join_early" => earlyExit)
    BY <2>1, ActorFacts DEF IInv, SignalsFit, TypeOK
  <2>4. UNCHANGED <<Members, ThreadsNeeded>>
    BY <2>3 DEF BeginThread, Members, Stopping, ThreadsNeeded, counts, signals
  <2> QED  BY <2>1, <2>2, <2>3, <2>4, ActorFacts DEF IInv, TypeOK, CrewFits, Meeting, Calling
<1>5. BarriersFit'
  BY ActorFacts DEF IInv, TypeOK, counts, barriers, signals, voices, Running, Move, BeginThread, ThreadsNeeded,
     Stopping, Members, Calling, Meeting, SignalsFit, CrewFits, BarriersFit, PhasesFit
<1>6. PhasesFit'
  BY ActorFacts DEF IInv, TypeOK, counts, barriers, signals, voices, Running, Move, BeginThread, ThreadsNeeded,
     Stopping, Members, Calling, Meeting, SignalsFit, CrewFits, PhasesFit
<1>7. BuffersFit'
  BY ActorFacts DEF IInv, TypeOK, counts, barriers, signals, voices, Running, Move, BeginThread, Stopping, SignalsFit,
     Wanted, BuffersFit
<1>8. GroupsFit'
  BY ActorFacts DEF IInv, TypeOK, Groups, counts, barriers, signals, voices, Running, Move, BeginThread,
     ThreadsNeeded, Stopping, Members, Calling, Meeting, SignalsFit, CrewFits, PhasesFit, Holds, GroupsFit
<1>9. ChannelsFit'
  BY ActorFacts, ChannelOwner DEF IInv, TypeOK, Channels, counts, barriers, signals, voices, Running, Move,
     BeginThread, ThreadsNeeded, Stopping, Members, Calling, Meeting, SignalsFit, CrewFits, PhasesFit, ChannelsFit
<1> QED  BY <1>1, <1>2, <1>3, <1>4, <1>5, <1>6, <1>7, <1>8, <1>9 DEF IInv

LEMMA JoinEarlyKeeps ==
    ASSUME Tame, IInv, JoinEarly
    PROVE  IInv'
<1>1. TypeOK'
  <2>1. threadCount' \in 1 .. MaxThreads  BY ActorFacts DEF JoinEarly
  <2> QED  BY <2>1, ActorFacts DEF IInv, TypeOK, JoinEarly, barriers, voices, MainPlaces, ThreadPlaces
<1>2. AssertionsHold'
  BY ActorFacts DEF IInv, TypeOK, barriers, voices, Running, MainAt, Initialised, JoinEarly, AssertionsHold
<1>3. SignalsFit'
  BY ActorFacts DEF IInv, TypeOK, barriers, voices, Running, MainAt, Initialised, JoinEarly, SignalsFit
<1>4. CrewFits'
  BY ActorFacts DEF IInv, TypeOK, barriers, voices, Running, MainAt, Initialised, ThreadsNeeded, JoinEarly, Stopping,
     Members, Calling, Meeting, SignalsFit, CrewFits
<1>5. BarriersFit'
  BY ActorFacts DEF IInv, TypeOK, barriers, voices, Running, MainAt, Initialised, ThreadsNeeded, JoinEarly, Stopping,
     Members, Calling, Meeting, SignalsFit, CrewFits, BarriersFit, PhasesFit
<1>6. PhasesFit'
  BY ActorFacts DEF IInv, TypeOK, barriers, voices, Running, MainAt, Initialised, ThreadsNeeded, JoinEarly, Stopping,
     Members, Calling, Meeting, SignalsFit, CrewFits, PhasesFit
<1>7. BuffersFit'
  BY ActorFacts DEF IInv, TypeOK, barriers, voices, Running, MainAt, Initialised, JoinEarly, Stopping, SignalsFit,
     Wanted, BuffersFit
<1>8. GroupsFit'
  BY ActorFacts DEF IInv, TypeOK, Groups, barriers, voices, Running, MainAt, Initialised, ThreadsNeeded, JoinEarly,
     Stopping, Members, Calling, Meeting, SignalsFit, CrewFits, PhasesFit, Holds, GroupsFit
<1>9. ChannelsFit'
  BY ActorFacts, ChannelOwner DEF IInv, TypeOK, Channels, barriers, voices, Running, MainAt, Initialised,
     ThreadsNeeded, JoinEarly, Stopping, Members, Calling, Meeting, SignalsFit, CrewFits, PhasesFit, ChannelsFit
<1> QED  BY <1>1, <1>2, <1>3, <1>4, <1>5, <1>6, <1>7, <1>8, <1>9 DEF IInv

\* Threads are made in the order of their numbers.
LEMMA CreatedThreads ==
    ASSUME IInv, at[Main] = "creating"
    PROVE  /\ Cardinality(Initialised) \in 0 .. ThreadsNeeded
           /\ ThreadsNeeded \in 0 .. MaxThreads
           /\ \A w \in Threads :
                at[w] = IF w < Cardinality(Initialised) THEN "created" ELSE "off"
<1>1. ThreadsNeeded \in 0 .. MaxThreads  BY ActorFacts DEF IInv, TypeOK, ThreadsNeeded
<1>2. PICK k \in 0 .. ThreadsNeeded :
            \A w \in Threads : at[w] = IF w < k THEN "created" ELSE "off"  BY DEF IInv, CrewFits
<1>3. Initialised = 0 .. k - 1  BY <1>1, <1>2, ActorFacts DEF Initialised, Threads
<1>4. Cardinality(Initialised) = k  BY <1>1, <1>3, FS_Interval
<1> QED  BY <1>1, <1>2, <1>4

LEMMA CreateThreadKeeps ==
    ASSUME Tame, IInv, CreateThread
    PROVE  IInv'
<1>1. TypeOK'
  <2>1. Cardinality(Initialised) \in Threads  BY CreatedThreads, ActorFacts DEF CreateThread, MainAt, Threads
  <2> QED
    BY <2>1, ActorFacts DEF IInv, TypeOK, CreateThread, Move, MainPlaces, ThreadPlaces, counts, barriers, signals,
       voices
<1>2. AssertionsHold'
  BY CreatedThreads, ActorFacts DEF IInv, TypeOK, counts, barriers, signals, voices, Running, MainAt, Move,
     Initialised, ThreadsNeeded, CreateThread, AssertionsHold
<1>3. SignalsFit'
  BY CreatedThreads, ActorFacts DEF IInv, TypeOK, counts, barriers, signals, voices, Running, MainAt, Move,
     Initialised, ThreadsNeeded, CreateThread, SignalsFit
<1>4. CrewFits'
  <2> DEFINE k == Cardinality(Initialised)
  <2>1. /\ k \in Threads /\ k + 1 \in 0 .. ThreadsNeeded /\ k \in Nat
        /\ \A w \in Threads : at[w] = IF w < k THEN "created" ELSE "off"
    BY CreatedThreads, ActorFacts DEF CreateThread, MainAt, Threads
  <2>2. at' = [at EXCEPT ![k] = "created"] /\ at'[Main] = "creating"
    BY <2>1, ActorFacts DEF IInv, TypeOK, CreateThread, Move, MainAt
  <2> HIDE DEF k
  <2>3. \A w \in Threads : at'[w] = IF w < k + 1 THEN "created" ELSE "off"
    BY <2>1, <2>2, ActorFacts DEF IInv, TypeOK, Threads
  <2> QED  BY <2>1, <2>2, <2>3 DEF CrewFits, Meeting, Calling, CreateThread, counts, ThreadsNeeded
<1>5. BarriersFit'
  BY CreatedThreads, ActorFacts DEF IInv, TypeOK, counts, barriers, signals, voices, Running, MainAt, Move,
     Initialised, ThreadsNeeded, CreateThread, Stopping, Members, Calling, Meeting, SignalsFit, CrewFits, BarriersFit,
     PhasesFit
<1>6. PhasesFit'
  BY CreatedThreads, ActorFacts DEF IInv, TypeOK, counts, barriers, signals, voices, Running, MainAt, Move,
     Initialised, ThreadsNeeded, CreateThread, Stopping, Members, Calling, Meeting, SignalsFit, CrewFits, PhasesFit
<1>7. BuffersFit'
  <2>1. at'[Main] = at[Main]  BY ActorFacts, CreatedThreads DEF IInv, TypeOK, CreateThread, Move, MainAt, Threads
  <2> QED  BY <2>1 DEF IInv, BuffersFit, CreateThread, Wanted, Stopping, counts, signals
<1>8. GroupsFit'
  BY CreatedThreads, ActorFacts DEF IInv, TypeOK, Groups, counts, barriers, signals, voices, Running, MainAt, Move,
     Initialised, ThreadsNeeded, CreateThread, Stopping, Members, Calling, Meeting, SignalsFit, CrewFits, PhasesFit,
     Holds, GroupsFit
<1>9. ChannelsFit'
  BY CreatedThreads, ActorFacts, ChannelOwner DEF IInv, TypeOK, Channels, counts, barriers, signals, voices, Running,
     MainAt, Move, Initialised, ThreadsNeeded, CreateThread, Stopping, Members, Calling, Meeting, SignalsFit,
     CrewFits, PhasesFit, ChannelsFit
<1> QED  BY <1>1, <1>2, <1>3, <1>4, <1>5, <1>6, <1>7, <1>8, <1>9 DEF IInv

LEMMA StartThreadsKeeps ==
    ASSUME Tame, IInv, StartThreads
    PROVE  IInv'
<1>1. TypeOK'
  <2>1. newCount \in 1 .. MaxThreads  BY DEF IInv, TypeOK, SignalsFit, StartThreads, MainAt
  <2> QED  BY <2>1, ActorFacts DEF IInv, TypeOK, StartThreads, Move, MainPlaces, ThreadPlaces, barriers, voices
<1>2. AssertionsHold'
  BY CreatedThreads, ActorFacts DEF IInv, TypeOK, barriers, voices, Running, MainAt, Move, Initialised, ThreadsNeeded,
     StartThreads, AssertionsHold
<1>3. SignalsFit'
  BY CreatedThreads, ActorFacts DEF IInv, TypeOK, barriers, voices, Running, MainAt, Move, Initialised, ThreadsNeeded,
     StartThreads, SignalsFit
<1>4. CrewFits'
  <2>1. at' = [at EXCEPT ![Main] = "idle"] /\ newCount \in 1 .. MaxThreads
    BY DEF IInv, TypeOK, SignalsFit, StartThreads, MainAt, Move
  <2>2. Members' = newCount  BY <2>1, ActorFacts DEF IInv, TypeOK, StartThreads, Members, Stopping
  <2>3. at'[Main] = "idle" /\ \A w \in Threads : at'[w] = at[w]  BY <2>1, ActorFacts DEF IInv, TypeOK
  <2> QED  BY <2>2, <2>3, <2>1, CreatedThreads DEF CrewFits, Threads, ThreadsNeeded, StartThreads, MainAt
<1>5. BarriersFit'
  BY CreatedThreads, ActorFacts DEF IInv, TypeOK, barriers, voices, Running, MainAt, Move, Initialised, ThreadsNeeded,
     StartThreads, Stopping, Members, Calling, Meeting, SignalsFit, CrewFits, BarriersFit, PhasesFit
<1>6. PhasesFit'
  BY CreatedThreads, ActorFacts DEF IInv, TypeOK, barriers, voices, Running, MainAt, Move, Initialised, ThreadsNeeded,
     StartThreads, Stopping, Members, Calling, Meeting, SignalsFit, CrewFits, PhasesFit
<1>7. BuffersFit'
  BY CreatedThreads, ActorFacts DEF IInv, TypeOK, barriers, voices, Running, MainAt, Move, Initialised, ThreadsNeeded,
     StartThreads, Stopping, SignalsFit, Wanted, BuffersFit
<1>8. GroupsFit'
  BY CreatedThreads, ActorFacts DEF IInv, TypeOK, Groups, barriers, voices, Running, MainAt, Move, Initialised,
     ThreadsNeeded, StartThreads, Stopping, Members, Calling, Meeting, SignalsFit, CrewFits, PhasesFit, Holds,
     GroupsFit
<1>9. ChannelsFit'
  BY CreatedThreads, ActorFacts, ChannelOwner DEF IInv, TypeOK, Channels, barriers, voices, Running, MainAt, Move,
     Initialised, ThreadsNeeded, StartThreads, Stopping, Members, Calling, Meeting, SignalsFit, CrewFits, PhasesFit,
     ChannelsFit
<1> QED  BY <1>1, <1>2, <1>3, <1>4, <1>5, <1>6, <1>7, <1>8, <1>9 DEF IInv

\* At the barriers nobody is left, so that the old ones can go.
LEMMA ReplaceBarriersKeeps ==
    ASSUME Tame, IInv, ReplaceBarriers
    PROVE  IInv'
<1>1. at[Main] = "barriers" /\ \A w \in Threads : at[w] = "off"  BY DEF IInv, CrewFits, ReplaceBarriers, MainAt
<1>2. start.waiting = {} /\ finish.waiting = {}  BY <1>1, ActorFacts DEF IInv, TypeOK, Barriers, BarriersFit
<1>3. PICK place \in {"deleted", "creating"} :
        /\ at' = [at EXCEPT ![Main] = place]
        /\ place = "deleted" <=> newCount = 0
        /\ UNCHANGED <<broken, counts, earlyExit, stop, voices, trouble>>
        /\ \/ /\ newCount <= 1
              /\ start' = NoBarrier /\ finish' = NoBarrier
              /\ UNCHANGED okToStart
           \/ /\ newCount > 1
              /\ start' = NewBarrier(newCount + 1) /\ finish' = NewBarrier(newCount + 1)
              /\ okToStart' = FALSE  BY <1>2 DEF IInv, TypeOK, ReplaceBarriers, Move, BarrierCount, Destroyable, Tame
<1>4. /\ at'[Main] = place
      /\ \A w \in Threads : at'[w] = "off"  BY <1>1, <1>3, ActorFacts DEF IInv, TypeOK
<1>5. TypeOK'
  <2>1. start' \in Barriers(Actors) /\ finish' \in Barriers(Actors)
    <3>1. NoBarrier \in Barriers(Actors)  BY DEF Barriers, NoBarrier
    <3>2. NewBarrier(newCount + 1) \in Barriers(Actors)  BY DEF IInv, TypeOK, Barriers, NewBarrier
    <3> QED  BY <1>3, <3>1, <3>2
  <2> QED  BY <1>3, <2>1, <1>4 DEF IInv, TypeOK, counts, voices, MainPlaces, ThreadPlaces
<1>6. AssertionsHold'  BY <1>3 DEF IInv, AssertionsHold
<1>7. SignalsFit'  BY <1>1, <1>3, <1>4 DEF IInv, SignalsFit, counts, TypeOK
<1>8. CrewFits'
  <2>1. 0 \in 0 .. ThreadsNeeded'  BY <1>3 DEF IInv, TypeOK, ThreadsNeeded, counts
  <2> QED  BY <1>4, <2>1 DEF CrewFits, Meeting, Calling, Threads
<1>9. BarriersFit'
  <2>1. at'[Main] \in Meeting \cup {"creating"} => Members' = newCount
    BY <1>3, <1>4 DEF Meeting, Calling, Members, Stopping, counts
  <2> QED  BY <2>1, <1>3, <1>4, ActorFacts DEF BarriersFit, NoBarrier, NewBarrier, IInv, TypeOK
<1>10. PhasesFit'  BY <1>4 DEF PhasesFit
<1>11. BuffersFit'  BY <1>1, <1>3, <1>4 DEF IInv, BuffersFit, Wanted, Stopping, SignalsFit, counts
<1>12. GroupsFit'  BY <1>1, <1>4, ActorFacts, <1>3 DEF IInv, GroupsFit, Holds, voices
<1>13. ChannelsFit'  BY <1>3, <1>4 DEF IInv, ChannelsFit, voices
<1> QED  BY <1>5, <1>6, <1>7, <1>8, <1>9, <1>10, <1>11, <1>12, <1>13 DEF IInv

\* A thread that was added has no buffers yet: a client that failed does not ask
\* again, and one that has not has buffers for just its threads.
LEMMA SetThreadCountKeeps ==
    ASSUME Tame, IInv, NEW count \in 1 .. MaxThreads, SetThreadCount(count)
    PROVE  IInv'
<1> DEFINE added == threadCount .. count - 1
           freed == count .. threadCount - 1
<1>1. at[Main] = "idle" /\ count # threadCount /\ ~stop /\ Members = threadCount
  BY DEF IInv, SetThreadCount, MainAt, SignalsFit, Members, Stopping
<1>2. added \cap buffers = {}
  <2>1. CASE count < threadCount  BY <2>1 DEF IInv, TypeOK
  <2>2. CASE count > threadCount
    <3>1. \A w \in Threads : w \in buffers <=> w < threadCount
      BY <1>1, <2>2 DEF IInv, TypeOK, BuffersFit, Wanted, Stopping, SetThreadCount, Tame
    <3> QED  BY <3>1 DEF IInv, TypeOK, Threads
  <2> QED  BY <1>1, <2>1, <2>2 DEF IInv, TypeOK
<1>3. /\ oldCount' = threadCount /\ newCount' = count
      /\ threadCount' = IF count < threadCount THEN count ELSE threadCount
      /\ UNCHANGED <<broken, barriers, signals, voices>>
      /\ \/ /\ Failures # {} /\ count > threadCount
            /\ buffers' \in SUBSET (buffers \cup added)
            /\ at' = [at EXCEPT ![Main] = "idle"] /\ trouble' = "memory"
         \/ /\ buffers' = (buffers \cup added) \ freed
            /\ at' = [at EXCEPT ![Main] = "stopping"] /\ UNCHANGED trouble
  BY <1>2 DEF IInv, TypeOK, SetThreadCount, FailCall, Move, Tame
<1>4. /\ at'[Main] \in {"idle", "stopping"} /\ \A w \in Threads : at'[w] = at[w]
      /\ \A a \in Actors : (at'[a] = "group" <=> at[a] = "group")
                       /\ (at'[a] = "start" <=> at[a] = "start")
                       /\ (at'[a] = "finish" <=> at[a] = "finish")  BY <1>1, <1>3, ActorFacts DEF IInv, TypeOK
<1>5. Members' = threadCount  BY <1>1, <1>3, <1>4, ActorFacts DEF IInv, TypeOK, Members, Stopping, signals
<1>6. added \in SUBSET Threads  BY ActorFacts DEF IInv, TypeOK, Threads
<1> HIDE DEF added, freed
<1>7. TypeOK'  BY <1>3, <1>4, <1>6 DEF IInv, TypeOK, MainPlaces, barriers, signals, voices
<1>8. AssertionsHold'  BY <1>3 DEF IInv, AssertionsHold
<1>9. SignalsFit'  BY <1>1, <1>3, <1>4 DEF IInv, SignalsFit, signals
<1>10. CrewFits'  BY <1>1, <1>4, <1>5 DEF IInv, CrewFits, Meeting, Calling
<1>11. BarriersFit'  BY <1>1, <1>3, <1>4, <1>5 DEF IInv, BarriersFit, Meeting, Calling, barriers
<1>12. PhasesFit'  BY <1>1, <1>4 DEF IInv, PhasesFit
<1>13. BuffersFit'
  <2>1. CASE trouble' = "memory"  BY <1>1, <1>3, <1>4, <2>1 DEF IInv, BuffersFit
  <2>2. CASE trouble' # "memory"
    <3>1. /\ at'[Main] = "stopping" /\ UNCHANGED trouble
          /\ buffers' = (buffers \cup added) \ freed  BY <1>3, <2>2, ActorFacts DEF IInv, TypeOK
    <3>2. ASSUME trouble = "none", NEW w \in Threads
          PROVE  w \in buffers' <=> w < count
      <4>1. w \in buffers <=> w < threadCount  BY <1>1, <3>2 DEF IInv, TypeOK, BuffersFit, Wanted, Stopping
      <4> QED  BY <3>1, <4>1 DEF IInv, TypeOK, Threads, added, freed
    <3> QED  BY <3>1, <3>2, <1>3 DEF IInv, BuffersFit, Wanted, Stopping
  <2> QED  BY <2>1, <2>2
<1>14. GroupsFit'  BY <1>1, <1>3, <1>4 DEF IInv, GroupsFit, Holds, voices
<1>15. ChannelsFit'  BY <1>1, <1>3, <1>4 DEF IInv, ChannelsFit, voices
<1> QED  BY <1>7, <1>8, <1>9, <1>10, <1>11, <1>12, <1>13, <1>14, <1>15 DEF IInv

\* The thread of a number renders the channels of that number, and the main thread
\* all of them when it is alone.
LEMMA RenderChannelsKeeps ==
    ASSUME Tame, IInv, NEW a \in Actors, RenderChannels(a)
    PROVE  IInv'
<1> USE DEF counts, barriers, signals
<1>1. at[a] = "released" /\ UNCHANGED <<counts, barriers, signals, groupCount, nextGroup, group, groupsDone, trouble>>
  BY DEF RenderChannels
<1>2. CASE a # Main /\ stop
  <2>1. /\ at' = [at EXCEPT ![a] = "exited"] /\ UNCHANGED <<broken, channelsDone>>
        /\ a \in Threads /\ at'[Main] = at[Main]  BY <1>2, ActorFacts DEF IInv, TypeOK, RenderChannels, Move
  <2>2. at[Main] = "join" /\ Members' = Members /\ Wanted' = Wanted
    BY <1>1, <1>2, <2>1 DEF IInv, SignalsFit, PhasesFit, CrewFits, Members, Wanted, Stopping
  <2>3. \A x \in Actors :
          at'[x] \in {"start", "finish", "group", "off"} \/ at[x] \in {"start", "finish", "group", "off"}
              => at'[x] = at[x]  BY <1>1, <2>1 DEF IInv, TypeOK
  <2>4. TypeOK'  BY <1>1, <2>1, ActorFacts DEF IInv, TypeOK, ThreadPlaces
  <2>5. AssertionsHold'  BY <2>1 DEF IInv, AssertionsHold
  <2>6. SignalsFit'  BY <1>1, <2>1 DEF IInv, SignalsFit
  <2>7. CrewFits'  BY <2>1, <2>2, <2>3, ActorFacts DEF IInv, CrewFits
  <2>8. BarriersFit'  BY <1>1, <2>1, <2>2, <2>3 DEF IInv, BarriersFit
  <2>9. PhasesFit'  BY <2>1, <2>2, ActorFacts DEF IInv, TypeOK, PhasesFit
  <2>10. BuffersFit'  BY <1>1, <2>1, <2>2 DEF IInv, BuffersFit
  <2>11. GroupsFit'  BY <1>1, <2>1, <2>2, <2>3, ActorFacts DEF IInv, GroupsFit, Holds
  <2>12. ChannelsFit'  BY <1>1, <2>1, <2>2 DEF IInv, ChannelsFit
  <2> QED  BY <2>4, <2>5, <2>6, <2>7, <2>8, <2>9, <2>10, <2>11, <2>12 DEF IInv
<1>3. CASE ~(a # Main /\ stop)
  <2>1. \/ a = Main /\ at[Main] = "released" /\ ~stop /\ threadCount = 1
        \/ /\ a \in Threads /\ at[Main] \in {"finishing", "finish"} /\ ~stop
           /\ a < threadCount
    <3>1. CASE a = Main  BY <1>1, <3>1 DEF IInv, SignalsFit, PhasesFit
    <3>2. CASE a # Main
      <4>1. a \in Threads /\ ~stop  BY <1>3, <3>2, ActorFacts
      <4>2. at[Main] \in {"finishing", "finish"}
        BY <1>1, <4>1 DEF IInv, TypeOK, MainPlaces, SignalsFit, PhasesFit, CrewFits, ThreadsNeeded
      <4> QED  BY <4>1, <4>2, <1>1 DEF IInv, CrewFits, Meeting, Calling, Members, Stopping
    <3> QED  BY <3>1, <3>2
  <2>2. /\ at' = [at EXCEPT ![a] = "groups"] /\ UNCHANGED broken
        /\ channelsDone' =
              [c \in Channels |-> channelsDone[c] + IF c \in ChannelsOf(a) THEN 1 ELSE 0]
    BY <1>3, <2>1, ActorFacts DEF IInv, TypeOK, RenderChannels, Move
  <2>3. /\ at'[a] = "groups" /\ \A x \in Actors : x # a => at'[x] = at[x]
        /\ at'[Main] = IF a = Main THEN "groups" ELSE at[Main]  BY <2>2, ActorFacts DEF IInv, TypeOK
  <2>4. Members' = threadCount /\ Members = threadCount /\ Wanted' = threadCount /\ Wanted = threadCount
    BY <1>1, <2>1, <2>3 DEF Members, Wanted, Stopping
  <2>5. TypeOK'  BY <2>2, <1>1, <2>3, ActorFacts DEF IInv, TypeOK, MainPlaces, ThreadPlaces
  <2>6. AssertionsHold'  BY <2>2 DEF IInv, AssertionsHold
  <2>7. SignalsFit'  BY <1>1, <2>1, <2>3 DEF IInv, SignalsFit
  <2>8. CrewFits'  BY <1>1, <2>1, <2>3, <2>4, ActorFacts DEF IInv, CrewFits, Meeting, Calling
  <2>9. BarriersFit'  BY <1>1, <2>1, <2>3, <2>4, ActorFacts DEF IInv, BarriersFit, Meeting, Calling
  <2>10. PhasesFit'  BY <1>1, <2>1, <2>3, <2>4, ActorFacts DEF IInv, PhasesFit
  <2>11. BuffersFit'  BY <1>1, <2>1, <2>3, <2>4 DEF IInv, BuffersFit
  <2>12. GroupsFit'
    <3>1. \A x \in Actors : (at'[x] = "group" <=> at[x] = "group")
                          /\ (at'[x] = "finish" => at[x] = "finish")  BY <1>1, <2>3
    <3> QED  BY <1>1, <3>1, ActorFacts, <2>1, <2>3 DEF IInv, GroupsFit, Holds
  <2>13. ChannelsFit'
    <3>1. ASSUME NEW c \in Channels
          PROVE  /\ c % threadCount \in Threads
                 /\ c \in ChannelsOf(a) <=> a = Main \/ c % threadCount = a
                 /\ channelsDone'[c] = channelsDone[c] + IF c \in ChannelsOf(a) THEN 1 ELSE 0
                 /\ channelsDone[c] \in Nat  BY <2>2, ChannelOwner DEF IInv, TypeOK, ChannelsOf
    <3>2. CASE a = Main  BY <2>1, <3>1, <3>2, ActorFacts, <2>3 DEF IInv, ChannelsFit
    <3>3. CASE a # Main
      <4>1. \A c \in Channels :
              channelsDone'[c] = IF at'[c % threadCount] = "released" THEN 0 ELSE 1
        <5>1. TAKE c \in Channels
        <5>2. channelsDone[c] = IF at[c % threadCount] = "released" THEN 0 ELSE 1  BY <2>1, <3>3 DEF IInv, ChannelsFit
        <5>3. CASE c % threadCount = a  BY <1>1, <2>3, <3>1, <5>2, <5>3
        <5>4. CASE c % threadCount # a
          <6>1. at'[c % threadCount] = at[c % threadCount]  BY <2>3, <3>1, <5>4, ActorFacts
          <6> QED  BY <3>1, <3>3, <5>2, <5>4, <6>1
        <5> QED  BY <5>3, <5>4
      <4> QED  BY <1>1, <2>1, <2>3, <3>3, <4>1 DEF ChannelsFit
    <3> QED  BY <3>2, <3>3
  <2> QED  BY <2>5, <2>6, <2>7, <2>8, <2>9, <2>10, <2>11, <2>12, <2>13 DEF IInv
<1> QED  BY <1>2, <1>3

\* A call begins: with one thread the main thread renders, with more it meets
\* the others.
LEMMA ProcessVoicesKeeps ==
    ASSUME Tame, IInv, NEW newGroups \in 0 .. MaxGroups, ProcessVoices(newGroups)
    PROVE  IInv'
<1> USE DEF counts, signals
<1>1. /\ at[Main] = "idle" /\ ~stop /\ Members = threadCount /\ Wanted = threadCount
      /\ \A w \in Threads : at[w] \in {"off", "created", "ready", "start"}
      /\ \A c \in Channels : channelsDone'[c] = 0
      /\ groupCount' = newGroups /\ nextGroup' = 0
      /\ \A g \in Groups : groupsDone'[g] = 0
      /\ UNCHANGED <<counts, signals, finish, group, trouble>>
  BY DEF IInv, ProcessVoices, MainAt, SignalsFit, PhasesFit, Members, Wanted, Stopping
<1>2. /\ at' \in [Actors -> MainPlaces \cup ThreadPlaces]
      /\ start' \in Barriers(Actors) /\ UNCHANGED broken
      /\ \A w \in Threads : at'[w] \in ThreadPlaces \ {"group", "finish"}
      /\ \A w \in Threads : at'[w] = "off" <=> at[w] = "off"
      /\ (threadCount > 1 => start'.ready /\ start'.count = threadCount + 1)
      /\ \A a \in Actors : a \in start'.waiting <=> at'[a] = "start"
      /\ \/ /\ threadCount = 1 /\ at'[Main] = "released"
            /\ \A w \in Threads : at'[w] = at[w]
         \/ /\ threadCount > 1 /\ at'[Main] = "start"
            /\ \A w \in Threads : at'[w] = at[w]
         \/ /\ threadCount > 1 /\ at'[Main] = "finishing"
            /\ \A w \in Threads : at'[w] = IF w < threadCount THEN "released" ELSE "off"
  <2>1. CASE threadCount > 1
    <3>1. /\ UNCHANGED broken
          /\ start' \in Barriers(Actors)
          /\ start'.ready /\ start'.count = Members + 1
          /\ \/ /\ \A x \in Actors : Member(x) => x = Main \/ at[x] = "start"
                /\ start'.waiting = {}
                /\ at' = [x \in Actors |-> IF Member(x) THEN AfterStart(x) ELSE at[x]]
             \/ /\ \E x \in Actors : Member(x) /\ x # Main /\ at[x] # "start"
                /\ start'.waiting = start.waiting \cup {Main}
                /\ at' = [at EXCEPT ![Main] = "start"]
      BY <1>1, <2>1, MeetingAtStart, ActorFacts DEF ProcessVoices, Meeting, Calling, Member
    <3>2. \A a \in Actors : at[a] = "start" <=> a \in start.waiting  BY DEF IInv, BarriersFit
    <3>3. \A w \in Threads : at[w] # "off" <=> w < threadCount  BY <1>1, <2>1 DEF IInv, CrewFits, Meeting, Calling
    <3>4. CASE at' = [at EXCEPT ![Main] = "start"] /\ start'.waiting = start.waiting \cup {Main}
      <4>1. at'[Main] = "start" /\ \A w \in Threads : at'[w] = at[w]  BY <3>4, ActorFacts DEF IInv, TypeOK
      <4>2. at' \in [Actors -> MainPlaces \cup ThreadPlaces]  BY <3>4 DEF IInv, TypeOK, MainPlaces
      <4> QED  BY <1>1, <2>1, <3>1, <3>2, <3>4, <4>1, <4>2, ActorFacts DEF ThreadPlaces
    <3>5. CASE /\ at' = [x \in Actors |-> IF Member(x) THEN AfterStart(x) ELSE at[x]]
               /\ start'.waiting = {}
      <4>1. at'[Main] = "finishing"  BY <1>1, <3>5, ActorFacts DEF Member, AfterStart
      <4>2. \A w \in Threads : at'[w] = IF w < threadCount THEN "released" ELSE "off"
        BY <1>1, <3>3, <3>5, ActorFacts DEF Member, AfterStart
      <4>3. at' \in [Actors -> MainPlaces \cup ThreadPlaces]
        BY <3>5 DEF IInv, TypeOK, MainPlaces, ThreadPlaces, AfterStart
      <4> QED  BY <1>1, <2>1, <3>1, <3>3, <3>5, <4>1, <4>2, <4>3, ActorFacts DEF ThreadPlaces
    <3> QED  BY <3>1, <3>4, <3>5
  <2>2. CASE ~(threadCount > 1)
    <3>1. threadCount = 1 /\ at' = [at EXCEPT ![Main] = "released"] /\ UNCHANGED <<broken, start>>
      BY <2>2 DEF IInv, TypeOK, ProcessVoices, Move
    <3> QED  BY <1>1, <3>1, ActorFacts DEF IInv, TypeOK, BarriersFit, ThreadPlaces, MainPlaces
  <2> QED  BY <2>1, <2>2
<1>3. at'[Main] \in {"released", "start", "finishing"} /\ Members' = threadCount /\ Wanted' = threadCount
  BY <1>1, <1>2 DEF Members, Wanted, Stopping
<1>4. TypeOK'  BY <1>3, <1>1, <1>2 DEF ProcessVoices, MainPlaces, IInv, TypeOK
<1>5. AssertionsHold'  BY <1>2 DEF IInv, AssertionsHold
<1>6. SignalsFit'  BY <1>1, <1>3 DEF IInv, SignalsFit
<1>7. CrewFits'  BY <1>1, <1>2, <1>3 DEF IInv, CrewFits, Meeting, Calling
<1>8. BarriersFit'  BY <1>1, <1>2, <1>3, ActorFacts DEF IInv, BarriersFit, Meeting, Calling
<1>9. PhasesFit'  BY <1>1, <1>2, <1>3 DEF PhasesFit
<1>10. BuffersFit'  BY <1>1, <1>2, <1>3 DEF IInv, BuffersFit
<1>11. GroupsFit'  BY <1>2, <1>3, ActorFacts, <1>1 DEF Groups, GroupsFit, Holds
<1>12. ChannelsFit'  BY <1>1, ChannelOwner, <1>2, <1>3 DEF IInv, ChannelsFit
<1> QED  BY <1>4, <1>5, <1>6, <1>7, <1>8, <1>9, <1>10, <1>11, <1>12 DEF IInv

\* The main thread joins those that wait at the first barrier to send them home.
LEMMA StopThreadsKeeps ==
    ASSUME Tame, IInv, StopThreads
    PROVE  IInv'
<1> USE DEF counts, voices
<1>1. /\ at[Main] = "stopping" /\ ~stop /\ Members = oldCount /\ Wanted = newCount
      /\ \A w \in Threads : at[w] \in {"off", "created", "ready", "start"}
      /\ UNCHANGED <<counts, finish, okToStart, earlyExit, voices, trouble>>
  BY DEF IInv, StopThreads, MainAt, SignalsFit, PhasesFit, Members, Wanted, Stopping
<1>2. /\ at' \in [Actors -> MainPlaces \cup ThreadPlaces]
      /\ start' \in Barriers(Actors) /\ UNCHANGED broken /\ stop' \in BOOLEAN
      /\ \A w \in Threads : at'[w] \in ThreadPlaces \ {"group", "finish"}
      /\ \A w \in Threads : at'[w] = "off" <=> at[w] = "off"
      /\ (oldCount > 1 => start'.ready /\ start'.count = oldCount + 1)
      /\ \A a \in Actors : a \in start'.waiting <=> at'[a] = "start"
      /\ \/ /\ oldCount = 1 /\ at'[Main] = "barriers" /\ ~stop'
            /\ \A w \in Threads : at'[w] = "off"
         \/ /\ oldCount > 1 /\ at'[Main] = "start" /\ stop'
            /\ \A w \in Threads : at'[w] = at[w]
         \/ /\ oldCount > 1 /\ at'[Main] = "join" /\ stop'
            /\ \A w \in Threads : at'[w] = IF w < oldCount THEN "released" ELSE "off"
  <2>1. CASE oldCount > 1
    <3>1. /\ UNCHANGED broken /\ stop' = TRUE
          /\ start' \in Barriers(Actors)
          /\ start'.ready /\ start'.count = Members + 1
          /\ \/ /\ \A x \in Actors : Member(x) => x = Main \/ at[x] = "start"
                /\ start'.waiting = {}
                /\ at' = [x \in Actors |-> IF Member(x) THEN AfterStart(x) ELSE at[x]]
             \/ /\ \E x \in Actors : Member(x) /\ x # Main /\ at[x] # "start"
                /\ start'.waiting = start.waiting \cup {Main}
                /\ at' = [at EXCEPT ![Main] = "start"]
      BY <1>1, <2>1, MeetingAtStart, ActorFacts DEF StopThreads, Meeting, Member
    <3>2. \A a \in Actors : at[a] = "start" <=> a \in start.waiting  BY DEF IInv, BarriersFit
    <3>3. \A w \in Threads : at[w] # "off" <=> w < oldCount  BY <1>1, <2>1 DEF IInv, CrewFits, Meeting, Calling
    <3>4. CASE at' = [at EXCEPT ![Main] = "start"] /\ start'.waiting = start.waiting \cup {Main}
      <4>1. at'[Main] = "start" /\ \A w \in Threads : at'[w] = at[w]  BY <3>4, ActorFacts DEF IInv, TypeOK
      <4>2. at' \in [Actors -> MainPlaces \cup ThreadPlaces]  BY <3>4 DEF IInv, TypeOK, MainPlaces
      <4> QED  BY <1>1, <2>1, <3>1, <3>2, <3>4, <4>1, <4>2, ActorFacts DEF ThreadPlaces
    <3>5. CASE /\ at' = [x \in Actors |-> IF Member(x) THEN AfterStart(x) ELSE at[x]]
               /\ start'.waiting = {}
      <4>1. at'[Main] = "join"  BY <1>1, <3>1, <3>5, ActorFacts DEF Member, AfterStart
      <4>2. \A w \in Threads : at'[w] = IF w < oldCount THEN "released" ELSE "off"
        BY <1>1, <3>3, <3>5, ActorFacts DEF Member, AfterStart
      <4>3. at' \in [Actors -> MainPlaces \cup ThreadPlaces]
        BY <3>5 DEF IInv, TypeOK, MainPlaces, ThreadPlaces, AfterStart
      <4> QED  BY <1>1, <2>1, <3>1, <3>3, <3>5, <4>1, <4>2, <4>3, ActorFacts DEF ThreadPlaces
    <3> QED  BY <3>1, <3>4, <3>5
  <2>2. CASE ~(oldCount > 1)
    <3>1. oldCount = 1 /\ at' = [at EXCEPT ![Main] = "barriers"] /\ UNCHANGED <<broken, start, stop>>
      BY <2>2 DEF IInv, TypeOK, StopThreads, Move
    <3>2. at'[Main] = "barriers" /\ \A w \in Threads : at'[w] = at[w] /\ at[w] = "off"
      BY <1>1, <3>1, ActorFacts DEF IInv, TypeOK, CrewFits, Meeting
    <3> QED  BY <1>1, <3>1, <3>2, ActorFacts DEF IInv, TypeOK, ThreadPlaces, MainPlaces, BarriersFit
  <2> QED  BY <2>1, <2>2
<1>3. at'[Main] \in {"barriers", "start", "join"} /\ Wanted' = newCount
      /\ (at'[Main] # "barriers" => Members' = oldCount)  BY <1>1, <1>2 DEF Members, Wanted, Stopping
<1>4. TypeOK'  BY <1>3, <1>1, <1>2 DEF MainPlaces, IInv, TypeOK
<1>5. AssertionsHold'  BY <1>2 DEF IInv, AssertionsHold
<1>6. SignalsFit'  BY <1>1, <1>2, <1>3 DEF IInv, SignalsFit
<1>7. CrewFits'  BY <1>1, <1>2, <1>3 DEF IInv, CrewFits, Meeting, Calling
<1>8. BarriersFit'  BY <1>1, <1>2, <1>3, ActorFacts DEF IInv, BarriersFit, Meeting, Calling
<1>9. PhasesFit'  BY <1>1, <1>2, <1>3 DEF PhasesFit
<1>10. BuffersFit'  BY <1>1, <1>2, <1>3 DEF IInv, BuffersFit
<1>11. GroupsFit'  BY <1>1, <1>2, <1>3, ActorFacts DEF IInv, GroupsFit, Holds
<1>12. ChannelsFit'  BY <1>1, <1>2, <1>3 DEF IInv, ChannelsFit
<1> QED  BY <1>4, <1>5, <1>6, <1>7, <1>8, <1>9, <1>10, <1>11, <1>12 DEF IInv

\* A thread arrives at the first barrier; the last one sends everyone on, to the
\* voices or, if the threads are being stopped, home.
LEMMA AwaitStartKeeps ==
    ASSUME Tame, IInv, NEW w \in Threads, AwaitStart(w)
    PROVE  IInv'
<1> USE DEF counts, signals, voices
<1>1. /\ at[w] = "ready" /\ MeetAtStart(w)
      /\ UNCHANGED <<counts, signals, finish, voices, trouble>>  BY DEF AwaitStart
<1>2. /\ at[Main] \in {"idle", "start", "done", "stopping"}
      /\ Members > 1 /\ w < Members
      /\ \A v \in Threads : at[v] \in {"off", "created", "ready", "start"}
      /\ \A v \in Threads : at[v] # "off" <=> v < Members
  BY <1>1, ActorFacts DEF IInv, TypeOK, MainPlaces, CrewFits, PhasesFit, Meeting, Calling, ThreadsNeeded, Members,
     Stopping
<1>3. /\ UNCHANGED broken
      /\ start' \in Barriers(Actors)
      /\ start'.ready /\ start'.count = Members + 1
      /\ \/ /\ \A x \in Actors : Member(x) => x = w \/ at[x] = "start"
            /\ start'.waiting = {}
            /\ at' = [x \in Actors |-> IF Member(x) THEN AfterStart(x) ELSE at[x]]
         \/ /\ \E x \in Actors : Member(x) /\ x # w /\ at[x] # "start"
            /\ start'.waiting = start.waiting \cup {w}
            /\ at' = [at EXCEPT ![w] = "start"]
  BY <1>1, <1>2, MeetingAtStart, ActorFacts DEF Meeting, Calling, Member
<1>4. /\ at' \in [Actors -> MainPlaces \cup ThreadPlaces]
      /\ at'[Main] \in MainPlaces
      /\ \A v \in Threads : at'[v] \in ThreadPlaces \ {"group", "finish"}
      /\ \A v \in Threads : at'[v] = "off" <=> at[v] = "off"
      /\ \A a \in Actors : a \in start'.waiting <=> at'[a] = "start"
      /\ \/ /\ at'[Main] = at[Main]
            /\ \A v \in Threads : at'[v] \in {"off", "created", "ready", "start"}
         \/ /\ at[Main] = "start"
            /\ at'[Main] = IF stop THEN "join" ELSE "finishing"
            /\ \A v \in Threads : at'[v] = IF v < Members THEN "released" ELSE "off"
  <2>1. CASE at' = [at EXCEPT ![w] = "start"] /\ start'.waiting = start.waiting \cup {w}
    BY <2>1, ActorFacts, <1>1, <1>2 DEF IInv, TypeOK, ThreadPlaces, MainPlaces, BarriersFit
  <2>2. CASE /\ \A x \in Actors : Member(x) => x = w \/ at[x] = "start"
             /\ start'.waiting = {}
             /\ at' = [x \in Actors |-> IF Member(x) THEN AfterStart(x) ELSE at[x]]
    <3>1. at' \in [Actors -> MainPlaces \cup ThreadPlaces]
      BY <2>2 DEF IInv, TypeOK, MainPlaces, ThreadPlaces, AfterStart
    <3> QED  BY <1>2, <2>2, <3>1, ActorFacts, <1>1 DEF ThreadPlaces, MainPlaces, Member, AfterStart
  <2> QED  BY <1>3, <2>1, <2>2
<1>5. Members' = Members /\ Wanted' = Wanted  BY <1>1, <1>2, <1>4 DEF IInv, SignalsFit, Members, Wanted, Stopping
<1>6. TypeOK'  BY <1>1, <1>3, <1>4 DEF IInv, TypeOK
<1>7. AssertionsHold'  BY <1>3 DEF IInv, AssertionsHold
<1>8. SignalsFit'  BY <1>1, <1>2, <1>4 DEF IInv, SignalsFit
<1>9. CrewFits'  BY <1>2, <1>4, <1>5 DEF CrewFits
<1>10. BarriersFit'
  <2>1. \A a \in Actors : at[a] # "finish" /\ at'[a] # "finish"  BY <1>2, <1>4, ActorFacts
  <2> QED  BY <1>1, <1>2, <1>3, <1>4, <1>5, <2>1 DEF IInv, BarriersFit, Meeting, Calling
<1>11. PhasesFit'  BY <1>2, <1>4, <1>5 DEF IInv, PhasesFit
<1>12. BuffersFit'  BY <1>1, <1>2, <1>4, <1>5 DEF IInv, BuffersFit
<1>13. GroupsFit'  BY <1>2, <1>4, ActorFacts, <1>1 DEF IInv, GroupsFit, Holds
<1>14. ChannelsFit'  BY <1>2, <1>4, ChannelOwner, <1>1 DEF Members, Stopping, IInv, ChannelsFit
<1> QED  BY <1>6, <1>7, <1>8, <1>9, <1>10, <1>11, <1>12, <1>13, <1>14 DEF IInv

\* An actor arrives at the second barrier; the last one ends the rendering.
LEMMA MeetAtFinishKeeps ==
    ASSUME Tame, IInv, NEW a \in Actors, MeetAtFinish(a),
           at[Main] \in {"finishing", "finish"},
           \/ a = Main /\ at[a] = "finishing"
           \/ a # Main /\ at[a] = "groups" /\ nextGroup = groupCount,
           UNCHANGED <<counts, signals, start, voices, trouble>>
    PROVE  IInv'
<1> USE DEF counts, signals, voices
<1>1. /\ ~stop /\ Members = threadCount /\ Wanted = threadCount /\ threadCount > 1
      /\ a = Main \/ a < threadCount
      /\ \A v \in Threads : at[v] \in {"off", "released", "groups", "group", "finish"}
      /\ \A v \in Threads : at[v] # "off" <=> v < threadCount
  BY ActorFacts DEF IInv, SignalsFit, CrewFits, PhasesFit, Meeting, Calling, Members, Wanted, Stopping
<1>2. /\ UNCHANGED broken
      /\ finish' \in Barriers(Actors)
      /\ finish'.ready /\ finish'.count = threadCount + 1
      /\ \/ /\ \A x \in Actors : Member(x) => x = a \/ at[x] = "finish"
            /\ finish'.waiting = {}
            /\ at' = [x \in Actors |-> IF Member(x) THEN AfterFinish(x) ELSE at[x]]
         \/ /\ finish'.waiting = finish.waiting \cup {a}
            /\ at' = [at EXCEPT ![a] = "finish"]  BY <1>1, MeetingAtFinish DEF Member
<1>3. \A x \in Actors : at[x] = "finish" <=> x \in finish.waiting  BY DEF IInv, BarriersFit
<1>4. /\ at' \in [Actors -> MainPlaces \cup ThreadPlaces]
      /\ at'[Main] \in MainPlaces
      /\ \A v \in Threads : at'[v] \in ThreadPlaces \ {"start"}
      /\ \A v \in Threads : at'[v] = "off" <=> at[v] = "off"
      /\ \A x \in Actors : x \in finish'.waiting <=> at'[x] = "finish"
      /\ \/ /\ at'[Main] \in {"finishing", "finish"}
            /\ \A v \in Threads : at'[v] = at[v] \/ (v = a /\ at[v] = "groups" /\ at'[v] = "finish")
         \/ /\ at'[Main] = "done"
            /\ \A v \in Threads : at'[v] = IF v < threadCount THEN "ready" ELSE "off"
            /\ \A v \in Threads : v < threadCount => v = a \/ at[v] = "finish"
  <2>1. CASE at' = [at EXCEPT ![a] = "finish"] /\ finish'.waiting = finish.waiting \cup {a}
    <3>1. /\ at'[a] = "finish" /\ \A x \in Actors : x # a => at'[x] = at[x]  BY <2>1 DEF IInv, TypeOK
    <3>2. at' \in [Actors -> MainPlaces \cup ThreadPlaces]  BY <2>1 DEF IInv, TypeOK, ThreadPlaces
    <3> QED  BY <1>1, <1>3, <2>1, <3>1, <3>2, ActorFacts DEF ThreadPlaces, MainPlaces
  <2>2. CASE /\ \A x \in Actors : Member(x) => x = a \/ at[x] = "finish"
             /\ finish'.waiting = {}
             /\ at' = [x \in Actors |-> IF Member(x) THEN AfterFinish(x) ELSE at[x]]
    <3>1. at'[Main] = "done"  BY <2>2, ActorFacts DEF Member, AfterFinish
    <3>2. /\ \A v \in Threads : at'[v] = IF v < threadCount THEN "ready" ELSE "off"
          /\ \A v \in Threads : v < threadCount => v = a \/ at[v] = "finish"
      BY <1>1, <2>2, ActorFacts DEF Member, AfterFinish
    <3>3. at' \in [Actors -> MainPlaces \cup ThreadPlaces]
      BY <2>2 DEF IInv, TypeOK, MainPlaces, ThreadPlaces, AfterFinish
    <3> QED  BY <1>1, <2>2, <3>1, <3>2, <3>3, ActorFacts DEF ThreadPlaces, MainPlaces
  <2> QED  BY <1>2, <2>1, <2>2
<1>5. at'[Main] \in {"finishing", "finish", "done"} /\ Members' = threadCount /\ Wanted' = threadCount
  BY <1>1, <1>4 DEF Members, Wanted, Stopping
<1>6. TypeOK'  BY <1>2, <1>4 DEF IInv, TypeOK
<1>7. AssertionsHold'  BY <1>2 DEF IInv, AssertionsHold
<1>8. SignalsFit'  BY <1>1, <1>5 DEF IInv, SignalsFit
<1>9. CrewFits'  BY <1>1, <1>4, <1>5 DEF CrewFits
<1>10. BarriersFit'
  <2>1. \A x \in Actors : at[x] # "start" /\ at'[x] # "start"  BY <1>1, <1>4, <1>5, ActorFacts
  <2> QED  BY <1>1, <1>2, <1>4, <1>5, <2>1 DEF IInv, BarriersFit, Meeting, Calling
<1>11. PhasesFit'  BY <1>1, <1>4, <1>5 DEF PhasesFit
<1>12. BuffersFit'  BY <1>1, <1>5 DEF IInv, BuffersFit
<1>13. GroupsFit'
  <2>1. \A x \in Actors : at'[x] = "group" <=> at[x] = "group"  BY <1>1, <1>4, <1>5, ActorFacts
  <2>2. \A v \in Threads : at'[v] = "finish" => nextGroup = groupCount  BY <1>4, ActorFacts DEF IInv, GroupsFit
  <2>3. at'[Main] = "done" => nextGroup = groupCount
    <3>1. 0 \in Threads /\ 0 < threadCount  BY <1>1, MaxThreadsAssumption DEF Threads, IInv, TypeOK
    <3> QED  BY <1>4, <3>1, ActorFacts DEF IInv, GroupsFit
  <2> QED  BY <1>5, <2>1, <2>2, <2>3 DEF IInv, GroupsFit, Holds
<1>14. ChannelsFit'
  <2>1. ASSUME NEW c \in Channels
        PROVE  c % threadCount \in Threads /\ c % threadCount < threadCount  BY ChannelOwner DEF IInv
  <2>2. ASSUME at'[Main] # "done", NEW c \in Channels
        PROVE  at'[c % threadCount] = "released" <=> at[c % threadCount] = "released"  BY <1>4, <2>1, <2>2
  <2>3. ASSUME at'[Main] = "done", NEW c \in Channels
        PROVE  channelsDone[c] = 1
    <3>1. at[c % threadCount] # "released"  BY <1>4, <2>1, <2>3
    <3> QED  BY <3>1 DEF IInv, ChannelsFit
  <2> QED  BY <1>5, <2>2, <2>3 DEF IInv, ChannelsFit
<1> QED  BY <1>6, <1>7, <1>8, <1>9, <1>10, <1>11, <1>12, <1>13, <1>14 DEF IInv

LEMMA MainWaitsKeeps == Tame /\ IInv /\ MainWaits => IInv'
    BY MeetAtFinishKeeps, ActorFacts DEF MainWaits, MainAt

\* A thread that finds no group left waits for the others; the main thread, alone,
\* is done.
LEMMA NoMoreGroupsKeeps ==
    ASSUME Tame, IInv, NEW a \in Actors, NoMoreGroups(a)
    PROVE  IInv'
<1>1. at[a] = "groups" /\ nextGroup = groupCount  BY MaxGroupsAssumption DEF IInv, TypeOK, GroupsFit, NoMoreGroups
<1>2. CASE a # Main
  <2>1. at[Main] \in {"finishing", "finish"}
    BY <1>1, <1>2, ActorFacts DEF IInv, TypeOK, MainPlaces, CrewFits, PhasesFit, ThreadsNeeded
  <2> QED  BY <1>1, <1>2, <2>1, MeetAtFinishKeeps DEF NoMoreGroups
<1>3. CASE a = Main
  <2> USE DEF counts, signals, voices
  <2>1. /\ UNCHANGED <<broken, counts, signals, start, finish, voices, trouble>>
        /\ at' = [at EXCEPT ![Main] = "done"]
        /\ threadCount = 1 /\ ~stop /\ at[Main] = "groups"
    BY <1>1, <1>3 DEF IInv, NoMoreGroups, Move, PhasesFit, SignalsFit
  <2>2. at'[Main] = "done" /\ \A v \in Threads : at'[v] = at[v]  BY <2>1, ActorFacts DEF IInv, TypeOK
  <2>3. Members' = threadCount /\ Members = threadCount /\ Wanted' = threadCount /\ Wanted = threadCount
    BY <2>1, <2>2 DEF Members, Wanted, Stopping
  <2>4. TypeOK'  BY <2>1, <2>2 DEF IInv, TypeOK, MainPlaces
  <2>5. AssertionsHold'  BY <2>1 DEF IInv, AssertionsHold
  <2>6. SignalsFit'  BY <2>1, <2>2 DEF IInv, SignalsFit
  <2>7. CrewFits'  BY <2>1, <2>2, <2>3 DEF IInv, CrewFits, Meeting, Calling
  <2>8. BarriersFit'  BY <2>1, <2>2, <2>3, ActorFacts DEF IInv, BarriersFit, Meeting, Calling
  <2>9. PhasesFit'  BY <2>1, <2>2 DEF IInv, PhasesFit
  <2>10. BuffersFit'  BY <2>1, <2>2, <2>3 DEF IInv, BuffersFit
  <2>11. GroupsFit'  BY <2>1, <2>2, ActorFacts, <1>1 DEF IInv, GroupsFit, Holds
  <2>12. ChannelsFit'  BY <2>1, <2>2 DEF IInv, ChannelsFit
  <2> QED  BY <2>4, <2>5, <2>6, <2>7, <2>8, <2>9, <2>10, <2>11, <2>12 DEF IInv
<1> QED  BY <1>2, <1>3

LEMMA InitIInv == Init => IInv
<1> SUFFICES ASSUME Init PROVE IInv  OBVIOUS
<1>1. at[Main] = "idle" /\ \A w \in Threads : at[w] = "off"  BY ActorFacts DEF Init
<1>2. Members = 1 /\ Wanted = 1 /\ ~stop  BY <1>1 DEF Init, Members, Wanted, Stopping
<1>3. TypeOK
  <2>1. 1 \in 1 .. MaxThreads /\ 1 \in 0 .. MaxThreads /\ 0 \in Threads /\ 0 \in 0 .. MaxGroups
    BY MaxThreadsAssumption, MaxGroupsAssumption DEF Threads
  <2> QED  BY <2>1, <1>1 DEF Init, TypeOK, MainPlaces, ThreadPlaces, NoBarrier, Barriers, Assertions
<1>4. AssertionsHold /\ SignalsFit  BY <1>1 DEF Init, AssertionsHold, SignalsFit
<1>5. CrewFits /\ PhasesFit  BY <1>1, <1>2 DEF CrewFits, PhasesFit
<1>6. BarriersFit  BY <1>1, ActorFacts, <1>2 DEF Init, BarriersFit, NoBarrier
<1>7. BuffersFit  BY <1>1, <1>2 DEF Init, BuffersFit, Threads
<1>8. GroupsFit  BY <1>1, ActorFacts DEF Init, Groups, GroupsFit
<1>9. ChannelsFit  BY <1>1 DEF Init, ChannelsFit
<1> QED  BY <1>3, <1>4, <1>5, <1>6, <1>7, <1>8, <1>9 DEF IInv

LEMMA RenderingKeeps ==
    ASSUME Tame, IInv, NEW a \in Actors, Rendering(a)
    PROVE  IInv'
    BY RenderChannelsKeeps, TakeGroupKeeps, RenderGroupKeeps, NoMoreGroupsKeeps DEF Rendering

LEMMA StutterKeeps ==
    ASSUME IInv, UNCHANGED vars
    PROVE  IInv'
<1> USE DEF vars, control, counts, barriers, signals, voices
<1>1. TypeOK' /\ AssertionsHold' /\ SignalsFit' /\ PhasesFit' /\ CrewFits'
  BY DEF IInv, TypeOK, AssertionsHold, SignalsFit, PhasesFit, CrewFits, Members, Stopping, ThreadsNeeded
<1>2. BarriersFit' /\ BuffersFit' /\ GroupsFit' /\ ChannelsFit'
  BY DEF IInv, BarriersFit, BuffersFit, GroupsFit, ChannelsFit, Members, Stopping, Wanted, Holds
<1> QED  BY <1>1, <1>2 DEF IInv

\* The invariant is inductive.
LEMMA NextIInv ==
    ASSUME Tame, IInv, [Next]_vars
    PROVE  IInv'
<1>1. ASSUME NEW newGroups \in 0 .. MaxGroups, ProcessVoices(newGroups) PROVE IInv'  BY <1>1, ProcessVoicesKeeps
<1>2. ASSUME NEW count \in 1 .. MaxThreads, SetThreadCount(count) PROVE IInv'  BY <1>2, SetThreadCountKeeps
<1>3. CASE DeletePlayer  BY <1>3, DeletePlayerKeeps
<1>4. CASE CallStep
  BY <1>4, RenderingKeeps, MainWaitsKeeps, FinishVoicesKeeps, StopThreadsKeeps, JoinThreadsKeeps,
     ReplaceBarriersKeeps, CreateThreadKeeps, CreateThreadFailsKeeps, JoinEarlyKeeps, StartThreadsKeeps, ActorFacts
     DEF CallStep
<1>5. ASSUME NEW w \in Threads, ThreadStep(w) PROVE IInv'
  BY <1>5, BeginThreadKeeps, AwaitStartKeeps, RenderingKeeps, ActorFacts DEF ThreadStep
<1>6. CASE UNCHANGED vars  BY <1>6, StutterKeeps
<1> QED  BY <1>1, <1>2, <1>3, <1>4, <1>5, <1>6 DEF Next

\* The theorems.

\* The invariant holds in every reachable state.
THEOREM Invariance ==
    ASSUME Tame
    PROVE  Spec => []IInv
<1>1. Init => IInv  BY InitIInv
<1>2. IInv /\ [Next]_vars => IInv'  BY NextIInv
<1> QED  BY <1>1, <1>2, PTL DEF Spec

\* For any number of threads, channels and groups: no assertion fails, each
\* channel and group is rendered at most once in a call, and render threads
\* touch voices only between the two barriers of a call.
THEOREM RenderingStaysSafe ==
    ASSUME Tame
    PROVE  Spec => []RenderingIsSafe
<1>1. IInv => RenderingIsSafe
  <2> SUFFICES ASSUME IInv PROVE RenderingIsSafe  OBVIOUS
  <2>1. VoicesNotShared
    BY ActorFacts DEF IInv, TypeOK, MainPlaces, SignalsFit, CrewFits, PhasesFit, ThreadsNeeded, VoicesNotShared
  <2> QED  BY <2>1 DEF RenderingIsSafe, IInv, ChannelsFit, GroupsFit, RenderedOnce
<1> QED  BY <1>1, Invariance, PTL

\* When the player is deleted, all its threads have been joined.
THEOREM DeletedPlayerHasNoThread ==
    ASSUME Tame
    PROVE  Spec => []NoThreadLeft
<1>1. IInv => NoThreadLeft  BY DEF IInv, CrewFits, NoThreadLeft, Initialised
<1> QED  BY <1>1, Invariance, PTL

\* The threads implement one call that renders everything.

Done == <<groupCount, channelsDone, groupsDone>>

\* Outside a call there is nothing to render.
LEMMA NothingToDo ==
    ASSUME ~rendering, ~rendering'
    PROVE  UNCHANGED Call!callVars
    BY DEF Call!callVars, remaining, rendering

\* Steps inside a call that render nothing do not count.
LEMMA NothingDone ==
    ASSUME rendering, rendering', UNCHANGED Done
    PROVE  UNCHANGED Call!callVars
    BY DEF Call!callVars, remaining, rendering, Done


\* A call begins with what it has to render.
LEMMA CallBegins ==
    ASSUME ~rendering, rendering'
    PROVE  \E work \in SUBSET (({"channel"} \X Channels) \cup ({"group"} \X Groups)) :
               Call!Begin(work)
<1>1. remaining' \in SUBSET (({"channel"} \X Channels) \cup ({"group"} \X Groups))  BY DEF remaining
<1> QED  BY <1>1 DEF Call!Begin, rendering

\* Rendering channels takes those off that were still to be rendered.
LEMMA ChannelsTakenOff ==
    ASSUME TypeOK, rendering, rendering', NEW chosen \in SUBSET Channels,
           \A c \in chosen : channelsDone[c] = 0,
           channelsDone' = [c \in Channels |-> channelsDone[c] + IF c \in chosen THEN 1 ELSE 0],
           UNCHANGED <<groupCount, groupsDone>>
    PROVE  Call!RenderSome \/ UNCHANGED Call!callVars
<1> DEFINE work == {"channel"} \X chosen
<1>1. work \in SUBSET remaining  BY DEF remaining
<1>2. remaining' = remaining \ work  BY DEF TypeOK, remaining
<1>3. rendering' = rendering  BY DEF rendering
<1>4. CASE work = {}  BY <1>2, <1>3, <1>4 DEF Call!callVars
<1>5. CASE work # {}  BY <1>1, <1>2, <1>3, <1>5 DEF Call!RenderSome, Call!Render
<1> QED  BY <1>4, <1>5

\* Rendering a group takes it off.
LEMMA GroupTakenOff ==
    ASSUME TypeOK, rendering, rendering', NEW chosen \in Groups,
           groupsDone[chosen] = 0, chosen < groupCount,
           groupsDone' = [groupsDone EXCEPT ![chosen] = @ + 1],
           UNCHANGED <<groupCount, channelsDone>>
    PROVE  Call!RenderSome
<1> DEFINE work == {<<"group", chosen>>}
<1>1. work \in SUBSET remaining /\ work # {}  BY DEF remaining
<1>2. remaining' = remaining \ work  BY DEF TypeOK, remaining
<1> QED  BY <1>1, <1>2 DEF Call!RenderSome, Call!Render, rendering

\* A call that is through has rendered everything.
LEMMA EverythingIsRendered ==
    ASSUME IInv, at[Main] = "done"
    PROVE  remaining = {}
BY ActorFacts DEF IInv, PhasesFit, GroupsFit, Holds, ChannelsFit, remaining


\* An actor that renders channels or a group takes them off the call's work; one
\* that leaves because the threads are stopped does so outside a call.
LEMMA RenderingStepImplements ==
    ASSUME Tame, IInv, IInv', NEW a \in Actors, Rendering(a)
    PROVE  Call!RenderSome \/ UNCHANGED Call!callVars
<1> USE DEF counts, signals, voices
<1>1. CASE RenderChannels(a)
  <2>1. ASSUME a # Main, stop
        PROVE  UNCHANGED Call!callVars
    <3>1. ~rendering /\ at'[Main] = at[Main] /\ stop' = stop
      BY <1>1, <2>1, ActorFacts DEF RenderChannels, Move, IInv, TypeOK, MainPlaces, SignalsFit, CrewFits, PhasesFit,
         ThreadsNeeded, rendering
    <3> QED  BY <3>1, NothingToDo DEF rendering
  <2>2. ASSUME ~(a # Main /\ stop)
        PROVE  Call!RenderSome \/ UNCHANGED Call!callVars
    <3>1. /\ at[a] = "released" /\ at' = [at EXCEPT ![a] = "groups"]
          /\ channelsDone' = [c \in Channels |->
                 channelsDone[c] + IF c \in ChannelsOf(a) THEN 1 ELSE 0]
          /\ UNCHANGED <<stop, groupCount, groupsDone>>
      BY <1>1, <2>2 DEF RenderChannels, Move, Break, IInv, AssertionsHold
    <3>2. a # Main => at[Main] \in {"finishing", "finish"}
      BY <2>2, <3>1, ActorFacts DEF IInv, TypeOK, MainPlaces, SignalsFit, CrewFits, PhasesFit, ThreadsNeeded
    <3>3. \A c \in ChannelsOf(a) : channelsDone[c] = 0  BY <3>1, <3>2, ActorFacts DEF IInv, ChannelsFit, ChannelsOf
    <3> QED  BY <3>1, <3>3, ChannelsTakenOff, <3>2, ActorFacts DEF IInv, ChannelsOf, TypeOK, rendering
  <2> QED  BY <2>1, <2>2
<1>2. CASE TakeGroup(a)
  <2>1. /\ at' = [at EXCEPT ![a] = "group"] /\ at[a] = "groups"
        /\ UNCHANGED Done /\ UNCHANGED stop  BY <1>2 DEF TakeGroup, Move, Done
  <2>2. rendering /\ rendering'
    BY <2>1, ActorFacts DEF IInv, TypeOK, MainPlaces, CrewFits, PhasesFit, ThreadsNeeded, rendering
  <2> QED  BY <2>1, <2>2, NothingDone
<1>3. CASE RenderGroup(a)
  <2>1. /\ at' = [at EXCEPT ![a] = "groups"] /\ at[a] = "group"
        /\ groupsDone' = [groupsDone EXCEPT ![group[a]] = @ + 1]
        /\ UNCHANGED <<stop, groupCount, channelsDone>>  BY <1>3 DEF RenderGroup, Move
  <2>2. rendering /\ rendering'
    BY <2>1, ActorFacts DEF IInv, TypeOK, MainPlaces, CrewFits, PhasesFit, ThreadsNeeded, rendering
  <2>3. group[a] \in Groups /\ group[a] < groupCount  BY <2>1, MaxGroupsAssumption DEF IInv, TypeOK, GroupsFit, Groups
  <2> QED  BY <2>1, <2>2, <2>3, GroupTakenOff DEF IInv, GroupsFit, Holds
<1>4. CASE NoMoreGroups(a)
  <2>1. at[a] = "groups" /\ UNCHANGED Done /\ UNCHANGED stop  BY <1>4 DEF NoMoreGroups, Done
  <2>2. rendering  BY <2>1, ActorFacts DEF IInv, TypeOK, MainPlaces, CrewFits, PhasesFit, ThreadsNeeded, rendering
  <2>3. at'[Main] \in {"done", "finishing", "finish"}
    <3>1. CASE a = Main  BY <1>4, <3>1, ActorFacts DEF NoMoreGroups, Move, IInv, TypeOK
    <3>2. CASE a # Main
      <4>1. at[Main] \in {"finishing", "finish"}
        BY <2>1, <3>2, ActorFacts DEF IInv, TypeOK, MainPlaces, CrewFits, PhasesFit, ThreadsNeeded
      <4> QED  BY <1>4, <3>2, <4>1, ActorFacts DEF NoMoreGroups, MeetAtFinish, AfterFinish, Break, IInv, TypeOK
    <3> QED  BY <3>1, <3>2
  <2> QED  BY <2>1, <2>2, <2>3, NothingDone DEF rendering
<1> QED  BY <1>1, <1>2, <1>3, <1>4 DEF Rendering

\* The main thread ends the call when it is through with the voices; what it
\* does to start, stop and join threads is outside a call.
LEMMA CallStepImplements ==
    ASSUME Tame, IInv, IInv', CallStep
    PROVE  Call!RenderSome \/ Call!End \/ UNCHANGED Call!callVars
<1> USE DEF counts, signals, barriers, voices
<1>1. CASE Rendering(Main)  BY <1>1, RenderingStepImplements, ActorFacts
<1>2. CASE MainWaits
  <2>1. at[Main] = "finishing" /\ UNCHANGED Done  BY <1>2 DEF MainWaits, MainAt, Done
  <2>2. at'[Main] \in {"done", "finishing", "finish"}
    BY <1>2, <2>1, ActorFacts DEF MainWaits, MeetAtFinish, AfterFinish, Break, IInv, TypeOK
  <2> QED  BY <2>1, <2>2, NothingDone DEF rendering
<1>3. CASE FinishVoices
  <2>1. at[Main] = "done" /\ at'[Main] = "idle"  BY <1>3, ActorFacts DEF FinishVoices, MainAt, Move, IInv, TypeOK
  <2> QED  BY <2>1, EverythingIsRendered DEF Call!End, rendering, remaining
<1>4. CASE StopThreads
  <2>1. IF oldCount > 1 THEN stop' /\ at'[Main] \in {"start", "join", "stopping"}
        ELSE at'[Main] = "barriers"
    BY <1>4, ActorFacts DEF StopThreads, MainAt, Move, MeetAtStart, AfterStart, Break, IInv, TypeOK
  <2> QED  BY <2>1, NothingToDo, <1>4 DEF rendering, StopThreads, MainAt
<1>5. CASE \/ JoinThreads \/ ReplaceBarriers \/ CreateThread \/ CreateThreadFails
           \/ JoinEarly \/ StartThreads
  <2>1. at[Main] \in {"join", "barriers", "creating", "join_early"}
    BY <1>5 DEF JoinThreads, ReplaceBarriers, CreateThread, CreateThreadFails, JoinEarly, StartThreads, MainAt
  <2>2. at'[Main] \in {"barriers", "deleted", "creating", "join_early", "idle"}
    <3>1. CASE JoinThreads \/ JoinEarly  BY <3>1, ActorFacts DEF JoinThreads, JoinEarly
    <3>2. CASE ReplaceBarriers \/ CreateThreadFails \/ StartThreads
      BY <3>2, ActorFacts DEF ReplaceBarriers, CreateThreadFails, StartThreads, MainAt, Move, Break, FailCall, IInv,
         TypeOK
    <3>3. CASE CreateThread  BY <3>3, CreatedThreads, ActorFacts DEF CreateThread, MainAt, Move, IInv, TypeOK, Threads
    <3> QED  BY <1>5, <3>1, <3>2, <3>3
  <2> QED  BY <2>1, <2>2, NothingToDo DEF rendering
<1> QED  BY <1>1, <1>2, <1>3, <1>4, <1>5 DEF CallStep

\* A thread that begins or meets the others renders nothing.
LEMMA ThreadStepImplements ==
    ASSUME Tame, IInv, IInv', NEW w \in Threads, ThreadStep(w)
    PROVE  Call!RenderSome \/ UNCHANGED Call!callVars
<1> USE DEF counts, signals, barriers, voices
<1>1. CASE Rendering(w)  BY <1>1, RenderingStepImplements, ActorFacts
<1>2. CASE BeginThread(w)
  <2>1. at'[Main] = at[Main] /\ UNCHANGED stop /\ UNCHANGED Done
    BY <1>2, ActorFacts DEF BeginThread, Move, IInv, TypeOK, Done
  <2> QED  BY <2>1, NothingToDo, NothingDone DEF rendering
<1>3. CASE AwaitStart(w)
  <2>1. \/ at'[Main] = at[Main]
        \/ at[Main] = "start" /\ at'[Main] = IF stop THEN "join" ELSE "finishing"
    BY <1>3, ActorFacts DEF AwaitStart, MeetAtStart, AfterStart, Break, IInv, TypeOK, BarriersFit
  <2> QED  BY <2>1, NothingToDo, NothingDone, <1>3 DEF rendering, AwaitStart, Done
<1> QED  BY <1>1, <1>2, <1>3 DEF ThreadStep

\* Every step is a step of the call or leaves it as it is.
LEMMA StepImplements ==
    ASSUME Tame, IInv, IInv', [Next]_vars
    PROVE  [Call!CallNext]_Call!callVars
<1> USE DEF counts, signals, barriers, voices
<1>1. ASSUME NEW newGroups \in 0 .. MaxGroups, ProcessVoices(newGroups)
      PROVE  Call!CallNext
  <2>1. ~stop /\ stop' = stop  BY <1>1 DEF ProcessVoices, MainAt, IInv, SignalsFit
  <2>2. at'[Main] \in {"released", "start", "finishing"}
    BY <1>1, <2>1, ActorFacts DEF ProcessVoices, MainAt, Move, MeetAtStart, AfterStart, Break, IInv, TypeOK,
       AssertionsHold
  <2> QED  BY <2>1, <2>2, CallBegins, <1>1 DEF rendering, Call!CallNext, ProcessVoices, MainAt
<1>2. ASSUME NEW count \in 1 .. MaxThreads, SetThreadCount(count)
      PROVE  UNCHANGED Call!callVars
  <2>1. at[Main] = "idle" /\ at'[Main] \in {"idle", "stopping"}
    BY <1>2, ActorFacts DEF SetThreadCount, MainAt, Move, Break, FailCall, IInv, TypeOK
  <2> QED  BY <2>1, NothingToDo DEF rendering
<1>3. CASE DeletePlayer  BY <1>3, ActorFacts, NothingToDo DEF DeletePlayer, MainAt, Move, IInv, TypeOK, rendering
<1>4. CASE CallStep  BY <1>4, CallStepImplements DEF Call!CallNext
<1>5. ASSUME NEW w \in Threads, ThreadStep(w)
      PROVE  [Call!CallNext]_Call!callVars  BY <1>5, ThreadStepImplements DEF Call!CallNext
<1>6. CASE UNCHANGED vars  BY <1>6 DEF vars, control, Call!callVars, rendering, remaining
<1> QED  BY <1>1, <1>2, <1>3, <1>4, <1>5, <1>6 DEF Next

\* What the threads do, for any number of them, is what one call promises:
\* everything it has to render is rendered, piece by piece and nothing twice,
\* before the call goes on.  (That it does go on is left to the run.)
THEOREM ThreadsImplementCall ==
    ASSUME Tame
    PROVE  Spec => Call!CallSafety
<1>1. Init => Call!CallInit
  <2> SUFFICES ASSUME Init PROVE Call!CallInit  OBVIOUS
  <2> QED  BY ActorFacts DEF Call!CallInit, rendering, remaining, Init
<1>2. IInv /\ IInv' /\ [Next]_vars => [Call!CallNext]_Call!callVars  BY StepImplements
<1> QED  BY <1>1, <1>2, Invariance, PTL DEF Spec, Call!CallSafety

=============================================================================
