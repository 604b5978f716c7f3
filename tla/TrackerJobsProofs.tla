-------------------------- MODULE TrackerJobsProofs --------------------------
(***************************************************************************)
(* The jobs of the user interface, for any keys, values and transactions:  *)
(* saves, exports, imports and the setting up of a module.  A job is in    *)
(* one place at a time, on its way as a signal, a flush, a task, a         *)
(* notifier or a dialog, and its place says which flags are set and what   *)
(* may be put (JobInv).  The progress window is there while a task or a    *)
(* notifier works, or while a module is loaded (WindowInv, LoadWindow),    *)
(* and the signals that wait can be shown in their order (SigsFit).        *)
(*                                                                         *)
(* The sections follow the groups of actions: for each group, a lemma says *)
(* that its steps keep the state of the jobs.  What follows from that is   *)
(* at the end: the implementation of Replica, the soundness of the files   *)
(* that are saved (FileInv, LeftBehind), and that nothing is left half     *)
(* done (Awaited).                                                         *)
(***************************************************************************)
EXTENDS TrackerProtocolProofs

-----------------------------------------------------------------------------
\* Signals in their order: those that this update still handles, or else
\* those that wait for the next one.
Sigs == IF tick.sigs = <<>> THEN signals.now ELSE tick.sigs

\* No signal is there twice but the one that is deferred.
Once(c) == \A i, j \in DOMAIN c : c[i] = c[j] /\ c[i] # "visibility" => i = j

PcInv ==
    /\ tick.pc \in {"idle", "commands"} => tick.sigs = <<>>
    /\ tick.pc \in {"idle", "updates"} => tick.cmds = <<>>

\* Only the signal that is deferred may be there twice.
Calm(s) == Once(s.now) /\ NamesIn(s.later) \subseteq {"visibility"}

SignalsInv ==
    /\ PcInv
    /\ tick.sigs = <<>> \/ signals.now = <<>>
    /\ tick.pc = "updates" => signals.now = <<>>
    /\ Calm(signals) /\ Once(tick.sigs)

-----------------------------------------------------------------------------
\* The progress window.
ProgressNames == {"progress_start", "progress_step", "progress_finished"}

\* It is started first and finished last.
Framed(c) ==
    \A i, j \in DOMAIN c : i < j /\ c[i] \in ProgressNames /\ c[j] \in ProgressNames =>
        c[j] # "progress_start" /\ c[i] # "progress_finished"

\* It can take the signals that wait.
Fits(c, shown) ==
    /\ Framed(c)
    /\ IF shown THEN "progress_start" \notin NamesIn(c)
       ELSE NamesIn(c) \intersect ProgressNames # {} => "progress_start" \in NamesIn(c)

\* It is shown, or will be, and nothing finishes it yet.
Open(c, shown) ==
    (shown \/ "progress_start" \in NamesIn(c)) /\ "progress_finished" \notin NamesIn(c)

Closed(c, shown) == ~shown /\ NamesIn(c) \intersect ProgressNames = {}

Begun(task) == "todo" \in DOMAIN task \/ "begun" \in DOMAIN task
Working == (\E i \in DOMAIN tasks : Begun(tasks[i])) \/ store.notifiers # {}
LoadUnderWay ==
    \/ \E i \in DOMAIN audioQ : audioQ[i].op = "load_module"
    \/ engine.doing.op \in {"load", "entries"}
    \/ \E m \in Items(Flow) : m.op \in LoadReplies

JobSignals ==
    {"start_save", "start_export_au", "start_import_au", "save_finished", "export_finished",
     "save_error", "export_error", "au_import_finished", "module"}
JobEnds == JobSignals \ {"start_save", "start_export_au", "start_import_au"}
JobErrors == {"save_error", "export_error"}

-----------------------------------------------------------------------------
\* The places of a job.
Marks == NamesIn(Sigs) \intersect JobSignals
Shown == windows.dialogs \intersect JobErrors

At(marks, flushes, waiting, notifiers, shown) ==
    /\ Marks = marks /\ store.flushes = flushes /\ tasks = waiting
    /\ store.notifiers = notifiers /\ Shown = shown
AtSignal(name) == At({name}, {}, <<>>, {}, {})
AtFlush(f) == At({}, {f}, <<>>, {}, {})
AtTask(task) == At({}, {}, <<task>>, {}, {})
AtNotifier(id) == At({}, {}, <<>>, {id}, {})
AtDialog(d) == At({}, {}, <<>>, {}, {d})

Flags(saving, importing, exporting, closed) ==
    /\ session.saving = saving /\ session.importing = importing
    /\ session.exporting = exporting /\ store.saving = closed

NoJob == At({}, {}, <<>>, {}, {}) /\ Flags(FALSE, FALSE, FALSE, FALSE) /\ windows.enabled

SettingUp ==
    /\ Flags(FALSE, FALSE, FALSE, FALSE)
    /\ ~windows.enabled /\ "exit" \notin windows.dialogs /\ file = None
    /\ AtTask([op |-> "sandbox"]) \/ (AtSignal("module") /\ ~store.modified)

\* An export closes the store at once, a save only when it is flushed.
StartOf(op) == IF op = "save" THEN "start_save" ELSE "start_export_au"
Begins(op) == AtSignal(StartOf(op)) /\ Flags(TRUE, FALSE, op = "export", op = "export")

Flushes(op) ==
    /\ Flags(TRUE, FALSE, op = "export", op = "export") /\ ~windows.enabled
    /\ \E f \in store.flushes :
        /\ AtFlush(f) /\ f.call = op
        /\ \A p \in DOMAIN store.pending : store.pending[p].id < f.id

\* The keys that are written, and the values of those that were.
Exists(k) == store.content[k] # None
Scope(op) == IF op = "save" THEN Keys ELSE Keys \intersect AuKeys
Consistent(task) ==
    "todo" \in DOMAIN task =>
        /\ task.todo \union DOMAIN task.got = {k \in Scope(task.op) : Exists(k)}
        /\ \A k \in DOMAIN task.got : task.got[k] = store.content[k]

Writes(op) ==
    /\ Flags(TRUE, FALSE, FALSE, TRUE) /\ ~windows.enabled
    /\ \E i \in DOMAIN tasks : AtTask(tasks[i]) /\ tasks[i].op = op /\ Consistent(tasks[i])
    /\ store.pending = <<>>

Ends(op) ==
    /\ Flags(TRUE, FALSE, FALSE, TRUE) /\ ~windows.enabled
    /\ \E name \in {FinishedOf(op), ErrorOf(op)} : AtSignal(name)

Failed(op) == Flags(TRUE, FALSE, FALSE, TRUE) /\ ~windows.enabled /\ AtDialog(ErrorOf(op))

WriteJob(op) == Begins(op) \/ Flushes(op) \/ Writes(op) \/ Ends(op) \/ Failed(op)

ImportJob ==
    /\ Flags(FALSE, TRUE, FALSE, FALSE)
    /\ \/ AtSignal("start_import_au") \/ AtSignal("au_import_finished")
       \/ \E i \in DOMAIN tasks : AtTask(tasks[i]) /\ tasks[i].op = "import"
       \/ \E id \in store.notifiers : AtNotifier(id)

JobInv == NoJob \/ SettingUp \/ WriteJob("save") \/ WriteJob("export") \/ ImportJob

PendingIds == {store.pending[p].id : p \in DOMAIN store.pending}

-----------------------------------------------------------------------------
\* Signals that are raised.

\* A name may be raised: the progress window is started first, and stepped
\* and finished while it is there.
MayRaise(c, shown, name) ==
    /\ name = "progress_start" => Closed(c, shown)
    /\ name \in {"progress_step", "progress_finished"} => Open(c, shown)

Solid(c) == NamesIn(c) \ {"visibility"}

LEMMA SolidFacts ==
    ASSUME NEW c
    PROVE  /\ \A name : name \in NamesIn(c) /\ name # "visibility" <=> name \in Solid(c)
           /\ ProgressNames \intersect NamesIn(c) = ProgressNames \intersect Solid(c)
           /\ JobSignals \intersect NamesIn(c) = JobSignals \intersect Solid(c)
    BY DEF Solid, ProgressNames, JobSignals

\* c with the name at the end, after what was deferred if c was empty.
LEMMA Joined ==
    ASSUME NEW c \in Seq(SignalNames), NEW d \in Seq(SignalNames), NEW name \in SignalNames,
           c = d \/ (NamesIn(c) = {} /\ NamesIn(d) \subseteq {"visibility"}),
           Once(c), NEW shown \in BOOLEAN, Fits(c, shown), MayRaise(c, shown, name)
    PROVE  LET e == AppendNew(d, name)
           IN (Once(d) => Once(e)) /\ Solid(e) = (Solid(c) \union {name}) \ {"visibility"} /\ Fits(e, shown)
<1> DEFINE e == AppendNew(d, name)
<1>1. e \in Seq(SignalNames) /\ NamesIn(e) = NamesIn(d) \union {name}  BY AppendNewType
<1>2. Solid(e) = (Solid(c) \union {name}) \ {"visibility"}  BY <1>1 DEF Solid
<1>3. DOMAIN c = 1..Len(c) /\ Len(c) \in Nat /\ DOMAIN d = 1..Len(d) /\ Len(d) \in Nat  OBVIOUS
<1>4. \A i, j \in DOMAIN d : ~(i < j /\ d[i] \in ProgressNames /\ d[j] \in ProgressNames /\
        (d[j] = "progress_start" \/ d[i] = "progress_finished"))  BY DEF Fits, Framed, NamesIn, ProgressNames
<1>5. CASE \E i \in DOMAIN d : d[i] = name  BY <1>5, <1>4, <1>2 DEF AppendNew, Framed, NamesIn, Fits, ProgressNames
<1>6. CASE ~\E i \in DOMAIN d : d[i] = name
  <2>1. /\ DOMAIN e = 1..Len(d) + 1 /\ \A i \in 1..Len(d) : e[i] = d[i]
        /\ e[Len(d) + 1] = name  BY <1>3, <1>6 DEF AppendNew
  <2>2. Once(d) => Once(e)
    <3> SUFFICES ASSUME Once(d), NEW i \in DOMAIN e, NEW j \in DOMAIN e, e[i] = e[j], e[i] # "visibility" PROVE i = j
      BY DEF Once
    <3>1. CASE i <= Len(d) /\ j <= Len(d)  BY <1>3, <2>1, <3>1 DEF Once
    <3>2. CASE i <= Len(d) /\ ~(j <= Len(d))  BY <1>3, <2>1, <3>2, <1>6
    <3>3. CASE ~(i <= Len(d)) /\ j <= Len(d)  BY <1>3, <2>1, <3>3, <1>6
    <3>4. CASE ~(i <= Len(d)) /\ ~(j <= Len(d))  BY <1>3, <2>1, <3>4
    <3> QED  BY <3>1, <3>2, <3>3, <3>4
  <2>3. Framed(e)
    <3> SUFFICES ASSUME NEW i \in DOMAIN e, NEW j \in DOMAIN e, i < j, e[i] \in ProgressNames, e[j] \in ProgressNames
                 PROVE  e[j] # "progress_start" /\ e[i] # "progress_finished"  BY DEF Framed
    <3>1. i \in DOMAIN d /\ e[i] = d[i] /\ d[i] \in NamesIn(d)  BY <1>3, <2>1 DEF NamesIn
    <3>2. CASE j <= Len(d)  BY <1>3, <2>1, <3>2, <1>4, <3>1
    <3>3. CASE ~(j <= Len(d))  BY <1>3, <2>1, <3>3, <3>1 DEF MayRaise, Closed, ProgressNames, Open
    <3> QED  BY <3>2, <3>3
  <2> QED  BY <1>2, <2>2, <1>1, <2>3 DEF ProgressNames, Fits, MayRaise, Closed, Open
<1> QED  BY <1>5, <1>6

Live == Solid(Sigs)

\* The signals after a step.
Moves(live) == SignalsInv' /\ Live' = live /\ Fits(Sigs, windows.progress)'
EventTime == tick.pc \in {"idle", "commands"}
SigsFit == SignalsInv /\ Fits(Sigs, windows.progress)

LEMMA Updated ==
    ASSUME NEW s \in SignalLists, Calm(s), NEW name \in SignalNames, NEW shown \in BOOLEAN,
           Fits(s.now, shown), MayRaise(s.now, shown, name)
    PROVE  LET u == SignalUpdate(s, name)
           IN /\ u \in SignalLists /\ Calm(u)
              /\ Solid(u.now) = (Solid(s.now) \union {name}) \ {"visibility"} /\ Fits(u.now, shown)
<1> DEFINE u == SignalUpdate(s, name)
<1>1. s.now \in Seq(SignalNames) /\ s.later \in Seq(SignalNames) /\ u \in SignalLists  BY SignalType DEF SignalLists
<1>2. Once(s.now) /\ NamesIn(s.later) \subseteq {"visibility"} /\ Once(s.later)  BY DEF Calm, Once, NamesIn
<1>3. CASE s.now = <<>>
  <2>1. u.now = AppendNew(s.later, name) /\ u.later = <<>>  BY <1>3 DEF SignalUpdate
  <2>2. /\ Once(u.now) /\ Solid(u.now) = (Solid(s.now) \union {name}) \ {"visibility"}
        /\ Fits(u.now, shown)
    <3> DEFINE c == s.now
               d == s.later
    <3>1. /\ c \in Seq(SignalNames) /\ d \in Seq(SignalNames) /\ Once(c) /\ Once(d)
          /\ NamesIn(c) = {} /\ NamesIn(d) \subseteq {"visibility"} /\ Fits(c, shown) /\ MayRaise(c, shown, name)
      BY <1>1, <1>2, <1>3 DEF NamesIn
    <3>2. u.now = AppendNew(d, name)  BY <2>1
    <3> HIDE DEF c, d, u
    <3> QED  BY <3>2, <3>1, Joined DEF c
  <2> QED  BY <1>1, <2>2, <2>1 DEF Calm, NamesIn
<1>4. CASE s.now # <<>>  BY <1>4, <1>1, <1>2, Joined DEF SignalUpdate, SignalLists, Calm
<1> QED  BY <1>3, <1>4

LEMMA SigsAtEventTime ==
    ASSUME SignalsInv, EventTime
    PROVE  Sigs = signals.now /\ tick.sigs = <<>>
    BY DEF SignalsInv, PcInv, EventTime, Sigs

LEMMA SigsBecome ==
    ASSUME PcInv', tick'.sigs = <<>>, EventTime', Calm(signals)', windows'.progress = windows.progress,
           Fits(signals'.now, windows.progress)
    PROVE  Moves(Solid(signals'.now))
<1>1. Sigs' = signals'.now  BY DEF Sigs
<1>2. Fits(Sigs, windows.progress)'  BY <1>1 DEF Fits, Framed, NamesIn
<1> QED  BY <1>2, <1>1 DEF Moves, SignalsInv, EventTime, Once, Live, Solid, NamesIn

LEMMA SigsKept ==
    ASSUME SigsFit, PcInv', UNCHANGED signals, tick'.sigs = tick.sigs, windows'.progress = windows.progress,
           tick'.pc = "updates" => tick.pc = "updates"
    PROVE  Moves(Live)
<1>1. Sigs' = Sigs  BY DEF Sigs
<1>2. Live' = Live  BY <1>1 DEF Live, Solid, NamesIn
<1>3. Fits(Sigs, windows.progress)'  BY <1>1 DEF Fits, Framed, NamesIn, SigsFit
<1> QED  BY <1>2, <1>3 DEF Moves, SigsFit, SignalsInv, Calm, Once, NamesIn

\* tick.pc stays, and so does what waits in the tick.
TickKept == tick'.pc = tick.pc /\ tick'.sigs = tick.sigs
EventStep == SigsFit /\ EventTime /\ PcInv' /\ TickKept /\ windows'.progress = windows.progress

LEMMA SigsRaised ==
    ASSUME TypeOK, EventStep, NEW name \in SignalNames, Raise(name), MayRaise(Sigs, windows.progress, name)
    PROVE  Moves((Live \union {name}) \ {"visibility"})
<1>1. Sigs = signals.now /\ tick'.sigs = <<>> /\ EventTime'
  BY SigsAtEventTime DEF EventStep, SigsFit, TickKept, EventTime
<1>2. signals \in SignalLists /\ windows.progress \in BOOLEAN  BY DEF TypeOK, Windows
<1> DEFINE u == SignalUpdate(signals, name)
<1>3. Calm(u) /\ Fits(u.now, windows.progress) /\ Solid(u.now) = (Live \union {name}) \ {"visibility"}
  BY <1>1, <1>2, Updated DEF Live, EventStep, SigsFit, SignalsInv
<1>4. signals' = u  BY DEF Raise
<1> HIDE DEF u
<1> QED  BY <1>3, <1>4, <1>1, SigsBecome DEF EventStep, Calm, Once, NamesIn

LEMMA SigsRaisedBoth ==
    ASSUME TypeOK, EventStep, NEW first \in SignalNames, NEW second \in SignalNames, RaiseBoth(first, second),
           MayRaise(Sigs, windows.progress, first),
           first \in ProgressNames => second \notin ProgressNames,
           second \in ProgressNames => MayRaise(Sigs, windows.progress, second)
    PROVE  Moves((Live \union {first, second}) \ {"visibility"})
<1>1. Sigs = signals.now /\ tick'.sigs = <<>> /\ EventTime'
  BY SigsAtEventTime DEF EventStep, SigsFit, TickKept, EventTime
<1>2. signals \in SignalLists /\ windows.progress \in BOOLEAN  BY DEF TypeOK, Windows
<1> DEFINE one == SignalUpdate(signals, first)
           two == SignalUpdate(one, second)
<1>3. /\ one \in SignalLists /\ Calm(one) /\ Fits(one.now, windows.progress)
      /\ Solid(one.now) = (Live \union {first}) \ {"visibility"}
  BY <1>1, <1>2, Updated DEF Live, EventStep, SigsFit, SignalsInv
<1>4. signals' = two  BY DEF RaiseBoth
<1> HIDE DEF one
<1>5. MayRaise(one.now, windows.progress, second)  BY <1>3, SolidFacts DEF MayRaise, ProgressNames, Live, Open, Closed
<1>6. /\ Calm(two) /\ Fits(two.now, windows.progress)
      /\ Solid(two.now) = (Solid(one.now) \union {second}) \ {"visibility"}  BY <1>2, <1>3, <1>5, Updated
<1> HIDE DEF two
<1> QED  BY <1>1, SigsBecome, <1>4, <1>6, <1>3 DEF EventStep, Calm, Once, NamesIn

LEMMA ProgressNamesOnly ==
    ASSUME NEW c, NEW d, Solid(c) \intersect ProgressNames = Solid(d) \intersect ProgressNames, NEW shown \in BOOLEAN
    PROVE  Open(c, shown) = Open(d, shown) /\ Closed(c, shown) = Closed(d, shown)
BY DEF Solid, ProgressNames, Open, Closed

\* The window is finished after something else was raised.
LEMMA SigsRaisedAll ==
    ASSUME TypeOK, EventStep, NEW first \in SignalNames, NEW second \in SignalNames \ ProgressNames,
           RaiseAll(first, second, "progress_finished"),
           \/ first = "progress_start" /\ Closed(Sigs, windows.progress)
           \/ first \notin ProgressNames /\ Open(Sigs, windows.progress)
    PROVE  Moves((Live \union {first, second, "progress_finished"}) \ {"visibility"})
<1>1. Sigs = signals.now /\ tick'.sigs = <<>> /\ EventTime'
  BY SigsAtEventTime DEF EventStep, SigsFit, TickKept, EventTime
<1>2. signals \in SignalLists /\ windows.progress \in BOOLEAN  BY DEF TypeOK, Windows
<1> DEFINE one == SignalUpdate(signals, first)
           two == SignalUpdate(one, second)
           three == SignalUpdate(two, "progress_finished")
<1>3. /\ one \in SignalLists /\ Calm(one) /\ Fits(one.now, windows.progress)
      /\ Solid(one.now) = (Live \union {first}) \ {"visibility"}
  BY <1>1, <1>2, Updated DEF Live, EventStep, SigsFit, SignalsInv, MayRaise, ProgressNames
<1>4. signals' = three  BY DEF RaiseAll
<1> HIDE DEF one
<1>5. /\ two \in SignalLists /\ Calm(two) /\ Fits(two.now, windows.progress)
      /\ Solid(two.now) = (Solid(one.now) \union {second}) \ {"visibility"}
  BY <1>2, <1>3, Updated DEF MayRaise, ProgressNames
<1> HIDE DEF two
<1>6. Solid(two.now) \intersect ProgressNames = (Live \union {first}) \intersect ProgressNames
  BY <1>3, <1>5 DEF ProgressNames
<1>7. Open(two.now, windows.progress)
  BY <1>6, SolidFacts, <1>2, ProgressNamesOnly DEF Live, Closed, ProgressNames, Open, Solid
<1>8. MayRaise(two.now, windows.progress, "progress_finished") /\ "progress_finished" \in SignalNames
  BY <1>7 DEF MayRaise, SignalNames
<1>9. /\ Calm(three) /\ Fits(three.now, windows.progress)
      /\ Solid(three.now) = (Solid(two.now) \union {"progress_finished"}) \ {"visibility"}
  BY <1>2, <1>5, <1>8, Updated
<1> HIDE DEF three
<1>10. Moves(Solid(signals'.now))  BY <1>1, SigsBecome, <1>4, <1>9 DEF EventStep, Calm, Once, NamesIn
<1> QED  BY <1>10, <1>3, <1>4, <1>5, <1>9

-----------------------------------------------------------------------------
\* Signals that are handled.

LEMMA TailNames ==
    ASSUME NEW S, NEW c \in Seq(S), c # <<>>
    PROVE  NamesIn(Tail(c)) = {c[i] : i \in DOMAIN c \ {1}}
<1>1. /\ Len(c) \in Nat \ {0} /\ DOMAIN c = 1..Len(c) /\ DOMAIN Tail(c) = 1..Len(c) - 1
      /\ \A i \in 1..Len(c) - 1 : Tail(c)[i] = c[i + 1]  BY HeadFacts
<1>2. ASSUME NEW i \in DOMAIN Tail(c) PROVE Tail(c)[i] \in {c[j] : j \in DOMAIN c \ {1}}  BY <1>1
<1>3. ASSUME NEW j \in DOMAIN c \ {1} PROVE c[j] \in NamesIn(Tail(c))
  <2>1. PICK i \in DOMAIN Tail(c) : j = i + 1
    <3>1. j - 1 \in DOMAIN Tail(c) /\ j = (j - 1) + 1  BY <1>1
    <3> QED  BY <3>1
  <2> QED  BY <1>1, <2>1 DEF NamesIn
<1> QED  BY <1>2, <1>3 DEF NamesIn

LEMMA Dropped ==
    ASSUME NEW c \in Seq(SignalNames), c # <<>>, Once(c), c[1] # "visibility"
    PROVE  Once(Tail(c)) /\ Solid(Tail(c)) = Solid(c) \ {c[1]}
<1>1. /\ Len(c) \in Nat \ {0} /\ DOMAIN c = 1..Len(c) /\ DOMAIN Tail(c) = 1..Len(c) - 1
      /\ \A i \in 1..Len(c) - 1 : Tail(c)[i] = c[i + 1]  BY HeadFacts
<1>2. \A i \in DOMAIN c : i # 1 => i - 1 \in 1..Len(c) - 1 /\ c[i] = Tail(c)[i - 1]  BY <1>1
<1>3. Once(Tail(c))
  <2> SUFFICES ASSUME NEW i \in DOMAIN Tail(c), NEW j \in DOMAIN Tail(c), Tail(c)[i] = Tail(c)[j], Tail(c)[i] # "visibility"
               PROVE  i = j  BY DEF Once
  <2> QED  BY <1>1 DEF Once
<1>4. {c[i] : i \in DOMAIN c \ {1}} = NamesIn(c) \ {c[1]}  BY <1>1 DEF NamesIn, Once
<1> QED  BY <1>3, <1>4, TailNames DEF Solid

LEMMA DroppedLater ==
    ASSUME NEW c \in Seq(SignalNames), c # <<>>, Once(c), c[1] = "visibility"
    PROVE  Once(Tail(c)) /\ Solid(Tail(c)) = Solid(c)
<1>1. /\ Len(c) \in Nat \ {0} /\ DOMAIN c = 1..Len(c) /\ DOMAIN Tail(c) = 1..Len(c) - 1
      /\ \A i \in 1..Len(c) - 1 : Tail(c)[i] = c[i + 1]  BY HeadFacts
<1>2. \A i \in DOMAIN c : i # 1 => i - 1 \in 1..Len(c) - 1 /\ c[i] = Tail(c)[i - 1]  BY <1>1
<1>3. Once(Tail(c))
  <2> SUFFICES ASSUME NEW i \in DOMAIN Tail(c), NEW j \in DOMAIN Tail(c), Tail(c)[i] = Tail(c)[j], Tail(c)[i] # "visibility"
               PROVE  i = j  BY DEF Once
  <2> QED  BY <1>1 DEF Once
<1>4. NamesIn(c) \ {"visibility"} = {c[i] : i \in DOMAIN c \ {1}} \ {"visibility"}  BY <1>1 DEF NamesIn
<1> QED  BY <1>3, <1>4, TailNames DEF Solid

\* What the window is after it has taken a signal.
Taking(shown, name) == IF name \in ProgressNames THEN name # "progress_finished" ELSE shown

LEMMA DroppedFits ==
    ASSUME NEW c \in Seq(SignalNames), c # <<>>, NEW shown \in BOOLEAN, Fits(c, shown)
    PROVE  /\ c[1] \in ProgressNames => shown = (c[1] # "progress_start")
           /\ Fits(Tail(c), Taking(shown, c[1]))
<1>1. /\ Len(c) \in Nat \ {0} /\ DOMAIN c = 1..Len(c) /\ DOMAIN Tail(c) = 1..Len(c) - 1
      /\ \A i \in 1..Len(c) - 1 : Tail(c)[i] = c[i + 1]  BY HeadFacts
<1>2. \A i \in 1..Len(c) - 1 : i + 1 \in DOMAIN c /\ 1 < i + 1  BY <1>1
<1>3. 1 \in DOMAIN c  BY <1>1
<1>4. Framed(Tail(c))
  <2> SUFFICES ASSUME NEW i \in DOMAIN Tail(c), NEW j \in DOMAIN Tail(c), i < j,
                      Tail(c)[i] \in ProgressNames, Tail(c)[j] \in ProgressNames
               PROVE  Tail(c)[j] # "progress_start" /\ Tail(c)[i] # "progress_finished"  BY DEF Framed
  <2> QED  BY <1>1 DEF Fits, Framed
<1>5. NamesIn(Tail(c)) = {c[i] : i \in DOMAIN c \ {1}}  BY TailNames
<1>6. NamesIn(c) = NamesIn(Tail(c)) \union {c[1]}  BY <1>3, <1>5 DEF NamesIn
<1>7. \A name \in NamesIn(Tail(c)) :
        name \in ProgressNames /\ c[1] \in ProgressNames => name # "progress_start" /\ c[1] # "progress_finished"
  BY <1>3, <1>5, <1>1 DEF Fits, Framed
<1>8. {"progress_start", "progress_step", "progress_finished"} = ProgressNames  BY DEF ProgressNames
<1>9. CASE c[1] \notin ProgressNames  BY <1>6, <1>9, <1>8, <1>4 DEF Fits, Taking
<1>10. CASE c[1] = "progress_start"  BY <1>6, <1>10, <1>7, <1>8, <1>4 DEF Fits, Taking
<1>11. CASE c[1] \in {"progress_step", "progress_finished"}  BY <1>7, <1>8, <1>11, <1>6, <1>4 DEF Fits, Taking
<1> QED  BY <1>8, <1>9, <1>10, <1>11

LEMMA Prefixed ==
    ASSUME NEW d \in Seq(SignalNames), NEW c \in Seq(SignalNames), NamesIn(d) \subseteq {"visibility"}, Once(c),
           NEW shown \in BOOLEAN, Fits(c, shown)
    PROVE  /\ d \o c \in Seq(SignalNames) /\ Once(d \o c) /\ Solid(d \o c) = Solid(c)
           /\ Fits(d \o c, shown)
<1> DEFINE e == d \o c
<1>1. /\ e \in Seq(SignalNames) /\ DOMAIN e = 1..Len(d) + Len(c)
      /\ DOMAIN d = 1..Len(d) /\ DOMAIN c = 1..Len(c) /\ Len(d) \in Nat /\ Len(c) \in Nat
      /\ \A i \in 1..Len(d) + Len(c) : e[i] = IF i <= Len(d) THEN d[i] ELSE c[i - Len(d)]  BY ConcatProperties
<1> HIDE DEF e
<1>2. ASSUME NEW i \in DOMAIN e, e[i] # "visibility"
      PROVE  \E k \in DOMAIN c : i = k + Len(d) /\ e[i] = c[k]
  <2>1. CASE i <= Len(d)  BY <1>1, <2>1, <1>2 DEF NamesIn
  <2>2. CASE ~(i <= Len(d))
    <3>1. i - Len(d) \in DOMAIN c /\ i = (i - Len(d)) + Len(d) /\ e[i] = c[i - Len(d)]  BY <1>1, <2>2
    <3> QED  BY <3>1
  <2> QED  BY <2>1, <2>2
<1>3. Once(e)
  <2> SUFFICES ASSUME NEW i \in DOMAIN e, NEW j \in DOMAIN e, e[i] = e[j], e[i] # "visibility" PROVE i = j
    BY DEF Once
  <2>1. PICK k \in DOMAIN c : i = k + Len(d) /\ e[i] = c[k]  BY <1>2
  <2>2. PICK l \in DOMAIN c : j = l + Len(d) /\ e[j] = c[l]  BY <1>2
  <2> QED  BY <2>1, <2>2 DEF Once
<1>4. Framed(e)
  <2> SUFFICES ASSUME NEW i \in DOMAIN e, NEW j \in DOMAIN e, i < j, e[i] \in ProgressNames, e[j] \in ProgressNames
               PROVE  e[j] # "progress_start" /\ e[i] # "progress_finished"  BY DEF Framed
  <2>1. e[i] # "visibility" /\ e[j] # "visibility"  BY DEF ProgressNames
  <2>2. PICK k \in DOMAIN c : i = k + Len(d) /\ e[i] = c[k]  BY <1>2, <2>1
  <2>3. PICK l \in DOMAIN c : j = l + Len(d) /\ e[j] = c[l]  BY <1>2, <2>1
  <2> QED  BY <2>2, <2>3, <1>1 DEF Fits, Framed
<1> QED  BY <1>1, <1>3, <1>4, ConcatNames DEF e, Solid, Fits, ProgressNames

LEMMA SigsTaken ==
    ASSUME TypeOK, SigsFit, PcInv', StartUpdates
    PROVE  Moves(Live)
<1>1. signals \in SignalLists /\ windows.progress \in BOOLEAN /\ tick \in Ticks  BY DEF TypeOK, Windows
<1>2. Sigs = signals.now /\ signals.later \in Seq(SignalNames) /\ signals.now \in Seq(SignalNames)
  BY <1>1, SigsAtEventTime DEF SigsFit, StartUpdates, EventTime, SignalLists
<1> DEFINE c == signals.later \o signals.now
<1>3. /\ c \in Seq(SignalNames) /\ Once(c) /\ Solid(c) = Live /\ Fits(c, windows.progress)
  BY <1>1, <1>2, Prefixed DEF SigsFit, SignalsInv, Calm, Live
<1>4. tick'.sigs = c /\ tick'.pc = "updates" /\ signals'.now = <<>> /\ signals'.later = <<>> /\ windows' = windows
  BY <1>1 DEF StartUpdates, TakeDeferred, Ticks
<1> HIDE DEF c
<1>5. Sigs' = c  BY <1>4 DEF Sigs
<1>6. Live' = Live  BY <1>3, <1>5 DEF Live, Solid, NamesIn
<1>7. Fits(Sigs, windows.progress)'  BY <1>3, <1>4, <1>5 DEF Fits, Framed, NamesIn
<1> QED  BY <1>6, <1>7, <1>4, <1>3 DEF Moves, Calm, Once, NamesIn, SignalsInv

\* A signal is handled, and nothing but a deferred one is raised.
Handles(name) ==
    /\ OnSignal(name) /\ SignalDone
    /\ UNCHANGED signals \/ signals' = SignalUpdateDeferred(signals, "visibility")
    /\ windows'.progress = Taking(windows.progress, name)

LEMMA SigsHandled ==
    ASSUME TypeOK, SigsFit, NEW name, Handles(name), name # "visibility"
    PROVE  /\ Moves(Live \ {name}) /\ name \in Live
           /\ tick.pc = "updates" /\ tick'.pc = "updates"
<1>1. signals \in SignalLists /\ windows.progress \in BOOLEAN /\ tick \in Ticks  BY DEF TypeOK, Windows
<1> DEFINE c == tick.sigs
<1>2. c \in Seq(SignalNames) /\ c # <<>> /\ c[1] = name /\ Sigs = c /\ Once(c)
  <2>1. c \in Seq(SignalNames) /\ c # <<>> /\ Head(c) = name  BY <1>1 DEF Handles, OnSignal, Ticks
  <2> QED  BY <2>1, HeadFacts DEF Sigs, SigsFit, SignalsInv
<1>3. tick.pc = "updates" /\ tick'.pc = "updates" /\ tick'.sigs = Tail(c) /\ tick'.cmds = tick.cmds
  BY <1>1 DEF Handles, OnSignal, SignalDone, Ticks
<1>4. signals.now = <<>>  BY <1>2 DEF SigsFit, SignalsInv
<1>5. signals'.now = <<>> /\ NamesIn(signals'.later) \subseteq {"visibility"}
  <2>1. CASE UNCHANGED signals  BY <1>4, <2>1 DEF SigsFit, SignalsInv, Calm
  <2>2. CASE signals' = SignalUpdateDeferred(signals, "visibility")
    <3>1. /\ signals'.now = signals.now /\ signals'.later = AppendNew(signals.later, "visibility")
          /\ signals.later \in Seq(SignalNames) /\ "visibility" \in SignalNames
      BY <1>1, <2>2 DEF SignalUpdateDeferred, SignalLists, SignalNames
    <3>2. NamesIn(signals'.later) = NamesIn(signals.later) \union {"visibility"}  BY <3>1, AppendNewType
    <3> QED  BY <1>4, <3>1, <3>2 DEF SigsFit, SignalsInv, Calm
  <2> QED  BY <2>1, <2>2 DEF Handles
<1>6. Once(Tail(c)) /\ Solid(Tail(c)) = Solid(c) \ {name}  BY <1>2, Dropped
<1>7. Fits(Tail(c), windows'.progress)  BY <1>1, <1>2, DroppedFits DEF Handles, SigsFit
<1>8. Sigs' = Tail(c)
  <2>1. Tail(c) = <<>> => Sigs' = Tail(c)  BY <1>3, <1>5 DEF Sigs
  <2>2. Tail(c) # <<>> => Sigs' = Tail(c)  BY <1>3 DEF Sigs
  <2> QED  BY <2>1, <2>2
<1>9. SignalsInv'
  <2>1. Once(<<>>)  BY DEF Once
  <2>2. Once(tick'.sigs) /\ Once(signals'.now)  BY <1>3, <1>5, <1>6, <2>1
  <2>3. Calm(signals)' /\ Once(tick.sigs)'  BY <1>5, <2>2 DEF Calm, Once, NamesIn
  <2>4. tick.cmds = <<>>  BY <1>3 DEF SigsFit, SignalsInv, PcInv
  <2>5. PcInv'  BY <1>3, <2>4 DEF PcInv
  <2> QED  BY <1>3, <1>5, <2>3, <2>5 DEF SignalsInv
<1>10. Live' = Live \ {name}
  <2>1. Live' = Solid(Sigs')  BY DEF Live, Solid, NamesIn
  <2>2. Live = Solid(c)  BY <1>2 DEF Live
  <2> QED  BY <1>6, <1>8, <2>1, <2>2
<1>11. Fits(Sigs, windows.progress)'  BY <1>7, <1>8 DEF Fits, Framed, NamesIn
<1>12. name \in Live
  <2>1. 1 \in DOMAIN c  BY <1>2, HeadFacts
  <2> QED  BY <1>2, <2>1 DEF Live, Solid, NamesIn
<1> QED  BY <1>3, <1>9, <1>10, <1>11, <1>12 DEF Moves

\* The one that is deferred may be there twice.
LEMMA SigsHandledLater ==
    ASSUME TypeOK, SigsFit, OnSignal("visibility"), SignalDone, UNCHANGED <<signals, windows>>
    PROVE  Moves(Live) /\ tick.pc = "updates" /\ tick'.pc = "updates"
<1>1. signals \in SignalLists /\ windows.progress \in BOOLEAN /\ tick \in Ticks  BY DEF TypeOK, Windows
<1> DEFINE c == tick.sigs
<1>2. c \in Seq(SignalNames) /\ c # <<>> /\ c[1] = "visibility" /\ Sigs = c /\ Once(c)
  BY <1>1, HeadFacts DEF OnSignal, Ticks, Sigs, SigsFit, SignalsInv
<1>3. tick.pc = "updates" /\ tick'.pc = "updates" /\ tick'.sigs = Tail(c) /\ tick'.cmds = tick.cmds
  BY <1>1 DEF OnSignal, SignalDone, Ticks
<1>4. signals.now = <<>>  BY <1>2 DEF SigsFit, SignalsInv
<1>5. Once(Tail(c)) /\ Solid(Tail(c)) = Solid(c)  BY <1>2, DroppedLater
<1>6. Fits(Tail(c), windows'.progress)  BY <1>1, <1>2, DroppedFits DEF SigsFit, Taking, ProgressNames
<1>7. Sigs' = Tail(c)  BY <1>3, <1>4 DEF Sigs
<1>8. SignalsInv'  BY <1>3, <1>5, <1>4 DEF SigsFit, SignalsInv, Calm, Once, NamesIn, PcInv
<1>9. Live' = Live  BY <1>2, <1>5, <1>7 DEF Live, Solid, NamesIn
<1> QED  BY <1>3, <1>8, <1>9, <1>6, <1>7 DEF Moves, Fits, Framed, NamesIn

-----------------------------------------------------------------------------
\* What stays of a job.

SameJob ==
    /\ store'.flushes = store.flushes /\ tasks' = tasks /\ store'.notifiers = store.notifiers
    /\ Shown' = Shown /\ store'.saving = store.saving /\ windows'.enabled = windows.enabled
    /\ session'.saving = session.saving /\ session'.importing = session.importing
    /\ session'.exporting = session.exporting

\* A disabled window does not stop confirmations.
SameData ==
    windows.enabled \/
        /\ PendingIds' \subseteq PendingIds
        /\ store.pending = <<>> => store'.pending = <<>> /\ store'.content = store.content
        /\ file' = file /\ store'.modified = store.modified
        /\ SettingUp => "exit" \notin windows'.dialogs

LEMMA JobKept ==
    ASSUME JobInv, SameJob, SameData, Marks' = Marks
    PROVE  JobInv'
<1>1. CASE NoJob  BY <1>1 DEF SameJob, NoJob, JobInv, At, Flags
<1>2. CASE SettingUp  BY <1>2 DEF SameJob, SameData, SettingUp, JobInv, At, AtSignal, AtTask, Flags
<1>3. ASSUME NEW op \in {"save", "export"}, WriteJob(op)
      PROVE  WriteJob(op)'
  <2>1. CASE Begins(op)  BY <2>1 DEF SameJob, WriteJob, Begins, At, AtSignal, Flags
  <2>2. CASE Flushes(op)
    <3>1. PICK f \in store.flushes : AtFlush(f) /\ f.call = op /\ \A p \in DOMAIN store.pending : store.pending[p].id < f.id
      BY <2>2 DEF Flushes
    <3>2. \A p \in DOMAIN store'.pending : store'.pending[p].id < f.id
      BY <3>1, <2>2 DEF PendingIds, Flushes, SameData
    <3> QED  BY <3>1, <3>2, <2>2 DEF Flushes, WriteJob, SameJob, AtFlush, At, Flags
  <2>3. CASE Writes(op)
    <3>1. PICK i \in DOMAIN tasks : AtTask(tasks[i]) /\ tasks[i].op = op /\ Consistent(tasks[i])  BY <2>3 DEF Writes
    <3>2. store'.pending = <<>> /\ store'.content = store.content  BY <2>3 DEF Writes, SameData
    <3>3. Consistent(tasks[i])'  BY <3>1, <3>2 DEF Consistent, Exists, SameJob
    <3>4. Flags(TRUE, FALSE, FALSE, TRUE)' /\ ~windows'.enabled  BY <2>3 DEF Writes, SameJob, Flags
    <3> QED  BY <3>2, <3>3, <3>4, <3>1 DEF Writes, WriteJob, SameJob, AtTask, At
  <2>4. CASE Ends(op)  BY <2>4 DEF SameJob, WriteJob, Ends, At, AtSignal, Flags
  <2>5. CASE Failed(op)  BY <2>5 DEF SameJob, WriteJob, Failed, At, AtDialog, Flags
  <2> QED  BY <1>3, <2>1, <2>2, <2>3, <2>4, <2>5 DEF WriteJob
<1>4. CASE ImportJob  BY <1>4 DEF ImportJob, SameJob, Flags, JobInv, At, AtSignal, AtTask, AtNotifier
<1> QED  BY <1>1, <1>2, <1>3, <1>4 DEF JobInv

LEMMA LiveFacts ==
    /\ Marks = Live \intersect JobSignals /\ Marks' = Live' \intersect JobSignals
    /\ Open(Sigs, windows.progress) <=>
        (windows.progress \/ "progress_start" \in Live) /\ "progress_finished" \notin Live
    /\ Open(Sigs, windows.progress)' <=>
        (windows'.progress \/ "progress_start" \in Live') /\ "progress_finished" \notin Live'
    /\ Closed(Sigs, windows.progress) <=> ~windows.progress /\ Live \intersect ProgressNames = {}
    /\ Fits(Sigs, windows.progress) =>
        IF windows.progress THEN "progress_start" \notin Live
        ELSE Live \intersect ProgressNames # {} => "progress_start" \in Live
    /\ NamesIn(Sigs) \intersect JobEnds = Live \intersect JobEnds
    /\ NamesIn(Sigs)' \intersect JobEnds = Live' \intersect JobEnds
    /\ "visibility" \notin Live
BY DEF Live, Solid, Marks, Open, JobSignals, JobEnds, ProgressNames, Closed, Fits

-----------------------------------------------------------------------------
\* Once a module is there.

WindowInv ==
    /\ Working <=> Open(Sigs, windows.progress)
    /\ (EventTime /\ "progress_finished" \in Live) => Live \intersect JobEnds # {}

JobState == SigsFit /\ WindowInv /\ JobInv

\* A step that has nothing to do with a job.
LEMMA QuietJob ==
    ASSUME JobState, Moves(Live), windows'.progress = windows.progress, SameJob, SameData,
           EventTime' => EventTime \/ Live = {}
    PROVE  JobState'
BY LiveFacts, JobKept DEF Moves, SigsFit, JobState, Working, SameJob, Begun, WindowInv

LEMMA DataUnchanged ==
    ASSUME store'.pending = store.pending, store'.content = store.content, store'.modified = store.modified,
           file' = file, "exit" \in windows'.dialogs => "exit" \in windows.dialogs
    PROVE  SameData
    BY DEF SameData, PendingIds, SettingUp

LEMMA QuietTick ==
    ASSUME TypeOK, JobState, UNCHANGED signals, tick'.sigs = tick.sigs, UNCHANGED windows,
           PcInv', tick'.pc = "updates" => tick.pc = "updates", UNCHANGED <<store, session, tasks, file>>,
           EventTime' => EventTime \/ Live = {}
    PROVE  JobState'
BY SigsKept, DataUnchanged, QuietJob DEF JobState, SameJob, Shown

LEMMA CrashJob ==
    ASSUME TypeOK, JobState, NEW name, Crash(name)
    PROVE  JobState'
BY QuietTick DEF Crash, TypeOK, Ticks, PcInv, EventTime

LEMMA UserTick ==
    ASSUME SigsFit, EventLoop, tick' = tick
    PROVE  PcInv' /\ TickKept /\ EventTime /\ EventTime'
    BY DEF SigsFit, SignalsInv, PcInv, TickKept, EventTime, EventLoop

LEMMA CommandTick ==
    ASSUME TypeOK, SigsFit, tick.pc = "commands", CommandDone
    PROVE  PcInv' /\ TickKept /\ EventTime /\ EventTime'
BY DEF CommandDone, TypeOK, Ticks, SigsFit, SignalsInv, PcInv, TickKept, EventTime

-----------------------------------------------------------------------------
\* What the user does.

LEMMA StorePutFacts ==
    ASSUME TypeOK, NEW t \in Transactions, NEW mark \in BOOLEAN, store' = Put(store, t, mark)
    PROVE  /\ store'.pending = Append(store.pending, [id |-> store.nextId, data |-> t])
           /\ store'.content = store.content /\ store'.flushes = store.flushes
           /\ store'.saving = store.saving /\ store'.notifiers = store.notifiers
           /\ store'.modified = (store.modified \/ mark)
    BY PutType DEF TypeOK

LEMMA WindowFacts ==
    ASSUME NEW w \in Windows
    PROVE  /\ \A flag : /\ [w EXCEPT !.enabled = flag].progress = w.progress
                        /\ [w EXCEPT !.enabled = flag].dialogs = w.dialogs
                        /\ [w EXCEPT !.enabled = flag].enabled = flag
           /\ \A ds : /\ [w EXCEPT !.dialogs = ds].progress = w.progress
                      /\ [w EXCEPT !.dialogs = ds].enabled = w.enabled
                      /\ [w EXCEPT !.dialogs = ds].dialogs = ds
           /\ \A ds, flag : /\ [w EXCEPT !.dialogs = ds, !.visible = flag].progress = w.progress
                            /\ [w EXCEPT !.dialogs = ds, !.visible = flag].enabled = w.enabled
                            /\ [w EXCEPT !.dialogs = ds, !.visible = flag].dialogs = ds
                            /\ [w EXCEPT !.visible = flag, !.dialogs = ds] = [w EXCEPT !.dialogs = ds, !.visible = flag]
                            /\ [w EXCEPT !.dialogs = ds, !.enabled = flag].progress = w.progress
                            /\ [w EXCEPT !.dialogs = ds, !.enabled = flag].enabled = flag
                            /\ [w EXCEPT !.dialogs = ds, !.enabled = flag].dialogs = ds
    BY DEF Windows

LEMMA EditJob ==
    ASSUME TypeOK, JobState, NEW t \in Transactions, Edit(t)
    PROVE  JobState'
<1>1. UNCHANGED <<session, windows, signals, tasks, tick>> /\ windows.enabled /\ EventLoop  BY DEF Edit, UserMay
<1>2. PICK mark \in BOOLEAN : store' = Put(store, t, mark)  BY DEF Edit, StorePut
<1>3. SameJob /\ SameData  BY <1>1, <1>2, StorePutFacts DEF SameJob, Shown, SameData, Edit
<1> QED  BY <1>1, <1>3, QuietJob, SigsKept, UserTick DEF JobState, TickKept

LEMMA HideMainJob ==
    ASSUME TypeOK, JobState, HideMain, PcInv', TickKept, EventTime, UNCHANGED <<store, session, tasks, file>>
    PROVE  JobState'
<1>1. windows \in Windows /\ "visibility" \in SignalNames  BY DEF TypeOK, SignalNames
<1>2. /\ windows'.progress = windows.progress /\ windows'.enabled = windows.enabled
      /\ windows'.dialogs = windows.dialogs \ {"exit", "load_error"}  BY <1>1 DEF HideMain, Windows
<1>3. Moves((Live \union {"visibility"}) \ {"visibility"})
  BY <1>1, SigsRaised, <1>2 DEF MayRaise, HideMain, EventStep, JobState
<1> QED  BY <1>2, <1>3, QuietJob, LiveFacts, DataUnchanged DEF SameJob, Shown, JobErrors

\* A dialog is opened or closed.
LEMMA DialogJob ==
    ASSUME TypeOK, JobState, EventLoop, UNCHANGED <<store, session, tasks, file, signals, tick>>,
           windows'.progress = windows.progress, windows'.enabled = windows.enabled, Shown' = Shown,
           SettingUp => "exit" \notin windows'.dialogs
    PROVE  JobState'
BY UserTick, SigsKept, QuietJob DEF JobState, TickKept, SameJob, SameData, PendingIds

LEMMA TryExitJob ==
    ASSUME TypeOK, JobState, TryExit
    PROVE  JobState'
<1>1. /\ EventLoop /\ windows.dialogs = {} /\ UNCHANGED <<store, session, tasks, file, tick>>
      /\ \A i \in DOMAIN tasks : tasks[i].op # "sandbox"  BY DEF TryExit, history
<1>2. CASE store.modified
  <2>1. windows' = [windows EXCEPT !.dialogs = {"exit"}] /\ UNCHANGED signals  BY <1>2 DEF TryExit
  <2>2. /\ windows'.progress = windows.progress /\ windows'.enabled = windows.enabled
        /\ windows'.dialogs = {"exit"}  BY <2>1, WindowFacts DEF TypeOK
  <2>3. ~SettingUp
    <3> DEFINE task == [op |-> "sandbox"]
    <3>1. task.op = "sandbox"  OBVIOUS
    <3> HIDE DEF task
    <3>2. tasks # <<task>>  BY <1>1, <3>1
    <3> QED  BY <1>2, <3>2 DEF SettingUp, AtTask, At, task
  <2> QED  BY <1>1, <2>1, <2>2, <2>3, DialogJob DEF Shown, JobErrors
<1>3. CASE ~store.modified  BY <1>3, <1>1, UserTick, HideMainJob DEF TryExit, JobState
<1> QED  BY <1>2, <1>3

LEMMA ExitDiscardJob ==
    ASSUME TypeOK, JobState, ExitDiscard
    PROVE  JobState'
BY UserTick, HideMainJob DEF ExitDiscard, history, JobState

LEMMA ExitCancelJob ==
    ASSUME TypeOK, JobState, ExitCancel
    PROVE  JobState'
<1>1. /\ EventLoop /\ UNCHANGED <<store, session, tasks, file, signals, tick>>
      /\ windows' = [windows EXCEPT !.dialogs = windows.dialogs \ {"exit"}]  BY DEF ExitCancel, history
<1>2. /\ windows'.progress = windows.progress /\ windows'.enabled = windows.enabled
      /\ windows'.dialogs = windows.dialogs \ {"exit"}  BY <1>1, WindowFacts DEF TypeOK
<1> QED  BY <1>1, <1>2, DialogJob DEF Shown, JobErrors

LEMMA CloseQuietJob ==
    ASSUME TypeOK, JobState, NEW d \in {"load_error", "import_error"}, CloseErrorDialog(d)
    PROVE  JobState'
BY DialogJob DEF CloseErrorDialog, history, TypeOK, Windows, Shown, JobErrors, SettingUp

\* The dialog of a save or an export that failed is closed: the job ends.
LEMMA CloseJob ==
    ASSUME TypeOK, JobState, NEW d \in JobErrors, d \in windows.dialogs, CloseErrorDialog(d)
    PROVE  JobState'
<1>1. /\ EventLoop /\ UNCHANGED <<tasks, file, signals, tick>>
      /\ store' = SetSaving(store, FALSE) /\ session' = [session EXCEPT !.saving = FALSE]
      /\ windows' = [windows EXCEPT !.dialogs = windows.dialogs \ {d}, !.enabled = TRUE]
  BY DEF CloseErrorDialog, history, JobErrors
<1>2. /\ windows'.progress = windows.progress /\ windows'.enabled
      /\ windows'.dialogs = windows.dialogs \ {d}  BY <1>1 DEF TypeOK, Windows
<1>3. store'.saving = FALSE /\ store'.flushes = store.flushes /\ store'.notifiers = store.notifiers
  BY <1>1 DEF TypeOK, Stores, SetSaving
<1>4. session'.saving = FALSE /\ session'.importing = session.importing /\ session'.exporting = session.exporting
  BY <1>1 DEF TypeOK, Sessions
<1>5. d \in Shown  BY DEF Shown
<1>6. Failed("save") \/ Failed("export")
  BY <1>5 DEF JobState, JobInv, NoJob, SettingUp, WriteJob, ImportJob, Begins, Flushes, Writes, Ends, At, AtSignal,
     AtFlush, AtTask, AtNotifier
<1>7. /\ Marks = {} /\ store.flushes = {} /\ tasks = <<>> /\ store.notifiers = {} /\ Shown = {d}
      /\ session.importing = FALSE /\ session.exporting = FALSE  BY <1>5, <1>6 DEF Failed, AtDialog, At, Flags
<1>8. PcInv' /\ TickKept /\ EventTime  BY <1>1, UserTick DEF JobState
<1>9. Shown' = {}  BY <1>2, <1>7 DEF Shown
<1>10. SigsFit' /\ Live' = Live  BY <1>1, <1>2, <1>8, SigsKept DEF Moves, SigsFit, JobState, TickKept
<1>11. NoJob'  BY <1>1, <1>2, <1>3, <1>4, <1>7, <1>9, <1>10, LiveFacts DEF NoJob, At, Flags
<1>12. Working' = Working  BY <1>1, <1>3 DEF Working, Begun
<1> QED  BY <1>10, <1>11, <1>2, <1>8, <1>12, LiveFacts DEF JobState, JobInv, WindowInv

-----------------------------------------------------------------------------
\* Jobs begin.

JobStarts == {"start_save", "start_export_au", "start_import_au"}

LEMMA JobFree ==
    ASSUME JobInv, ~session.saving, ~session.importing, windows.enabled \/ "exit" \in windows.dialogs
    PROVE  NoJob
    BY DEF JobInv, SettingUp, WriteJob, Begins, Flushes, Writes, Ends, Failed, ImportJob, Flags

LEMMA BeginJob ==
    ASSUME TypeOK, JobState, NoJob, EventStep, EventTime', NEW name \in JobStarts, Raise(name),
           store'.flushes = store.flushes, tasks' = tasks, store'.notifiers = store.notifiers, Shown' = Shown
    PROVE  SigsFit' /\ WindowInv' /\ AtSignal(name)'
<1>1. name \in SignalNames /\ name \notin ProgressNames /\ name # "visibility" /\ name \in JobSignals /\ name \notin JobEnds
  BY DEF JobStarts, SignalNames, ProgressNames, JobSignals, JobEnds
<1>2. SigsFit' /\ Live' = Live \union {name}
  BY <1>1, LiveFacts, SigsRaised DEF Moves, SigsFit, MayRaise, ProgressNames
<1>3. Marks = {} /\ store.flushes = {} /\ tasks = <<>> /\ store.notifiers = {} /\ Shown = {}  BY DEF NoJob, At
<1>4. "progress_finished" \notin Live'
  BY <1>3, LiveFacts, <1>1, <1>2 DEF JobEnds, JobState, WindowInv, EventStep, ProgressNames
<1>5. "progress_start" \in Live' <=> "progress_start" \in Live  BY <1>1, <1>2 DEF ProgressNames
<1>6. "progress_finished" \in Live' <=> "progress_finished" \in Live  BY <1>1, <1>2 DEF ProgressNames
<1>7. WindowInv'  BY <1>4, <1>5, <1>6, LiveFacts DEF WindowInv, JobState, Working, Begun, EventStep
<1> QED  BY <1>2, <1>7, <1>3, <1>1, LiveFacts DEF AtSignal, At

LEMMA StartSaveJob ==
    ASSUME TypeOK, JobState, StartSave, EventLoop, tick' = tick, UNCHANGED tasks,
           windows.enabled \/ "exit" \in windows.dialogs,
           windows'.progress = windows.progress, Shown' = Shown
    PROVE  JobState' /\ NoJob /\ Begins("save")'
<1>1. store'.flushes = store.flushes /\ store'.saving = store.saving /\ store'.notifiers = store.notifiers
  BY StorePutFacts, StampType DEF StartSave, StorePut
<1>2. NoJob  BY JobFree DEF StartSave, JobState
<1>3. SigsFit' /\ WindowInv' /\ AtSignal("start_save")'
  BY <1>1, <1>2, BeginJob, UserTick DEF EventStep, JobState, StartSave, JobStarts
<1>4. Flags(TRUE, FALSE, "save" = "export", "save" = "export")'
  BY <1>1, <1>2 DEF NoJob, Flags, StartSave, TypeOK, Sessions
<1> QED  BY <1>2, <1>3, <1>4 DEF JobState, JobInv, WriteJob, Begins, StartOf

LEMMA SaveJob ==
    ASSUME TypeOK, JobState, Save
    PROVE  JobState' /\ NoJob /\ Begins("save")'
BY StartSaveJob DEF Save, UserMay, Shown

LEMMA ExitSaveJob ==
    ASSUME TypeOK, JobState, ExitSave
    PROVE  JobState' /\ NoJob /\ Begins("save")'
<1>1. /\ StartSave /\ EventLoop /\ tick' = tick /\ UNCHANGED tasks /\ "exit" \in windows.dialogs
      /\ windows' = [windows EXCEPT !.dialogs = windows.dialogs \ {"exit"}]  BY DEF ExitSave
<1>2. windows'.progress = windows.progress /\ windows'.dialogs = windows.dialogs \ {"exit"}
  BY <1>1, WindowFacts DEF TypeOK
<1> QED  BY <1>1, <1>2, StartSaveJob DEF Shown, JobErrors

LEMMA ClosedPutFacts ==
    ASSUME TypeOK, NEW t \in Transactions, NEW mark \in BOOLEAN, store' = SetSaving(Put(store, t, mark), TRUE)
    PROVE  /\ store'.pending = Append(store.pending, [id |-> store.nextId, data |-> t])
           /\ store'.content = store.content /\ store'.flushes = store.flushes
           /\ store'.saving = TRUE /\ store'.notifiers = store.notifiers
           /\ store'.modified = (store.modified \/ mark)
<1> DEFINE put == Put(store, t, mark)
<1>1. /\ put \in Stores
      /\ put.pending = Append(store.pending, [id |-> store.nextId, data |-> t])
      /\ put.content = store.content /\ put.flushes = store.flushes
      /\ put.notifiers = store.notifiers /\ put.modified = (store.modified \/ mark)  BY PutType DEF TypeOK
<1> HIDE DEF put
<1> QED  BY <1>1 DEF Stores, SetSaving, put

LEMMA StartExportJob ==
    ASSUME TypeOK, JobState, StartExport
    PROVE  JobState' /\ NoJob /\ Begins("export")'
<1>1. store'.flushes = store.flushes /\ store'.notifiers = store.notifiers /\ store'.saving = TRUE
  BY ClosedPutFacts, StampType DEF StartExport
<1>2. EventLoop /\ tick' = tick /\ UNCHANGED <<tasks, windows>> /\ windows.enabled  BY DEF StartExport, UserMay
<1>3. NoJob  BY <1>2, JobFree DEF StartExport, JobState
<1>4. PcInv' /\ TickKept /\ EventTime /\ EventTime'  BY <1>2, UserTick DEF JobState
<1>5. EventStep /\ Raise("start_export_au") /\ "start_export_au" \in JobStarts
  BY <1>2, <1>4 DEF EventStep, JobState, StartExport, JobStarts
<1>6. SigsFit' /\ WindowInv' /\ AtSignal("start_export_au")'  BY <1>1, <1>2, <1>3, <1>4, <1>5, BeginJob DEF Shown
<1>7. Flags(TRUE, FALSE, "export" = "export", "export" = "export")'
  BY <1>1, <1>3 DEF NoJob, Flags, StartExport, TypeOK, Sessions
<1> QED  BY <1>3, <1>6, <1>7 DEF JobState, JobInv, WriteJob, Begins, StartOf

LEMMA StartImportJob ==
    ASSUME TypeOK, JobState, StartImport
    PROVE  JobState' /\ NoJob
<1>1. EventLoop /\ tick' = tick /\ UNCHANGED <<store, tasks, windows>> /\ windows.enabled  BY DEF StartImport, UserMay
<1>2. NoJob  BY <1>1, JobFree DEF StartImport, JobState
<1>3. SigsFit' /\ WindowInv' /\ AtSignal("start_import_au")'
  BY <1>1, <1>2, BeginJob, UserTick DEF Shown, EventStep, JobState, StartImport, JobStarts
<1>4. ImportJob'  BY <1>1, <1>2, <1>3 DEF NoJob, Flags, ImportJob, StartImport, TypeOK, Sessions
<1> QED  BY <1>2, <1>3, <1>4 DEF JobState, JobInv

LEMMA UserJob ==
    ASSUME TypeOK, JobState, UserStep
    PROVE  JobState'
<1>1. \A t \in Edits : t \in Transactions  BY EditsAssumption
<1>2. ASSUME NEW d \in windows.dialogs, CloseErrorDialog(d) PROVE JobState'
  BY <1>2, CloseQuietJob, CloseJob DEF CloseErrorDialog, TypeOK, Windows, ErrorSignals, JobErrors
<1> QED
  BY <1>1, <1>2, EditJob, CrashJob, SaveJob, StartImportJob, StartExportJob, TryExitJob, ExitCancelJob,
     ExitDiscardJob, ExitSaveJob DEF UserStep, EditFails, StartFails, ExitSaveFails

-----------------------------------------------------------------------------
\* Commands.

\* What was put before a flush is confirmed when the flush is.
LEMMA FlushesLast ==
    ASSUME TypeOK, Sound(Flow), NumbersInv, tick.cmds # <<>>, Command.op = "confirm_valid_data",
           \A p \in DOMAIN store.pending : store.pending[p].id < Command.id
    PROVE  store.pending = <<>>
<1>1. /\ Len(store.pending) \in Nat /\ DOMAIN store.pending = 1..Len(store.pending)
      /\ \A i \in DOMAIN store.pending : store.pending[i].id \in Nat
      /\ store.pending \in Seq(Entries)  BY PendingFacts DEF TypeOK
<1>2. ASSUME NEW p \in DOMAIN store.pending PROVE FALSE
  BY <1>1, NumberTypes, FirstConfirmation DEF Outstanding, NumbersInv, NumbersHold
<1> QED  BY <1>1, <1>2

LEMMA ConfirmFlushJob ==
    ASSUME TypeOK, TypeOK', JobState, Sound(Flow), NumbersInv, ConfirmFlush
    PROVE  /\ JobState' /\ store.pending = <<>>
           /\ \E op \in {"save", "export"} : Flushes(op) /\ Writes(op)' /\ op = FlushCall(store, Command.id)
<1>1. tick.pc = "commands" /\ tick.cmds # <<>> /\ Command.op = "confirm_valid_data" /\ CommandDone /\ IsFlush(store, Command.id)
  BY DEF ConfirmFlush, NextCommand, IsNext
<1>2. store.flushes # {}  BY <1>1 DEF IsFlush
<1>3. PICK op \in {"save", "export"} : Flushes(op)
  BY <1>2 DEF JobState, JobInv, NoJob, SettingUp, WriteJob, ImportJob, Begins, Writes, Ends, Failed, At, AtSignal,
     AtTask, AtNotifier, AtDialog
<1>4. PICK f \in store.flushes : AtFlush(f) /\ f.call = op /\ \A p \in DOMAIN store.pending : store.pending[p].id < f.id
  BY <1>3 DEF Flushes
<1>5. /\ Marks = {} /\ store.flushes = {f} /\ tasks = <<>> /\ store.notifiers = {} /\ Shown = {}
      /\ Flags(TRUE, FALSE, op = "export", op = "export") /\ ~windows.enabled  BY <1>3, <1>4 DEF AtFlush, At, Flushes
<1>6. Command.id = f.id /\ FlushCall(store, Command.id) = op  BY <1>1, <1>4, <1>5 DEF IsFlush, FlushCall
<1>7. store.pending = <<>>  BY <1>1, <1>4, <1>6, FlushesLast
<1> DEFINE done == FlushDone(store, Command.id)
           task == [op |-> op]
<1>8. /\ done \in Stores /\ done.flushes = {} /\ done.pending = store.pending /\ done.content = store.content
      /\ done.notifiers = store.notifiers /\ done.saving = store.saving
  <2>1. store \in Stores  BY DEF TypeOK
  <2>2. {g \in store.flushes : g.id # Command.id} = {}  BY <1>5, <1>6
  <2> DEFINE none == {g \in store.flushes : g.id # Command.id}
  <2>3. done \in Stores /\ done = [store EXCEPT !.flushes = none] /\ none = {}  BY <2>1, <2>2, FlushDoneType
  <2> HIDE DEF done, none
  <2> QED  BY <2>1, <2>3 DEF Stores
<1>9. "todo" \notin DOMAIN task /\ "begun" \notin DOMAIN task /\ task.op = op  OBVIOUS
<1>10. tasks' = Append(tasks, task)  BY <1>6 DEF ConfirmFlush
<1> HIDE DEF done, task
<1>11. /\ store'.flushes = {} /\ store'.pending = <<>> /\ store'.notifiers = {} /\ store'.saving = TRUE
  BY <1>6, <1>5, <1>7, <1>8 DEF ConfirmFlush, done, SetSaving, Stores, Flags
<1>12. tasks' = <<task>>  BY <1>5, <1>10
<1>13. UNCHANGED <<windows, signals>>  BY DEF ConfirmFlush
<1>14. PcInv' /\ TickKept /\ EventTime /\ EventTime'  BY <1>1, CommandTick DEF JobState
<1>15. SigsFit' /\ Live' = Live  BY <1>13, <1>14, SigsKept DEF Moves, SigsFit, JobState, TickKept
<1>16. 1 \in DOMAIN tasks' /\ tasks'[1] = task /\ DOMAIN tasks' = {1}  BY <1>12
<1>17. At({}, {}, <<tasks[1]>>, {}, {})'  BY <1>5, <1>11, <1>12, <1>13, <1>15, <1>16, LiveFacts DEF At, Shown
<1>18. Flags(TRUE, FALSE, FALSE, TRUE)' /\ ~windows'.enabled
  BY <1>5, <1>11, <1>13, <1>6 DEF Flags, ConfirmFlush, TypeOK, Sessions
<1>19. Writes(op)'  BY <1>9, <1>11, <1>16, <1>17, <1>18 DEF Writes, AtTask, Consistent
<1>20. ~Working /\ ~Working'  BY <1>5, <1>9, <1>11, <1>16 DEF Working, Begun
<1>21. WindowInv'  BY <1>13, <1>14, <1>15, <1>20, LiveFacts DEF WindowInv, JobState
<1> QED  BY <1>3, <1>6, <1>7, <1>15, <1>19, <1>21 DEF JobState, JobInv, WriteJob

LEMMA ConfirmJob ==
    ASSUME TypeOK, JobState, Confirm
    PROVE  JobState'
<1>1. CASE ~CanConfirm(store, Command.id)  BY <1>1, CrashJob DEF Confirm
<1>2. CASE CanConfirm(store, Command.id)
  <2>1. /\ tick.pc = "commands" /\ CommandDone /\ store' = ConfirmValidData(store, Command.id) /\ store.pending # <<>>
        /\ UNCHANGED <<session, windows, signals, tasks, file>>  BY <1>2 DEF Confirm, IsNext, CanConfirm
  <2>2. store \in Stores  BY DEF TypeOK
  <2>3. /\ store'.pending = Tail(store.pending) /\ store'.flushes = store.flushes /\ store'.notifiers = store.notifiers
        /\ store'.saving = store.saving /\ store'.modified = store.modified
    <3> DEFINE rest == Tail(store.pending)
    <3> HIDE DEF rest
    <3> QED  BY <2>2, <2>1 DEF rest, Stores, ConfirmValidData
  <2>4. PendingIds' \subseteq PendingIds  BY <2>2, PendingFacts, <2>1, <2>3, HeadFacts DEF PendingIds
  <2>5. SameJob /\ SameData  BY <2>1, <2>3, <2>4 DEF SameJob, SameData, Shown, SettingUp
  <2> QED  BY <2>1, <2>5, QuietJob, SigsKept, CommandTick DEF JobState, TickKept
<1> QED  BY <1>1, <1>2

\* The window takes a step.
LEMMA SteppedSigs ==
    ASSUME TypeOK, EventStep, Raise("progress_step"), Open(Sigs, windows.progress)
    PROVE  SigsFit' /\ Marks' = Marks /\ Open(Sigs, windows.progress)'
BY SigsRaised, LiveFacts DEF MayRaise, SignalNames, Moves, SigsFit, JobSignals, EventStep

LEMMA ProgressJob ==
    ASSUME TypeOK, JobState, Progress
    PROVE  JobState'
<1>1. tick.pc = "commands" /\ CommandDone /\ UNCHANGED <<store, session, windows, tasks, file>>
  BY DEF Progress, NextCommand, IsNext, history
<1>2. PcInv' /\ TickKept /\ EventTime /\ EventTime'  BY <1>1, CommandTick DEF JobState
<1>3. CASE Command.id \notin store.notifiers  BY <1>3, <1>1, <1>2, QuietTick DEF Progress, TickKept, EventTime
<1>4. CASE Command.id \in store.notifiers
  <2>1. SigsFit' /\ Marks' = Marks /\ Open(Sigs, windows.progress)'
    BY <1>1, <1>2, SteppedSigs, <1>4 DEF EventStep, JobState, Progress, WindowInv, Working
  <2>2. WindowInv'  BY <2>1, LiveFacts, <1>1, <1>4 DEF WindowInv, Working
  <2> QED  BY <2>1, <2>2, JobKept, <1>1, DataUnchanged DEF JobState, SameJob, Shown
<1> QED  BY <1>3, <1>4

LEMMA ProgressDoneJob ==
    ASSUME TypeOK, JobState, ProgressDone
    PROVE  JobState'
<1>1. tick.pc = "commands" /\ CommandDone /\ UNCHANGED <<session, windows, tasks, file>>
  BY DEF ProgressDone, NextCommand, IsNext, history
<1>2. PcInv' /\ TickKept /\ EventTime /\ EventTime'  BY <1>1, CommandTick DEF JobState
<1>3. CASE Command.id \notin store.notifiers  BY <1>3, <1>1, <1>2, QuietTick DEF ProgressDone, TickKept, EventTime
<1>4. CASE Command.id \in store.notifiers
  <2> DEFINE rest == store.notifiers \ {Command.id}
  <2>1. store' = [store EXCEPT !.notifiers = rest] /\ RaiseBoth("progress_finished", "au_import_finished")
    BY <1>4 DEF ProgressDone
  <2>2. ImportJob /\ \E id \in store.notifiers : AtNotifier(id)
    BY <1>4 DEF JobState, JobInv, NoJob, SettingUp, WriteJob, ImportJob, Begins, Writes, Flushes, Ends, Failed, At,
       AtSignal, AtTask, AtFlush, AtDialog
  <2>3. /\ Marks = {} /\ store.flushes = {} /\ tasks = <<>> /\ store.notifiers = {Command.id} /\ Shown = {}
        /\ Flags(FALSE, TRUE, FALSE, FALSE)  BY <1>4, <2>2 DEF AtNotifier, At, ImportJob
  <2>4. rest = {}  BY <2>3
  <2> HIDE DEF rest
  <2>5. store'.notifiers = {} /\ store'.flushes = store.flushes /\ store'.saving = store.saving
    BY <2>1, <2>4 DEF TypeOK, Stores
  <2>6. Working /\ ~Working'  BY <1>1, <1>4, <2>3, <2>5 DEF Working
  <2>7. /\ "progress_finished" \in SignalNames /\ "au_import_finished" \in SignalNames
        /\ "au_import_finished" \notin ProgressNames
        /\ MayRaise(Sigs, windows.progress, "progress_finished")
    BY <2>6 DEF SignalNames, ProgressNames, MayRaise, JobState, WindowInv
  <2>8. Moves((Live \union {"progress_finished", "au_import_finished"}) \ {"visibility"})
    BY <1>1, <1>2, <2>1, <2>7, SigsRaisedBoth DEF EventStep, JobState
  <2>9. SigsFit' /\ Live' = Live \union {"progress_finished", "au_import_finished"}
    BY <2>8, LiveFacts DEF Moves, SigsFit
  <2>10. AtSignal("au_import_finished")'  BY <1>1, <2>3, <2>5, <2>9, LiveFacts DEF AtSignal, At, Shown, JobSignals
  <2>11. JobInv'  BY <1>1, <2>3, <2>5, <2>10 DEF JobInv, ImportJob, Flags
  <2> QED  BY <2>9, <2>11, <2>6, LiveFacts DEF JobState, WindowInv, JobEnds, JobSignals
<1> QED  BY <1>3, <1>4

LEMMA NextListJob ==
    ASSUME TypeOK, JobState, NextList
    PROVE  JobState'
<1>1. tick'.pc = "commands" /\ tick.pc = "commands" /\ tick'.sigs = tick.sigs  BY DEF NextList, TypeOK, Ticks
<1> QED  BY <1>1, QuietTick DEF NextList, history, JobState, SigsFit, SignalsInv, PcInv, EventTime

LEMMA HaltUiJob ==
    ASSUME TypeOK, JobState, HaltUi
    PROVE  JobState'
<1>1. PcInv' /\ TickKept /\ EventTime
  BY DEF JobState, SigsFit, SignalsInv, PcInv, TickKept, EventTime, HaltUi, TypeOK, Ticks
<1> QED  BY <1>1, HideMainJob DEF HaltUi, history

LEMMA CommandJob ==
    ASSUME TypeOK, TypeOK', JobState, Sound(Flow), NumbersInv, NothingToLoad, CommandStep
    PROVE  JobState'
<1>1. ~ImportProgress /\ ~ImportedEntry /\ ~ImportError /\ ~ImportFinished
  BY NextOnItsWay DEF ImportProgress, ImportedEntry, ImportError, ImportFinished, NextCommand, IsNext, LoadReplies,
     NothingToLoad
<1> QED
  BY <1>1, NextListJob, ConfirmFlushJob, ConfirmJob, ProgressJob, ProgressDoneJob, HaltUiJob, CrashJob DEF
     CommandStep, ExceptionShown

-----------------------------------------------------------------------------
\* Signals are handled.

LEMMA StartUpdatesJob ==
    ASSUME TypeOK, JobState, StartUpdates
    PROVE  JobState'
<1>1. PcInv' /\ ~EventTime'  BY DEF PcInv, EventTime, StartUpdates, TypeOK, Ticks
<1> QED  BY <1>1, QuietJob, SigsTaken, DataUnchanged DEF JobState, SameJob, Shown, StartUpdates, history

LEMMA HandledJob ==
    ASSUME TypeOK, JobState, NEW name, name \notin ProgressNames, name # "visibility",
           OnSignal(name), SignalDone, windows'.progress = windows.progress,
           UNCHANGED signals \/ signals' = SignalUpdateDeferred(signals, "visibility"),
           Working' <=> Working
    PROVE  SigsFit' /\ WindowInv' /\ Marks' = Marks \ {name} /\ (name \in JobSignals => name \in Marks)
<1>1. Moves(Live \ {name}) /\ name \in Live /\ tick'.pc = "updates"  BY SigsHandled DEF JobState, Handles, Taking
<1> QED  BY <1>1, LiveFacts DEF WindowInv, JobState, EventTime, ProgressNames, Moves, SigsFit

LEMMA OnStartJob ==
    ASSUME TypeOK, JobState, NEW op \in {"save", "export"}, OnStart(StartOf(op), op)
    PROVE  JobState' /\ Begins(op) /\ Flushes(op)'
<1> DEFINE name == StartOf(op)
           f == [id |-> store.nextId, call |-> op]
<1>1. /\ OnSignal(name) /\ SignalDone /\ windows' = [windows EXCEPT !.enabled = FALSE]
      /\ store' = Flush(store, op) /\ UNCHANGED <<session, signals, tasks>>  BY DEF OnStart, FlushStore
<1>2. /\ store'.flushes = store.flushes \union {f} /\ store'.pending = store.pending
      /\ store'.saving = store.saving /\ store'.notifiers = store.notifiers  BY <1>1, FlushType DEF TypeOK
<1>3. windows'.progress = windows.progress /\ windows'.dialogs = windows.dialogs /\ windows'.enabled = FALSE
  BY <1>1 DEF TypeOK, Windows
<1>4. SigsFit' /\ WindowInv' /\ Marks' = Marks \ {name} /\ name \in Marks
  BY <1>1, <1>3, HandledJob, <1>2 DEF StartOf, JobSignals, ProgressNames, Working, Begun
<1>5. Begins(op)
  BY <1>4 DEF JobState, JobInv, NoJob, SettingUp, WriteJob, ImportJob, Begins, Writes, Flushes, Ends, Failed, At,
     AtSignal, AtTask, AtFlush, AtDialog, AtNotifier, StartOf, ErrorOf, FinishedOf
<1>6. /\ Marks = {name} /\ store.flushes = {} /\ tasks = <<>> /\ store.notifiers = {} /\ Shown = {}
      /\ Flags(TRUE, FALSE, op = "export", op = "export")  BY <1>5 DEF Begins, AtSignal, At
<1>7. \A p \in DOMAIN store'.pending : store'.pending[p].id < f.id  BY <1>2 DEF TypeOK, NumbersAreNew
<1>8. f \in store'.flushes /\ f.call = op /\ store'.flushes = {f}  BY <1>2, <1>6
<1> HIDE DEF f, name
<1>9. \E g \in store'.flushes :
           /\ Marks' = {} /\ store'.flushes = {g} /\ tasks' = <<>> /\ store'.notifiers = {} /\ Shown' = {}
           /\ g.call = op /\ \A p \in DOMAIN store'.pending : store'.pending[p].id < g.id
  BY <1>7, <1>8, <1>1, <1>2, <1>3, <1>4, <1>6 DEF Shown
<1>10. Flushes(op)'  BY <1>3, <1>9, <1>1, <1>2, <1>6 DEF Flushes, AtFlush, At, Flags
<1> QED  BY <1>4, <1>5, <1>10 DEF JobState, JobInv, WriteJob

\* The signal of a job tells which job it is.
LEMMA MarkedJob ==
    ASSUME JobInv, NEW name \in Marks
    PROVE  /\ AtSignal(name)
           /\ \/ SettingUp /\ name = "module"
              \/ \E op \in {"save", "export"} : Begins(op) /\ name = StartOf(op)
              \/ \E op \in {"save", "export"} : Ends(op) /\ name \in {FinishedOf(op), ErrorOf(op)}
              \/ ImportJob /\ name \in {"start_import_au", "au_import_finished"}
<1>1. ASSUME NEW other, AtSignal(other) PROVE AtSignal(name) /\ other = name  BY <1>1 DEF AtSignal, At
<1>2. Marks # {}  OBVIOUS
<1>3. CASE SettingUp  BY <1>2, <1>3, <1>1 DEF SettingUp, AtTask, At
<1>4. ASSUME NEW op \in {"save", "export"}, WriteJob(op)
      PROVE  AtSignal(name) /\ ((Begins(op) /\ name = StartOf(op)) \/ (Ends(op) /\ name \in {FinishedOf(op), ErrorOf(op)}))
  <2>1. ~Flushes(op) /\ ~Writes(op) /\ ~Failed(op)  BY <1>2 DEF Flushes, Writes, Failed, AtFlush, AtTask, AtDialog, At
  <2>2. CASE Begins(op)  BY <2>2, <1>1 DEF Begins
  <2>3. CASE Ends(op)  BY <1>1, <2>3 DEF Ends
  <2> QED  BY <1>4, <2>1, <2>2, <2>3 DEF WriteJob
<1>5. CASE ImportJob  BY <1>2, <1>5, <1>1 DEF ImportJob, AtTask, AtNotifier, At
<1> QED  BY <1>3, <1>4, <1>5, <1>2 DEF JobInv, NoJob, At

LEMMA NextSignalIn ==
    ASSUME TypeOK, NEW name, OnSignal(name)
    PROVE  name \in NamesIn(Sigs)
BY HeadFacts DEF OnSignal, TypeOK, Ticks, Sigs, NamesIn

LEMMA OnStartImportJob ==
    ASSUME TypeOK, TypeOK', JobState, OnStartImport
    PROVE  JobState'
<1> DEFINE task == [op |-> "import"]
<1>1. "start_import_au" \in JobSignals /\ "start_import_au" \notin ProgressNames /\ "start_import_au" # "visibility"
  BY DEF JobSignals, ProgressNames
<1>2. /\ OnSignal("start_import_au") /\ SignalDone /\ windows' = [windows EXCEPT !.enabled = FALSE]
      /\ tasks' = Append(tasks, task) /\ UNCHANGED <<session, signals, store>>  BY DEF OnStartImport
<1>3. "todo" \notin DOMAIN task /\ "begun" \notin DOMAIN task /\ task.op = "import"  OBVIOUS
<1> HIDE DEF task
<1>4. windows'.progress = windows.progress /\ windows'.dialogs = windows.dialogs /\ windows'.enabled = FALSE
  BY <1>2 DEF TypeOK, Windows
<1>5. ImportJob /\ AtSignal("start_import_au")
  BY MarkedJob, <1>1, <1>2, NextSignalIn DEF JobState, StartOf, FinishedOf, ErrorOf, Marks
<1>6. /\ Marks = {"start_import_au"} /\ store.flushes = {} /\ tasks = <<>> /\ store.notifiers = {} /\ Shown = {}
      /\ Flags(FALSE, TRUE, FALSE, FALSE)  BY <1>5 DEF AtSignal, At, ImportJob
<1>7. tasks' = <<task>> /\ DOMAIN tasks' = {1} /\ tasks'[1] = task /\ 1 \in DOMAIN tasks'  BY <1>2, <1>6
<1>8. SigsFit' /\ WindowInv' /\ Marks' = Marks \ {"start_import_au"}
  BY <1>1, <1>2, <1>4, HandledJob, <1>3, <1>6, <1>7 DEF Working, Begun
<1>9. AtTask(tasks[1])'  BY <1>2, <1>4, <1>6, <1>7, <1>8 DEF AtTask, At, Shown
<1>10. ImportJob'  BY <1>2, <1>3, <1>6, <1>7, <1>9 DEF ImportJob, Flags
<1> QED  BY <1>8, <1>10 DEF JobState, JobInv

LEMMA OnSaveFinishedJob ==
    ASSUME TypeOK, JobState, OnSaveFinished
    PROVE  JobState' /\ Ends("save") /\ NoJob' /\ "save_finished" \in Marks
<1> DEFINE name == "save_finished"
           cleared == [store EXCEPT !.modified = FALSE]
<1>1. name \in JobSignals /\ name \notin ProgressNames /\ name # "visibility"  BY DEF JobSignals, ProgressNames
<1>2. /\ OnSignal(name) /\ SignalDone /\ windows' = [windows EXCEPT !.enabled = TRUE, !.visible = windows.visible /\ ~session.quitAfter]
      /\ store' = [cleared EXCEPT !.saving = FALSE] /\ session' = [session EXCEPT !.saving = FALSE]
      /\ UNCHANGED tasks
      /\ UNCHANGED signals \/ signals' = SignalUpdateDeferred(signals, "visibility")
  BY DEF OnSaveFinished, SetSaving, ClearModified
<1>3. store'.flushes = store.flushes /\ store'.saving = FALSE /\ store'.notifiers = store.notifiers
  BY <1>2 DEF Stores, TypeOK
<1>4. windows'.progress = windows.progress /\ windows'.dialogs = windows.dialogs /\ windows'.enabled
  BY <1>2 DEF TypeOK, Windows
<1>5. session'.saving = FALSE /\ session'.importing = session.importing /\ session'.exporting = session.exporting
  BY <1>2 DEF TypeOK, Sessions
<1>6. name \in Marks  BY <1>1, <1>2, NextSignalIn DEF Marks
<1>7. Ends("save")  BY <1>6, MarkedJob DEF JobState, StartOf, FinishedOf, ErrorOf
<1>8. SigsFit' /\ WindowInv' /\ Marks' = Marks \ {name}  BY <1>1, <1>2, <1>4, HandledJob, <1>3 DEF Working, Begun
<1>9. AtSignal(name)  BY <1>6, MarkedJob DEF JobState
<1>10. At({}, {}, <<>>, {}, {})'  BY <1>2, <1>3, <1>4, <1>8, <1>9 DEF AtSignal, At, Shown
<1>11. NoJob'  BY <1>3, <1>4, <1>5, <1>7, <1>10 DEF NoJob, Ends, Flags
<1> QED  BY <1>6, <1>7, <1>8, <1>11 DEF JobState, JobInv

LEMMA OnExportFinishedJob ==
    ASSUME TypeOK, JobState, OnExportFinished
    PROVE  JobState' /\ NoJob'
<1> DEFINE name == "export_finished"
<1>1. name \in JobSignals /\ name \notin ProgressNames /\ name # "visibility"  BY DEF JobSignals, ProgressNames
<1>2. /\ OnSignal(name) /\ SignalDone /\ windows' = [windows EXCEPT !.enabled = TRUE]
      /\ store' = [store EXCEPT !.saving = FALSE] /\ session' = [session EXCEPT !.saving = FALSE]
      /\ UNCHANGED <<tasks, signals>>  BY DEF OnExportFinished, SetSaving
<1>3. store'.flushes = store.flushes /\ store'.saving = FALSE /\ store'.notifiers = store.notifiers
  BY <1>2 DEF TypeOK, Stores
<1>4. windows'.progress = windows.progress /\ windows'.dialogs = windows.dialogs /\ windows'.enabled
  BY <1>2 DEF TypeOK, Windows
<1>5. session'.saving = FALSE /\ session'.importing = session.importing /\ session'.exporting = session.exporting
  BY <1>2 DEF TypeOK, Sessions
<1>6. name \in Marks  BY <1>1, <1>2, NextSignalIn DEF Marks
<1>7. Ends("export")  BY <1>6, MarkedJob DEF JobState, StartOf, FinishedOf, ErrorOf
<1>8. SigsFit' /\ WindowInv' /\ Marks' = Marks \ {name}  BY <1>1, <1>2, <1>4, HandledJob, <1>3 DEF Working, Begun
<1>9. AtSignal(name)  BY <1>6, MarkedJob DEF JobState
<1>10. At({}, {}, <<>>, {}, {})'  BY <1>2, <1>3, <1>4, <1>8, <1>9 DEF AtSignal, At, Shown
<1>11. NoJob'  BY <1>3, <1>4, <1>5, <1>7, <1>10 DEF NoJob, Ends, Flags
<1> QED  BY <1>8, <1>11 DEF JobState, JobInv

LEMMA OnImportFinishedJob ==
    ASSUME TypeOK, JobState, OnImportFinished
    PROVE  JobState' /\ NoJob'
<1> DEFINE name == "au_import_finished"
<1>1. name \in JobSignals /\ name \notin ProgressNames /\ name # "visibility"  BY DEF JobSignals, ProgressNames
<1>2. /\ OnSignal(name) /\ SignalDone /\ windows' = [windows EXCEPT !.enabled = TRUE]
      /\ session' = [session EXCEPT !.importing = FALSE] /\ UNCHANGED <<tasks, signals, store>>
  BY DEF OnImportFinished
<1>3. windows'.progress = windows.progress /\ windows'.dialogs = windows.dialogs /\ windows'.enabled
  BY <1>2 DEF TypeOK, Windows
<1>4. name \in Marks  BY <1>1, <1>2, NextSignalIn DEF Marks
<1>5. ImportJob  BY <1>4, MarkedJob DEF JobState, StartOf, FinishedOf, ErrorOf
<1>6. SigsFit' /\ WindowInv' /\ Marks' = Marks \ {name}  BY <1>1, <1>2, <1>3, HandledJob DEF Working, Begun
<1>7. At({}, {}, <<>>, {}, {})'  BY <1>2, <1>3, <1>6, <1>4, MarkedJob DEF AtSignal, At, Shown, JobState
<1>8. NoJob'  BY <1>2, <1>3, <1>5, <1>7 DEF NoJob, ImportJob, Flags, TypeOK, Sessions
<1> QED  BY <1>6, <1>8 DEF JobState, JobInv

LEMMA OnModuleJob ==
    ASSUME TypeOK, JobState, OnModule
    PROVE  JobState' /\ NoJob'
<1> DEFINE name == "module"
<1>1. name \in JobSignals /\ name \notin ProgressNames /\ name # "visibility"  BY DEF JobSignals, ProgressNames
<1>2. /\ OnSignal(name) /\ SignalDone /\ windows' = [windows EXCEPT !.enabled = TRUE]
      /\ UNCHANGED <<tasks, signals, store, session>>  BY DEF OnModule
<1>3. windows'.progress = windows.progress /\ windows'.dialogs = windows.dialogs /\ windows'.enabled
  BY <1>2 DEF TypeOK, Windows
<1>4. name \in Marks  BY <1>1, <1>2, NextSignalIn DEF Marks
<1>5. SettingUp  BY <1>4, MarkedJob DEF JobState, StartOf, FinishedOf, ErrorOf
<1>6. SigsFit' /\ WindowInv' /\ Marks' = Marks \ {name}  BY <1>1, <1>2, <1>3, HandledJob DEF Working, Begun
<1>7. At({}, {}, <<>>, {}, {})'  BY <1>2, <1>3, <1>6, <1>4, MarkedJob DEF AtSignal, At, Shown, JobState
<1>8. NoJob'  BY <1>2, <1>3, <1>5, <1>7 DEF NoJob, SettingUp, Flags
<1> QED  BY <1>6, <1>8 DEF JobState, JobInv

LEMMA OnErrorJob ==
    ASSUME TypeOK, JobState, OnError
    PROVE  JobState'
<1>1. PICK name \in ErrorSignals :
        /\ OnSignal(name) /\ SignalDone
        /\ windows' = [windows EXCEPT !.dialogs = windows.dialogs \union {name}]
        /\ session' = [session EXCEPT !.quitAfter = session.quitAfter /\ name # "save_error"]  BY DEF OnError
<1>2. UNCHANGED <<store, signals, tasks, file>>  BY DEF OnError, history
<1>3. windows'.progress = windows.progress /\ windows'.enabled = windows.enabled /\ windows'.dialogs = windows.dialogs \union {name}
  BY <1>1 DEF TypeOK, Windows
<1>4. session'.saving = session.saving /\ session'.importing = session.importing /\ session'.exporting = session.exporting
  BY <1>1 DEF TypeOK, Sessions
<1>5. SigsFit' /\ WindowInv' /\ Marks' = Marks \ {name}
  BY <1>1, <1>2, <1>3, HandledJob DEF ErrorSignals, ProgressNames, Working, Begun
<1>6. CASE name \in {"load_error", "import_error"}
  <2>1. Marks' = Marks /\ Shown' = Shown  BY <1>3, <1>5, <1>6 DEF Marks, JobSignals, Shown, JobErrors
  <2>2. SameData  BY <1>2, <1>3, <1>6, DataUnchanged
  <2> QED  BY <1>5, <2>1, <2>2, JobKept, <1>2, <1>3, <1>4 DEF JobState, SameJob
<1>7. CASE name \in JobErrors
  <2>1. name \in Marks  BY <1>1, <1>7, NextSignalIn DEF Marks, JobErrors, JobSignals
  <2>2. PICK op \in {"save", "export"} : Ends(op) /\ name = ErrorOf(op)
    BY <1>7, <2>1, MarkedJob DEF JobState, StartOf, FinishedOf, ErrorOf, JobErrors
  <2>3. Marks = {name} /\ store.flushes = {} /\ tasks = <<>> /\ store.notifiers = {} /\ Shown = {}
    BY <2>1, MarkedJob DEF JobState, AtSignal, At
  <2>4. AtDialog(ErrorOf(op))'  BY <2>2, <1>2, <1>5, <2>3, <1>3, <1>7 DEF AtDialog, At, Shown
  <2>5. Failed(op)'  BY <2>4, <1>2, <1>3, <1>4, <2>2 DEF Failed, Ends, Flags
  <2> QED  BY <1>5, <2>5 DEF JobState, JobInv, WriteJob
<1> QED  BY <1>6, <1>7 DEF ErrorSignals, JobErrors

\* The progress window is there when it is stepped or finished.
LEMMA OnProgressJob ==
    ASSUME TypeOK, JobState, OnProgress
    PROVE  JobState' /\ failure' = failure
<1>1. PICK name \in ProgressNames :
        /\ OnSignal(name)
        /\ IF windows.progress = (name # "progress_start")
           THEN /\ SignalDone
                /\ windows' = [windows EXCEPT !.progress = (name # "progress_finished")]
                /\ UNCHANGED <<audioVars, store, session, signals, tasks, outQ, qState, main, history>>
           ELSE Crash("progress")  BY DEF OnProgress, ProgressNames
<1>2. windows \in Windows /\ windows.progress \in BOOLEAN /\ tick.sigs \in Seq(SignalNames)
  BY DEF TypeOK, Windows, Ticks
<1>3. windows.progress = (name # "progress_start")
  BY <1>2, DroppedFits, <1>1, HeadFacts DEF JobState, SigsFit, OnSignal, Sigs
<1>4. /\ SignalDone /\ windows' = [windows EXCEPT !.progress = (name # "progress_finished")]
      /\ UNCHANGED <<store, session, signals, tasks, file, failure>>  BY <1>1, <1>3 DEF history
<1>5. /\ windows'.progress = (name # "progress_finished") /\ windows'.enabled = windows.enabled
      /\ windows'.dialogs = windows.dialogs  BY <1>2, <1>4 DEF Windows
<1>6. Moves(Live \ {name}) /\ name \in Live /\ tick'.pc = "updates"
  BY SigsHandled, <1>1, <1>4, <1>5 DEF JobState, Handles, Taking, ProgressNames
<1>7. SigsFit' /\ Live' = Live \ {name}  BY <1>6 DEF Moves, SigsFit
<1>8. Open(Sigs, windows.progress)' <=> Open(Sigs, windows.progress)
  BY LiveFacts, <1>3, <1>5, <1>6, <1>7 DEF JobState, SigsFit, ProgressNames
<1>9. WindowInv'  BY <1>6, <1>8, <1>4 DEF WindowInv, JobState, EventTime, Working, Begun
<1>10. SameJob /\ SameData  BY <1>4, <1>5, DataUnchanged DEF SameJob, Shown
<1> QED  BY <1>4, <1>7, <1>9, <1>10, JobKept, LiveFacts DEF JobState, ProgressNames, JobSignals

LEMMA OnVisibilityJob ==
    ASSUME TypeOK, JobState, OnVisibility
    PROVE  JobState'
<1>1. OnSignal("visibility") /\ UNCHANGED <<store, session, windows, signals, tasks, file>>
  BY DEF OnVisibility, history
<1>2. CASE windows.visible
  <2>1. Moves(Live) /\ tick'.pc = "updates"  BY <1>1, <1>2, SigsHandledLater DEF OnVisibility, JobState
  <2> QED  BY <1>1, <2>1, QuietJob, DataUnchanged DEF SameJob, Shown, EventTime
<1>3. CASE ~windows.visible  BY <1>3, <1>1, QuietTick DEF OnVisibility, TypeOK, Ticks, PcInv, EventTime
<1> QED  BY <1>2, <1>3

LEMMA EndTickJob ==
    ASSUME TypeOK, JobState, EndTick
    PROVE  JobState'
<1>1. /\ tick'.pc = "idle" /\ tick'.sigs = <<>> /\ tick.sigs = <<>> /\ tick'.cmds = tick.cmds /\ tick.pc = "updates"
      /\ UNCHANGED <<store, session, windows, signals, tasks, file>>  BY DEF EndTick, TypeOK, Ticks, history
<1>2. tick.cmds = <<>> /\ signals.now = <<>>  BY <1>1 DEF JobState, SigsFit, SignalsInv, PcInv
<1> QED  BY <1>1, QuietTick, <1>2 DEF PcInv, Live, Solid, Sigs, NamesIn

LEMMA SignalJob ==
    ASSUME TypeOK, TypeOK', JobState, SignalStep
    PROVE  JobState'
<1>1. OnStartSave \/ OnStartExport => \E op \in {"save", "export"} : OnStart(StartOf(op), op)
  BY DEF OnStartSave, OnStartExport, StartOf
<1> QED
  BY <1>1, StartUpdatesJob, OnStartJob, OnStartImportJob, OnSaveFinishedJob, OnExportFinishedJob, OnImportFinishedJob,
     OnErrorJob, OnModuleJob, OnProgressJob, OnVisibilityJob, EndTickJob DEF SignalStep

-----------------------------------------------------------------------------
\* Tasks.

LEMMA OnlyTask ==
    ASSUME NEW S, NEW q \in Seq(S), NEW i \in DOMAIN q, q = <<q[i]>>
    PROVE  q = <<Head(q)>> /\ Head(q) = q[i] /\ q[1] = q[i] /\ Tail(q) = <<>> /\ DOMAIN q = {1}
<1>1. PICK e : e = q[i]  OBVIOUS
<1>2. q = <<e>>  BY <1>1
<1> QED  BY <1>1, <1>2

LEMMA Alone ==
    ASSUME NEW e, NEW q, q = <<>>
    PROVE  <<e>> \o q = <<e>>
    OBVIOUS

LEMMA WaitingTask ==
    ASSUME TypeOK, JobInv, tasks # <<>>
    PROVE  /\ tasks = <<Head(tasks)>> /\ Tail(tasks) = <<>> /\ DOMAIN tasks = {1} /\ tasks[1] = Head(tasks)
           /\ Marks = {} /\ store.flushes = {} /\ store.notifiers = {} /\ Shown = {}
           /\ Working <=> Begun(Head(tasks))
           /\ \/ SettingUp /\ Head(tasks) = [op |-> "sandbox"]
              \/ \E op \in {"save", "export"} : Writes(op) /\ Head(tasks).op = op /\ Consistent(Head(tasks))
              \/ ImportJob /\ Head(tasks).op = "import"
<1> DEFINE sandbox == [op |-> "sandbox"]
<1>1. ASSUME NEW i \in DOMAIN tasks, AtTask(tasks[i])
      PROVE  /\ tasks = <<Head(tasks)>> /\ Tail(tasks) = <<>> /\ DOMAIN tasks = {1} /\ tasks[1] = Head(tasks)
             /\ Head(tasks) = tasks[i]
             /\ Marks = {} /\ store.flushes = {} /\ store.notifiers = {} /\ Shown = {}
  BY <1>1, OnlyTask DEF AtTask, At, TypeOK
<1>2. ASSUME DOMAIN tasks = {1}, tasks[1] = Head(tasks), store.notifiers = {}
      PROVE  Working <=> Begun(Head(tasks))  BY <1>2 DEF Working
<1> HIDE DEF sandbox
<1>3. CASE SettingUp
  <2>1. AtTask(sandbox)  BY <1>3 DEF SettingUp, AtSignal, At, sandbox
  <2> QED  BY <1>1, <1>2, <1>3, <2>1 DEF sandbox, AtTask, At
<1>4. ASSUME NEW op \in {"save", "export"}, WriteJob(op)
      PROVE  \E i \in DOMAIN tasks : Writes(op) /\ AtTask(tasks[i]) /\ tasks[i].op = op /\ Consistent(tasks[i])
  <2>1. Writes(op)  BY <1>4 DEF WriteJob, Begins, Flushes, Ends, Failed, AtSignal, AtFlush, AtDialog, At
  <2> QED  BY <2>1 DEF Writes
<1>5. CASE WriteJob("save") \/ WriteJob("export")
  <2>1. PICK op \in {"save", "export"} : WriteJob(op)  BY <1>5
  <2>2. PICK i \in DOMAIN tasks : Writes(op) /\ AtTask(tasks[i]) /\ tasks[i].op = op /\ Consistent(tasks[i])
    BY <1>4, <2>1
  <2> QED  BY <1>1, <1>2, <2>2
<1>6. CASE ImportJob
  <2>1. PICK i \in DOMAIN tasks : AtTask(tasks[i]) /\ tasks[i].op = "import"
    BY <1>6 DEF ImportJob, AtSignal, AtNotifier, At
  <2> QED  BY <1>1, <1>2, <1>6, <2>1
<1> QED  BY <1>3, <1>5, <1>6 DEF JobInv, NoJob, At

\* The turn of a task, as an event.
LEMMA TaskEvent ==
    ASSUME TypeOK, JobState, tasks # <<>>, EventLoop, TaskUnchanged
    PROVE  /\ EventStep /\ EventTime' /\ UNCHANGED <<session, windows>> /\ Shown' = Shown
           /\ Begun(Head(tasks)) => Open(Sigs, windows.progress)
           /\ ~Begun(Head(tasks)) => Closed(Sigs, windows.progress)
<1>1. tick' = tick /\ UNCHANGED <<session, windows>>  BY DEF TaskUnchanged
<1>2. PcInv' /\ TickKept /\ EventTime /\ EventTime'  BY <1>1, UserTick DEF JobState
<1>3. Marks = {} /\ (Working <=> Begun(Head(tasks)))  BY WaitingTask DEF JobState
<1>4. Working <=> Open(Sigs, windows.progress)  BY DEF JobState, WindowInv
<1>5. ASSUME ~Begun(Head(tasks)) PROVE Closed(Sigs, windows.progress)
  BY <1>3, <1>4, <1>5, LiveFacts, <1>2 DEF JobEnds, JobState, WindowInv, SigsFit
<1> QED  BY <1>1, <1>2, <1>3, <1>4, <1>5 DEF EventStep, JobState, Shown

LEMMA SandboxJob ==
    ASSUME TypeOK, JobState, SandboxTask
    PROVE  JobState'
<1>1. tasks # <<>> /\ EventLoop /\ Head(tasks).op = "sandbox" /\ TaskUnchanged /\ Raise("module") /\ tasks' = Tail(tasks)
      /\ store' = [store EXCEPT !.modified = FALSE] /\ file' = file
  BY DEF SandboxTask, TaskTurn, TaskDone, ClearModified
<1>2. /\ tasks' = <<>> /\ Marks = {} /\ store.flushes = {} /\ store.notifiers = {} /\ Shown = {} /\ SettingUp
      /\ Working <=> Begun(Head(tasks))
      /\ Head(tasks) = [op |-> "sandbox"]  BY <1>1, WaitingTask DEF JobState
<1>3. /\ store'.flushes = {} /\ store'.notifiers = {} /\ store'.saving = store.saving /\ store'.modified = FALSE
  BY <1>1, <1>2 DEF TypeOK, Stores
<1>4. EventStep /\ EventTime' /\ UNCHANGED <<session, windows>> /\ Shown' = Shown /\ Closed(Sigs, windows.progress)
  BY <1>1, TaskEvent, <1>2 DEF Begun
<1>5. SigsFit' /\ Live' = Live \union {"module"}
  BY LiveFacts, <1>1, <1>4, SigsRaised DEF Moves, SigsFit, SignalNames, MayRaise
<1>6. AtSignal("module")'  BY <1>2, <1>3, <1>4, <1>5, LiveFacts DEF AtSignal, At, JobSignals
<1>7. SettingUp'  BY <1>1, <1>2, <1>3, <1>4, <1>6 DEF SettingUp, Flags
<1>8. Closed(Sigs, windows.progress)'  BY <1>4, <1>5, LiveFacts DEF ProgressNames, Closed, Live, Solid, NamesIn
<1>9. WindowInv'  BY <1>4, <1>5, LiveFacts, <1>2, <1>3 DEF WindowInv, ProgressNames, Working
<1> QED  BY <1>5, <1>7, <1>9 DEF JobState, JobInv

LEMMA StartWritingJob ==
    ASSUME TypeOK, JobState, StartWriting
    PROVE  JobState'
<1>1. PICK op \in {"save", "export"} : Head(tasks).op = op  BY DEF StartWriting, WriteTask
<1> DEFINE task == [op |-> op, todo |-> Written(op), got |-> [k \in {} |-> None]]
<1>2. /\ tasks # <<>> /\ EventLoop /\ "todo" \notin DOMAIN Head(tasks) /\ TaskUnchanged
      /\ Raise("progress_start") /\ tasks' = <<task>> \o Tail(tasks) /\ store' = store
  BY <1>1 DEF StartWriting, WriteTask, Writing, TaskYields
<1>3. /\ Tail(tasks) = <<>> /\ Marks = {} /\ store.flushes = {} /\ store.notifiers = {} /\ Shown = {}
      /\ Writes(op)  BY <1>1, <1>2, WaitingTask DEF JobState
<1>4. task.op = op /\ "todo" \in DOMAIN task /\ task.todo = Written(op) /\ DOMAIN task.got = {}  OBVIOUS
<1>5. store.pending = <<>> /\ Flags(TRUE, FALSE, FALSE, TRUE) /\ ~windows.enabled  BY <1>3 DEF Writes
<1>6. Written(op) = {k \in Scope(op) : Exists(k)}
  BY <1>5, StampAssumption DEF Touching, ListedKeys, Exists, Written, Scope
<1> HIDE DEF task
<1>7. tasks' = <<task>>  BY <1>2, <1>3, Alone
<1>8. tasks'[1] = task /\ DOMAIN tasks' = {1}  BY <1>7
<1>9. EventStep /\ EventTime' /\ UNCHANGED <<session, windows>> /\ Shown' = Shown /\ Closed(Sigs, windows.progress)
  BY <1>2, TaskEvent, <1>1, TaskQueueTypes DEF Begun, Tasks
<1>10. SigsFit' /\ Live' = Live \union {"progress_start"}
  BY LiveFacts, <1>2, <1>9, SigsRaised DEF Moves, SigsFit, SignalNames, MayRaise
<1>11. At({}, {}, <<tasks[1]>>, {}, {})'  BY <1>2, <1>3, <1>7, <1>8, <1>9, <1>10, LiveFacts DEF At, JobSignals
<1>12. Consistent(tasks[1])'  BY <1>2, <1>4, <1>6, <1>8 DEF Consistent, Exists
<1>13. Writes(op)'
  <2>1. store'.pending = <<>> /\ Flags(TRUE, FALSE, FALSE, TRUE)' /\ ~windows'.enabled  BY <1>2, <1>5, <1>9 DEF Flags
  <2>2. 1 \in DOMAIN tasks' /\ tasks'[1].op = op  BY <1>4, <1>8
  <2>3. AtTask(tasks[1])'  BY <1>11 DEF AtTask
  <2> QED  BY <1>12, <2>1, <2>2, <2>3 DEF Writes
<1>14. WindowInv'  BY <1>10, LiveFacts, <1>4, <1>8, <1>9 DEF WindowInv, Working, Begun, ProgressNames
<1> QED  BY <1>10, <1>14, <1>13 DEF JobState, JobInv, WriteJob

LEMMA WriteEnded ==
    ASSUME TypeOK, JobState, NEW op \in {"save", "export"}, Writes(op), tasks # <<>>, EventLoop, TaskUnchanged,
           TaskDone, store' = store,
           NEW name \in {FinishedOf(op), ErrorOf(op)}, NEW more \in SUBSET {"progress_start"},
           Moves((Live \union {name, "progress_finished"} \union more) \ {"visibility"})
    PROVE  JobState' /\ Ends(op)' /\ Marks' = {name}
<1>1. tasks' = <<>> /\ Marks = {} /\ store.flushes = {} /\ store.notifiers = {} /\ Shown = {}
  BY WaitingTask DEF JobState, TaskDone
<1>2. name \in JobEnds /\ name \in JobSignals /\ name # "visibility"  BY DEF FinishedOf, ErrorOf, JobEnds, JobSignals
<1>3. SigsFit' /\ Live' = Live \union {name, "progress_finished"} \union more  BY <1>2, LiveFacts DEF Moves, SigsFit
<1>4. Marks' = {name}  BY <1>1, <1>2, <1>3, LiveFacts DEF JobSignals
<1>5. Ends(op)'  BY <1>1, <1>4, TaskEvent DEF Ends, AtSignal, At, Writes, Flags
<1>6. WindowInv'  BY <1>2, <1>3, LiveFacts, <1>1 DEF WindowInv, Working
<1> QED  BY <1>3, <1>4, <1>5, <1>6 DEF JobState, JobInv, WriteJob

LEMMA WritingTask ==
    ASSUME TypeOK, JobState, WriteTask
    PROVE  /\ tasks # <<>> /\ EventLoop /\ Writing = Head(tasks) /\ Writing.op \in {"save", "export"}
           /\ Writes(Writing.op) /\ Consistent(Writing)
           /\ Begun(Writing) <=> "todo" \in DOMAIN Writing
<1>1. tasks # <<>> /\ EventLoop /\ Writing = Head(tasks) /\ Writing.op \in {"save", "export"}
  BY DEF WriteTask, Writing
<1>2. "begun" \notin DOMAIN Writing  BY <1>1, TaskQueueTypes DEF Tasks
<1> QED  BY <1>1, <1>2, WaitingTask DEF Begun, JobState

LEMMA WriteErrorJob ==
    ASSUME TypeOK, JobState, WriteError
    PROVE  \E op \in {"save", "export"} : JobState' /\ Ends(op)' /\ Writes(op) /\ Marks' = {ErrorOf(op)}
<1>1. PICK op \in {"save", "export"} : op = Writing.op /\ WriteTask  BY DEF WriteError, WriteTask, Writing
<1>2. /\ tasks # <<>> /\ EventLoop /\ Writing = Head(tasks) /\ Writes(op) /\ (Begun(Writing) <=> "todo" \in DOMAIN Writing)
      /\ TaskUnchanged /\ TaskDone /\ store' = store  BY <1>1, WritingTask DEF WriteError
<1> DEFINE name == ErrorOf(op)
<1>3. /\ name \in SignalNames /\ name \notin ProgressNames /\ name \in {FinishedOf(op), ErrorOf(op)}
      /\ "progress_finished" \in SignalNames /\ "progress_start" \in SignalNames
  BY DEF ErrorOf, SignalNames, ErrorSignals, ProgressNames
<1>4. EventStep /\ (Begun(Writing) => Open(Sigs, windows.progress)) /\ (~Begun(Writing) => Closed(Sigs, windows.progress))
  BY <1>2, TaskEvent
<1>5. CASE "todo" \in DOMAIN Writing
  <2>1. Moves((Live \union {name, "progress_finished"} \union {}) \ {"visibility"})
    BY <1>3, <1>4, SigsRaisedBoth, <1>1, <1>5, <1>2 DEF WriteError, MayRaise, ProgressNames
  <2>2. {} \in SUBSET {"progress_start"}  OBVIOUS
  <2> HIDE DEF name
  <2> QED  BY <1>2, <1>3, <2>1, <2>2, WriteEnded DEF name
<1>6. CASE "todo" \notin DOMAIN Writing
  <2>1. RaiseAll("progress_start", name, "progress_finished")  BY <1>1, <1>6 DEF WriteError
  <2> HIDE DEF name
  <2>2. Live \union {"progress_start", name, "progress_finished"} = Live \union {name, "progress_finished"} \union {"progress_start"}
    OBVIOUS
  <2> QED  BY <1>2, <1>3, <2>2, WriteEnded, <1>4, <2>1, SigsRaisedAll, <1>6 DEF name
<1> QED  BY <1>5, <1>6

\* Every key that was listed still has a value.
LEMMA WriteKeyJob ==
    ASSUME TypeOK, JobState, WriteKey
    PROVE  JobState' /\ UNCHANGED <<store, windows, session, file, failure>> /\ Marks' = Marks
<1>1. PICK op \in {"save", "export"} : op = Writing.op /\ WriteTask  BY DEF WriteKey, WriteTask, Writing
<1>2. /\ tasks # <<>> /\ EventLoop /\ Writing = Head(tasks) /\ Writes(op) /\ Consistent(Writing)
      /\ Begun(Writing) <=> "todo" \in DOMAIN Writing  BY <1>1, WritingTask
<1>3. "todo" \in DOMAIN Writing  BY DEF WriteKey
<1>4. Writing \in [op : {"save", "export"}, todo : SUBSET Keys, got : Transactions]
  BY <1>2, <1>3, TaskQueueTypes, TaskShapes
<1>5. store.pending = <<>> /\ Flags(TRUE, FALSE, FALSE, TRUE) /\ ~windows.enabled  BY <1>2 DEF Writes
<1>6. \A k \in Keys : View(store)[k] = store.content[k]
  <2> SUFFICES ASSUME NEW k \in Keys PROVE View(store)[k] = store.content[k]  OBVIOUS
  <2> QED  BY ViewFacts, <1>5 DEF TypeOK, Touching
<1>7. /\ Writing.todo \union DOMAIN Writing.got = {k \in Scope(op) : Exists(k)}
      /\ \A k \in DOMAIN Writing.got : Writing.got[k] = store.content[k]  BY <1>1, <1>2, <1>3 DEF Consistent
<1> DEFINE after(k) == [Writing EXCEPT !.todo = Writing.todo \ {k},
                                       !.got = [j \in DOMAIN Writing.got \union {k} |->
                                                 IF j = k THEN View(store)[k] ELSE Writing.got[j]]]
<1>8. PICK k \in Writing.todo :
        TaskYields(after(k)) /\ Raise("progress_step") /\ TaskUnchanged /\ UNCHANGED <<audioQ, store, file, log>>
  BY <1>4, <1>6, <1>7 DEF WriteKey, Exists
<1> DEFINE task == after(k)
<1>9. /\ task.op = op /\ "todo" \in DOMAIN task /\ task.todo = Writing.todo \ {k}
      /\ DOMAIN task.got = DOMAIN Writing.got \union {k}
      /\ \A j \in DOMAIN task.got : task.got[j] = IF j = k THEN View(store)[k] ELSE Writing.got[j]  BY <1>1, <1>4
<1>10. tasks' = <<task>> \o Tail(tasks)  BY <1>8 DEF TaskYields
<1> HIDE DEF task
<1>11. /\ Tail(tasks) = <<>> /\ Marks = {} /\ store.flushes = {} /\ store.notifiers = {} /\ Shown = {}
  BY <1>2, WaitingTask DEF JobState
<1>12. tasks' = <<task>>  BY <1>10, <1>11, Alone
<1>13. tasks'[1] = task /\ DOMAIN tasks' = {1}  BY <1>12
<1>14. EventStep /\ EventTime' /\ UNCHANGED <<session, windows>> /\ Shown' = Shown /\ Open(Sigs, windows.progress)
  BY <1>2, <1>3, <1>8, TaskEvent
<1>15. SigsFit' /\ Marks' = Marks /\ Open(Sigs, windows.progress)'  BY <1>8, <1>14, SteppedSigs
<1>16. Consistent(tasks[1])'  BY <1>7, <1>8, <1>9, <1>4, <1>6, <1>13 DEF Consistent, Exists
<1>17. Writes(op)'
  <2>1. AtTask(tasks[1])'  BY <1>8, <1>11, <1>12, <1>13, <1>14, <1>15 DEF AtTask, At
  <2> QED  BY <1>16, <2>1, <1>5, <1>8, <1>14, <1>9, <1>13 DEF Writes, Flags
<1>18. WindowInv'  BY <1>15, LiveFacts, <1>9, <1>13 DEF WindowInv, Working, Begun
<1> QED  BY <1>8, <1>14, <1>15, <1>18, <1>17 DEF JobState, JobInv, WriteJob, TaskUnchanged

LEMMA FinishWritingJob ==
    ASSUME TypeOK, JobState, FinishWriting
    PROVE  \E op \in {"save", "export"} :
                /\ JobState' /\ Writes(op) /\ Ends(op)' /\ Marks' = {FinishedOf(op)}
                /\ store' = store /\ windows' = windows /\ op = Writing.op
                /\ op = "save" => /\ file' = Writing.got /\ DOMAIN file' = {k \in Keys : Exists(k)}
                                  /\ \A k \in DOMAIN file' : file'[k] = store.content[k]
                /\ op = "export" => file' = file
<1>1. PICK op \in {"save", "export"} : op = Writing.op /\ WriteTask  BY DEF FinishWriting, WriteTask, Writing
<1>2. /\ tasks # <<>> /\ EventLoop /\ Writing = Head(tasks) /\ Writes(op) /\ (Begun(Writing) <=> "todo" \in DOMAIN Writing)
      /\ Consistent(Writing) /\ "todo" \in DOMAIN Writing /\ Writing.todo = {}
      /\ TaskUnchanged /\ TaskDone /\ store' = store /\ file' = IF op = "save" THEN Writing.got ELSE file
  BY <1>1, WritingTask DEF FinishWriting
<1> DEFINE name == FinishedOf(op)
<1>3. /\ name \in SignalNames /\ name \notin ProgressNames /\ name \in {FinishedOf(op), ErrorOf(op)}
      /\ "progress_finished" \in SignalNames  BY DEF FinishedOf, SignalNames, ProgressNames
<1>4. EventStep /\ Open(Sigs, windows.progress) /\ windows' = windows  BY <1>2, TaskEvent
<1>5. Moves((Live \union {"progress_finished", name}) \ {"visibility"})
  BY <1>3, <1>4, SigsRaisedBoth, <1>1 DEF FinishWriting, MayRaise
<1> HIDE DEF name
<1>6. JobState' /\ Ends(op)' /\ Marks' = {name}  BY <1>2, <1>3, <1>5, WriteEnded
<1>7. CASE op = "save"  BY <1>7, <1>1, <1>2, <1>4, <1>6 DEF Scope, Consistent, name
<1>8. CASE op = "export"  BY <1>1, <1>2, <1>4, <1>6, <1>8 DEF name
<1> QED  BY <1>7, <1>8

LEMMA ImportTask ==
    ASSUME TypeOK, JobState, TaskTurn("import")
    PROVE  /\ tasks # <<>> /\ EventLoop /\ Tail(tasks) = <<>> /\ Marks = {} /\ Shown = {}
           /\ store.flushes = {} /\ store.notifiers = {}
           /\ ImportJob /\ Flags(FALSE, TRUE, FALSE, FALSE)
           /\ Begun(Head(tasks)) <=> "begun" \in DOMAIN Head(tasks)
<1>1. tasks # <<>> /\ EventLoop /\ Head(tasks).op = "import"  BY DEF TaskTurn
<1>2. /\ Tail(tasks) = <<>> /\ Marks = {} /\ Shown = {} /\ store.flushes = {} /\ store.notifiers = {}
      /\ ImportJob  BY <1>1, WaitingTask DEF JobState
<1> QED  BY <1>1, <1>2, TaskShapes, TaskQueueTypes DEF Begun, ImportJob

LEMMA StartImportTaskJob ==
    ASSUME TypeOK, JobState, StartImportTask
    PROVE  JobState'
<1> DEFINE task == [op |-> "import", begun |-> TRUE]
<1>1. /\ TaskTurn("import") /\ "begun" \notin DOMAIN Head(tasks) /\ TaskUnchanged /\ store' = store
      /\ Raise("progress_start") /\ tasks' = <<task>> \o Tail(tasks)  BY DEF StartImportTask, TaskYields
<1>2. /\ tasks # <<>> /\ EventLoop /\ Tail(tasks) = <<>> /\ Marks = {} /\ Shown = {}
      /\ store.flushes = {} /\ store.notifiers = {}
      /\ Flags(FALSE, TRUE, FALSE, FALSE) /\ ~Begun(Head(tasks))  BY <1>1, ImportTask
<1>3. task.op = "import" /\ "begun" \in DOMAIN task  OBVIOUS
<1> HIDE DEF task
<1>4. tasks' = <<task>>  BY <1>1, <1>2, Alone
<1>5. tasks'[1] = task /\ DOMAIN tasks' = {1}  BY <1>4
<1>6. EventStep /\ EventTime' /\ UNCHANGED <<session, windows>> /\ Shown' = Shown /\ Closed(Sigs, windows.progress)
  BY <1>1, <1>2, TaskEvent
<1>7. SigsFit' /\ Live' = Live \union {"progress_start"}
  BY LiveFacts, <1>1, <1>6, SigsRaised DEF Moves, SigsFit, SignalNames, MayRaise
<1>8. At({}, {}, <<tasks[1]>>, {}, {})'  BY <1>1, <1>2, <1>4, <1>5, <1>6, <1>7, LiveFacts DEF At, JobSignals
<1>9. ImportJob'  BY <1>8, <1>3, <1>5, <1>1, <1>2, <1>6 DEF AtTask, Flags, ImportJob
<1>10. WindowInv'  BY <1>7, LiveFacts, <1>3, <1>5, <1>6 DEF WindowInv, Working, Begun, ProgressNames
<1> QED  BY <1>7, <1>9, <1>10 DEF JobState, JobInv

LEMMA ImportTaskErrorJob ==
    ASSUME TypeOK, JobState, ImportTaskError
    PROVE  JobState'
<1>1. /\ TaskTurn("import") /\ "begun" \in DOMAIN Head(tasks) /\ TaskUnchanged /\ store' = store
      /\ RaiseAll("import_error", "au_import_finished", "progress_finished") /\ tasks' = Tail(tasks)
  BY DEF ImportTaskError, TaskDone
<1>2. /\ tasks # <<>> /\ EventLoop /\ Tail(tasks) = <<>> /\ Marks = {} /\ Shown = {}
      /\ store.flushes = {} /\ store.notifiers = {}
      /\ Flags(FALSE, TRUE, FALSE, FALSE) /\ Begun(Head(tasks))  BY <1>1, ImportTask
<1>3. EventStep /\ EventTime' /\ UNCHANGED <<session, windows>> /\ Shown' = Shown /\ Open(Sigs, windows.progress)
  BY <1>1, <1>2, TaskEvent
<1>4. SigsFit' /\ Live' = Live \union {"import_error", "au_import_finished", "progress_finished"}
  BY LiveFacts, <1>1, <1>3, SigsRaisedAll DEF Moves, SigsFit, SignalNames, ErrorSignals, ProgressNames
<1>5. AtSignal("au_import_finished")'  BY <1>1, <1>2, <1>3, <1>4, LiveFacts DEF AtSignal, At, JobSignals
<1>6. ImportJob'  BY <1>1, <1>2, <1>3, <1>5 DEF ImportJob, Flags
<1>7. ~Working'  BY <1>1, <1>2 DEF Working
<1> QED  BY <1>4, <1>6, <1>7, LiveFacts DEF JobState, JobInv, WindowInv, JobEnds, JobSignals

LEMMA ImportTaskPutJob ==
    ASSUME TypeOK, JobState, ImportTaskPut
    PROVE  JobState' /\ ImportJob /\ file' = file /\ store'.modified = TRUE
<1>1. PICK t \in Imports : store' = PutNotify(store, t)  BY DEF ImportTaskPut
<1>2. t \in Transactions /\ store \in Stores  BY <1>1, EditsAssumption DEF TypeOK
<1>3. /\ TaskTurn("import") /\ "begun" \in DOMAIN Head(tasks) /\ TaskUnchanged /\ tasks' = Tail(tasks)
      /\ UNCHANGED <<signals, file>>  BY DEF ImportTaskPut, TaskDone
<1>4. /\ tasks # <<>> /\ EventLoop /\ Tail(tasks) = <<>> /\ Marks = {} /\ Shown = {}
      /\ store.flushes = {} /\ store.notifiers = {} /\ ImportJob
      /\ Flags(FALSE, TRUE, FALSE, FALSE) /\ Begun(Head(tasks))  BY <1>3, ImportTask
<1>5. EventStep /\ EventTime' /\ UNCHANGED <<session, windows>> /\ Shown' = Shown /\ Open(Sigs, windows.progress)
  BY <1>3, <1>4, TaskEvent
<1>6. PICK id \in Nat : id = store.nextId  BY <1>2 DEF Stores
<1>7. store'.flushes = {} /\ store'.saving = FALSE /\ store'.modified = TRUE /\ store'.notifiers = {id}
  <2> DEFINE put == Put(store, t, TRUE)
  <2>1. put \in Stores /\ put.notifiers = {}  BY <1>2, <1>4, PutType
  <2>2. store' = [put EXCEPT !.notifiers = put.notifiers \union {store.nextId}]  BY <1>1 DEF PutNotify
  <2> HIDE DEF put
  <2>3. store'.notifiers = put.notifiers \union {store.nextId}  BY <2>1, <2>2 DEF Stores
  <2> QED  BY <1>6, <2>1, <2>3, <1>1, <1>2, <1>4, PutNotifyType DEF Flags
<1>8. SigsFit' /\ Live' = Live  BY <1>3, <1>5, SigsKept DEF Moves, SigsFit, EventStep, TickKept
<1>9. At({}, {}, <<>>, {id}, {})'  BY <1>3, <1>4, <1>5, <1>7, <1>8, LiveFacts DEF At
<1>10. ImportJob'  BY <1>7, <1>9, <1>4, <1>5 DEF AtNotifier, Flags, ImportJob
<1>11. Working' /\ Working  BY <1>4, <1>7, WaitingTask DEF Working, JobState
<1>12. WindowInv'  BY <1>5, <1>8, <1>11, LiveFacts DEF WindowInv, JobState, EventStep
<1> QED  BY <1>3, <1>4, <1>7, <1>8, <1>10, <1>12 DEF JobState, JobInv

LEMMA TaskJob ==
    ASSUME TypeOK, JobState, NothingToLoad, TaskStep
    PROVE  JobState'
<1>1. ~LoadTask  BY HeadFacts DEF TypeOK, LoadTask, TaskTurn, NothingToLoad
<1> QED
  BY <1>1, SandboxJob, StartWritingJob, WriteErrorJob, WriteKeyJob, FinishWritingJob, StartImportTaskJob,
     ImportTaskErrorJob, ImportTaskPutJob DEF TaskStep

-----------------------------------------------------------------------------
\* Other steps.

LEMMA OtherJob ==
    ASSUME TypeOK, JobState, UNCHANGED <<store, session, windows, signals, tasks, file>>,
           tick' = tick \/ Tick \/ CloseCrashDialog
    PROVE  JobState'
<1>1. CASE tick' = tick  BY <1>1, QuietTick DEF JobState, SigsFit, SignalsInv, PcInv, EventTime
<1>2. CASE Tick
  <2>1. tick.pc = "idle" /\ tick'.pc = "commands" /\ tick'.sigs = tick.sigs
    BY <1>2 DEF Tick, TickStart, EventLoop, TypeOK, Ticks
  <2> QED  BY <2>1, QuietTick DEF JobState, SigsFit, SignalsInv, PcInv, EventTime
<1>3. CASE CloseCrashDialog  BY <1>3, QuietTick DEF CloseCrashDialog, TypeOK, Ticks, PcInv, EventTime
<1> QED  BY <1>1, <1>2, <1>3

\* Every step keeps the job in its place, or moves it to the next one.
LEMMA JobStep ==
    ASSUME TypeOK, TypeOK', JobState, Sound(Flow), NumbersInv, NothingToLoad, [Next]_vars
    PROVE  JobState'
<1>1. CASE Next
  <2>1. CASE UserStep  BY <2>1, UserJob
  <2>2. CASE CommandStep  BY <2>2, CommandJob
  <2>3. CASE SignalStep  BY <2>3, SignalJob
  <2>4. CASE TaskStep  BY <2>4, TaskJob
  <2>5. CASE AudioStep \/ MainHalts \/ MainDone \/ Stopped
    <3>1. UNCHANGED <<store, session, windows, signals, tasks, file, tick>>
      BY <2>5 DEF AudioStep, MainHalts, MainDone, Stopped, MainUnchanged, uiVars, history, vars
    <3> QED  BY <3>1, OtherJob
  <2>6. CASE Tick \/ CloseCrashDialog  BY <2>6, OtherJob DEF Tick, TickStart, CloseCrashDialog, history
  <2> QED  BY <1>1, <2>1, <2>2, <2>3, <2>4, <2>5, <2>6 DEF Next
<1>2. CASE UNCHANGED vars  BY <1>2, OtherJob DEF vars, uiVars, history
<1> QED  BY <1>1, <1>2

-----------------------------------------------------------------------------
\* While a module is loaded: the progress window is there from the task
\* that asks for the module to the last reply.

LoadWindow ==
    /\ tasks # <<>> => Closed(Sigs, windows.progress)
    /\ LoadUnderWay => Open(Sigs, windows.progress)

LEMMA NextWindow ==
    /\ Closed(Sigs, windows.progress)' <=> ~windows'.progress /\ Live' \intersect ProgressNames = {}
    /\ Open(Sigs, windows.progress)' <=>
        (windows'.progress \/ "progress_start" \in Live') /\ "progress_finished" \notin Live'
BY LiveFacts DEF Live, Solid, ProgressNames, Closed

LEMMA UnderWayKept ==
    ASSUME TypeOK, UiKinds \/ AudioKinds, ~PutsLoad, LoadUnderWay'
    PROVE  LoadUnderWay
<1>1. audioQ \in Seq(Commands) /\ store.nextId \in Nat  BY DEF TypeOK, AudioTypeOK, Stores
<1>2. ASSUME NEW m \in Items(Flow)', m.op \in LoadReplies, Items(Flow)' \subseteq Items(Flow) PROVE LoadUnderWay
  BY <1>2 DEF LoadUnderWay
<1>3. ASSUME audioQ' = audioQ, engine'.doing = engine.doing \/ engine'.doing = Idle,
             \A m \in Items(Flow)' : m.op \in LoadReplies => m \in Items(Flow)
      PROVE  LoadUnderWay  BY <1>3 DEF LoadUnderWay, Idle
<1>4. ASSUME NEW c \in Commands, c.op # "load_module", audioQ' = Append(audioQ, c), engine' = engine,
             \A m \in Items(Flow)' : m.op \in LoadReplies => m \in Items(Flow)
      PROVE  LoadUnderWay  BY <1>4, WaitingSent DEF LoadUnderWay
<1>5. ASSUME TakesHead, engine'.doing.op \in {"load", "entries"} => audioQ[1].op = "load_module",
             \A m \in Items(Flow)' : m.op \in LoadReplies => m \in Items(Flow)
      PROVE  LoadUnderWay  BY <1>1, <1>5, HeadFacts DEF TakesHead, LoadUnderWay
<1>6. ASSUME engine.doing.op \in {"load", "entries"} PROVE LoadUnderWay  BY <1>6 DEF LoadUnderWay
<1>7. CASE UiKinds
  <2>1. CASE QuietStep  BY <1>3, <2>1 DEF QuietStep, FlowKept, AudioKept
  <2>2. ASSUME NEW a \in Replies, TakesReply(a) \/ TakesFlush(a) \/ TakesConfirm(a) \/ TakesEntry(a) PROVE LoadUnderWay
    BY <1>3, <2>2 DEF TakesReply, TakesFlush, TakesConfirm, TakesEntry, FlowTakes, AudioKept
  <2>3. ASSUME NEW t \in Transactions, PutsData(t) PROVE LoadUnderWay
    <3> DEFINE c == SetDataCommand(store.nextId, t)
    <3> HIDE DEF c
    <3> QED  BY <1>4, <2>3, <1>1 DEF PutsData, FlowKept, SetDataCommand, Commands, c
  <2>4. ASSUME NEW call \in {"save", "export"}, PutsFlush(call) PROVE LoadUnderWay
    <3> DEFINE c == SetDataCommand(store.nextId, None)
    <3> HIDE DEF c
    <3> QED  BY <1>4, <2>4, <1>1 DEF PutsFlush, FlowKept, AudioKept, SetDataCommand, Commands, c
  <2>5. ASSUME NEW a \in Replies, TakesFinish(a) PROVE LoadUnderWay
    BY <2>5 DEF TakesFinish, FlowTakes, LoadUnderWay, LoadReplies
  <2>6. CASE PutsHalt  BY <2>6, <1>4 DEF HaltCommand, Commands, PutsHalt, FlowGrows, Reply, LoadReplies
  <2> QED  BY <1>7, <2>1, <2>2, <2>3, <2>4, <2>5, <2>6 DEF UiKinds
<1>8. CASE AudioKinds
  <2>1. CASE FlowKept /\ AudioKept  BY <1>3, <2>1 DEF FlowKept, AudioKept
  <2>2. CASE TakesHalt  BY <1>5, <2>2 DEF TakesHalt, FlowKept, EngineBecomes, Idle
  <2>3. CASE TakesToken
    BY <1>5, <2>3 DEF TakesToken, FlowGrows, EngineBecomes, Idle, Confirmation, ReplyId, LoadReplies
  <2>4. CASE TakesData  BY <1>5, <2>4 DEF TakesData, FlowKept, EngineBecomes
  <2>5. CASE TakesLoad  BY <1>5, <2>5 DEF TakesLoad, FlowKept
  <2>6. ASSUME NEW k \in Keys, SetsKey(k) PROVE LoadUnderWay
    BY <2>6, EngineFacts, DoingFacts DEF LoadUnderWay, SetsKey, EngineBecomes, FlowGrows, ReplyId, LoadReplies
  <2>7. CASE SetsAll  BY <1>3, <2>7 DEF SetsAll, FlowGrowsBy, EngineBecomes, Confirmation, ReplyId, LoadReplies
  <2>8. CASE EngineEnds  BY <1>3, <2>8 DEF EngineEnds, FlowKept
  <2>9. CASE EngineDies  BY <1>3, <2>9 DEF EngineDies, FlowGrows, Reply, LoadReplies
  <2>10. CASE LoadKinds /\ ~TakesLoad
    BY <1>6, <2>10 DEF LoadKinds, LoadsKey, LoadFails, Validates, SendsEntry, LoadEnds
  <2> QED  BY <1>8, <2>1, <2>2, <2>3, <2>4, <2>5, <2>6, <2>7, <2>8, <2>9, <2>10 DEF AudioKinds, SetDataKinds
<1> QED  BY <1>7, <1>8

\* A step that leaves the window alone.
LEMMA QuietLoad ==
    ASSUME LoadWindow, Moves(Live), windows'.progress = windows.progress, tasks' = tasks, LoadUnderWay' => LoadUnderWay
    PROVE  SigsFit' /\ LoadWindow'
BY NextWindow, LiveFacts DEF Moves, SigsFit, LoadWindow

LEMMA QuietLoadTick ==
    ASSUME TypeOK, SigsFit, LoadWindow, UNCHANGED signals, tick'.sigs = tick.sigs, windows'.progress = windows.progress,
           PcInv', tick'.pc = "updates" => tick.pc = "updates", tasks' = tasks, LoadUnderWay' => LoadUnderWay
    PROVE  SigsFit' /\ LoadWindow'
    BY SigsKept, QuietLoad

LEMMA CrashLoad ==
    ASSUME TypeOK, SigsFit, LoadWindow, NEW name, Crash(name), LoadUnderWay' => LoadUnderWay
    PROVE  SigsFit' /\ LoadWindow'
BY QuietLoadTick DEF Crash, TypeOK, Ticks, PcInv

LEMMA HideMainLoad ==
    ASSUME TypeOK, SigsFit, LoadWindow, HideMain, PcInv', TickKept, EventTime, tasks' = tasks, LoadUnderWay' => LoadUnderWay
    PROVE  SigsFit' /\ LoadWindow'
BY SigsRaised, LiveFacts, QuietLoad DEF TypeOK, SignalNames, HideMain, Windows, MayRaise, EventStep

LoadState == SigsFit /\ LoadWindow

LEMMA NotPutsLoad ==
    ASSUME TypeOK, tasks' = tasks
    PROVE  ~PutsLoad
BY HeadFacts DEF TypeOK, PutsLoad

LEMMA LoadUserWindow ==
    ASSUME TypeOK, LoadState, Untouched, UserStep, LoadUnderWay' => LoadUnderWay
    PROVE  LoadState' /\ failure' = failure
<1>1. /\ ~windows.enabled /\ windows.dialogs \subseteq {"load_error"} /\ store.modified = FALSE  BY UntouchedFacts
<1>2. ~UserMay /\ "exit" \notin windows.dialogs  BY <1>1 DEF UserMay
<1>3. CASE TryExit  BY <1>1, <1>3, UserTick, HideMainLoad DEF TryExit, history, LoadState
<1>4. CASE \E d \in windows.dialogs : CloseErrorDialog(d)
  BY <1>1, <1>4, UserTick, QuietLoadTick DEF CloseErrorDialog, history, Windows, LoadState, TypeOK
<1> QED
  BY <1>2, <1>3, <1>4 DEF UserStep, Edit, EditFails, Save, StartImport, StartExport, StartFails, ExitCancel,
     ExitDiscard, ExitSave, ExitSaveFails

\* Nothing is left of a load that failed.
LEMMA LoadFailed ==
    ASSUME TypeOK, TypeOK', LoadInv, Sound(Flow), ImportError
    PROVE  ~LoadUnderWay'
<1>1. tick.cmds # <<>> /\ Command.op = "import_error" /\ CommandDone /\ UNCHANGED audioVars /\ UNCHANGED outQ
  BY DEF ImportError, NextCommand, IsNext
<1>2. UNCHANGED <<outQ, inQ, inPending, audioQ, engine>>  BY <1>1 DEF audioVars
<1>3. Command \in Items(Flow) /\ \A m \in Items(Flow)' : ~Bad(Command, m)
  BY <1>1, NextOnItsWay, <1>2, FlowCommandTaken DEF FlowTakes, CommandDone, TypeOK, Ticks
<1>4. ~ToLoad /\ engine.doing.op \notin {"load", "entries"}
  BY <1>1, <1>3 DEF LoadInv, NotBegun, Reading, Sending, LoadReplies
<1> QED  BY <1>2, <1>4, <1>1, <1>3 DEF LoadUnderWay, Bad, LoadReplies, ToLoad

LEMMA LoadCommandWindow ==
    ASSUME TypeOK, TypeOK', LoadState, LoadInv, Sound(Flow), Loading,
           CommandStep, ~ImportFinished, LoadUnderWay' => LoadUnderWay
    PROVE  LoadState' /\ failure' \in {failure, "exception"}
<1>1. Untouched /\ RepliesOfLoad /\ tick \in Ticks /\ windows \in Windows  BY DEF LoadInv, TypeOK
<1>2. store.saving = FALSE /\ store.pending = <<>>  BY <1>1, UntouchedFacts
<1>3. ~ConfirmFlush /\ ~Confirm /\ ~Progress /\ ~ProgressDone
  BY <1>1, NextOnItsWay DEF ConfirmFlush, Confirm, Progress, ProgressDone, NextCommand, IsNext, RepliesOfLoad
<1>4. tick.pc = "commands" /\ CommandDone => PcInv' /\ TickKept /\ EventTime /\ EventTime'
  BY CommandTick DEF LoadState
<1>5. CASE NextList
  <2>1. tick'.pc = "commands" /\ tick.pc = "commands" /\ tick'.sigs = tick.sigs  BY <1>1, <1>5 DEF NextList, Ticks
  <2> QED  BY <2>1, QuietLoadTick, <1>5 DEF LoadState, NextList, history, SigsFit, SignalsInv, PcInv
<1>6. CASE ImportProgress
  <2>1. tick.pc = "commands" /\ tick.cmds # <<>> /\ CommandDone /\ Command.op = "import_progress"
    BY <1>6 DEF ImportProgress, NextCommand, IsNext
  <2>2. Raise("progress_step") /\ UNCHANGED <<windows, tasks, failure>>  BY <1>6 DEF ImportProgress, history
  <2>3. Open(Sigs, windows.progress)  BY <2>1, NextOnItsWay DEF LoadState, LoadWindow, LoadUnderWay, LoadReplies
  <2>4. tasks = <<>>  BY <2>3 DEF LoadState, LoadWindow, Open, Closed, ProgressNames
  <2> QED  BY <2>2, <2>4, <2>3, SteppedSigs, <1>4, <2>1 DEF LoadState, LoadWindow, EventStep
<1>7. CASE ImportError
  <2>1. tick.pc = "commands" /\ tick.cmds # <<>> /\ CommandDone /\ Command.op = "import_error"
    BY <1>7 DEF ImportError, NextCommand, IsNext
  <2>2. RaiseBoth("load_error", "progress_finished") /\ UNCHANGED <<windows, tasks, failure>>
    BY <1>7 DEF ImportError, history
  <2>3. Open(Sigs, windows.progress)  BY <2>1, NextOnItsWay DEF LoadState, LoadWindow, LoadUnderWay, LoadReplies
  <2>4. /\ "load_error" \in SignalNames /\ "progress_finished" \in SignalNames
        /\ MayRaise(Sigs, windows.progress, "load_error") /\ MayRaise(Sigs, windows.progress, "progress_finished")
        /\ "load_error" \notin ProgressNames  BY <2>3 DEF SignalNames, ErrorSignals, MayRaise, ProgressNames
  <2>5. SigsFit'  BY <2>2, <2>4, SigsRaisedBoth, <1>4, <2>1 DEF Moves, SigsFit, EventStep, LoadState
  <2>6. tasks = <<>>  BY <2>3 DEF LoadState, LoadWindow, Open, Closed, ProgressNames
  <2> QED  BY <2>2, <2>5, <2>6, <1>7, LoadFailed DEF LoadState, LoadWindow
<1>8. CASE ImportedEntry  BY <1>2, <1>8, <1>4, QuietLoadTick DEF ImportedEntry, IsNext, history, LoadState, TickKept
<1>9. CASE ExceptionShown  BY <1>9, CrashLoad DEF ExceptionShown, Crash, LoadState
<1>10. CASE HaltUi
  <2>1. tick'.pc = "commands" /\ tick.pc = "commands" /\ tick'.sigs = tick.sigs  BY <1>1, <1>10 DEF HaltUi, Ticks
  <2>2. PcInv' /\ TickKept /\ EventTime  BY <2>1 DEF LoadState, SigsFit, SignalsInv, PcInv, TickKept, EventTime
  <2> QED  BY <2>2, HideMainLoad, <1>10 DEF LoadState, HaltUi, history
<1> QED  BY <1>3, <1>5, <1>6, <1>7, <1>8, <1>9, <1>10 DEF CommandStep

LEMMA HandledWindow ==
    ASSUME TypeOK, LoadState, NEW name, Handles(name), name # "visibility", tasks' = tasks, LoadUnderWay' => LoadUnderWay
    PROVE  LoadState'
<1>1. windows.progress \in BOOLEAN /\ tick.sigs \in Seq(SignalNames)  BY DEF TypeOK, Windows, Ticks
<1>2. name \in ProgressNames => windows.progress = (name # "progress_start")
  BY <1>1, DroppedFits, HeadFacts DEF LoadState, SigsFit, Handles, OnSignal, Sigs
<1>3. Moves(Live \ {name}) /\ name \in Live  BY SigsHandled DEF LoadState
<1>4. SigsFit' /\ Live' = Live \ {name}  BY <1>3 DEF Moves, SigsFit
<1>5. windows'.progress = Taking(windows.progress, name)  BY DEF Handles
<1>6. Open(Sigs, windows.progress) => Open(Sigs, windows.progress)'
  BY <1>3, <1>4, <1>5, LiveFacts, <1>2 DEF Taking, ProgressNames
<1> QED  BY <1>4, <1>6, <1>3, <1>5, NextWindow, LiveFacts DEF LoadState, LoadWindow, Taking

LEMMA LoadSignalWindow ==
    ASSUME TypeOK, LoadState, Untouched, SignalStep, tasks' = tasks, LoadUnderWay' => LoadUnderWay
    PROVE  LoadState' /\ failure' = failure
<1>1. tick \in Ticks /\ windows \in Windows /\ windows.progress \in BOOLEAN /\ tick.sigs \in Seq(SignalNames)
  BY DEF TypeOK, Windows, Ticks
<1>2. \A name : OnSignal(name) => name \in LoadSignals  BY NextSignal, UntouchedFacts
<1>3. CASE StartUpdates  BY <1>1, <1>3, SigsTaken, QuietLoad DEF StartUpdates, Ticks, history, PcInv, LoadState
<1>4. ~OnStartSave /\ ~OnStartExport  BY <1>2 DEF OnStartSave, OnStartExport, OnStart, LoadSignals
<1>5. ~OnStartImport /\ ~OnSaveFinished /\ ~OnExportFinished /\ ~OnImportFinished /\ ~OnModule
  <2>1. \A name \in {"start_import_au", "save_finished", "export_finished", "au_import_finished", "module"} :
          ~OnSignal(name)  BY <1>2 DEF LoadSignals
  <2> QED  BY <2>1 DEF OnStartImport, OnSaveFinished, OnExportFinished, OnImportFinished, OnModule
<1>6. CASE OnError
  <2>1. PICK name \in ErrorSignals :
          OnSignal(name) /\ SignalDone /\ windows' = [windows EXCEPT !.dialogs = windows.dialogs \union {name}]
    BY <1>6 DEF OnError
  <2>2. UNCHANGED <<signals, failure>>  BY <1>6 DEF OnError, history
  <2> QED  BY <2>2, HandledWindow, <2>1, <1>1 DEF Handles, Taking, Windows, ErrorSignals, ProgressNames
<1>7. CASE OnProgress
  <2>1. PICK name \in ProgressNames :
          /\ OnSignal(name)
          /\ IF windows.progress = (name # "progress_start")
             THEN /\ SignalDone
                  /\ windows' = [windows EXCEPT !.progress = (name # "progress_finished")]
                  /\ UNCHANGED <<audioVars, store, session, signals, tasks, outQ, qState, main, history>>
             ELSE Crash("progress")  BY <1>7 DEF OnProgress, ProgressNames
  <2>2. SignalDone /\ windows' = [windows EXCEPT !.progress = (name # "progress_finished")] /\ UNCHANGED <<signals, failure>>
    BY <2>1, <1>1, DroppedFits, HeadFacts DEF history, LoadState, SigsFit, OnSignal, Sigs
  <2> QED  BY <2>2, HandledWindow, <2>1, <1>1 DEF Handles, Taking, ProgressNames, Windows
<1>8. CASE OnVisibility
  <2>1. OnSignal("visibility") /\ UNCHANGED <<windows, signals, failure>>  BY <1>8 DEF OnVisibility, history
  <2>2. CASE windows.visible  BY <1>8, <2>1, <2>2, SigsHandledLater, QuietLoad DEF OnVisibility, LoadState
  <2>3. CASE ~windows.visible  BY <1>1, <1>8, <2>3, <2>1, QuietLoadTick DEF OnVisibility, Ticks, PcInv, LoadState
  <2> QED  BY <2>2, <2>3
<1>9. CASE EndTick
  <2>1. /\ tick'.pc = "idle" /\ tick'.sigs = <<>> /\ tick.sigs = <<>> /\ tick'.cmds = tick.cmds /\ tick.pc = "updates"
        /\ UNCHANGED <<windows, signals, failure>>  BY <1>1, <1>9 DEF EndTick, Ticks, history
  <2> QED  BY <2>1, QuietLoadTick DEF LoadState, PcInv, SigsFit, SignalsInv
<1> QED  BY <1>3, <1>4, <1>5, <1>6, <1>7, <1>8, <1>9 DEF SignalStep

LEMMA LoadTaskWindow ==
    ASSUME TypeOK, LoadState, Untouched, TaskStep
    PROVE  LoadState' /\ failure' = failure
<1>1. tasks # <<>> => Head(tasks).op = "load" /\ Tail(tasks) = <<>>  BY UntouchedFacts
<1>2. LoadTask
  BY <1>1 DEF TaskStep, SandboxTask, StartWriting, WriteError, WriteKey, FinishWriting, StartImportTask,
     ImportTaskError, ImportTaskPut, TaskTurn, WriteTask
<1>3. /\ tasks # <<>> /\ tasks' = <<>> /\ Raise("progress_start") /\ UNCHANGED <<windows, tick, failure>> /\ EventLoop
  BY <1>1, <1>2 DEF LoadTask, TaskTurn, TaskDone, TaskUnchanged
<1>4. Closed(Sigs, windows.progress)  BY <1>3 DEF LoadState, LoadWindow
<1>5. Moves((Live \union {"progress_start"}) \ {"visibility"})
  BY <1>3, SigsRaised, UserTick, <1>4 DEF EventStep, LoadState, MayRaise, SignalNames
<1> QED  BY <1>3, LiveFacts, <1>4, <1>5 DEF LoadState, LoadWindow, ProgressNames, Moves, SigsFit

\* The module is there: it remains to set the windows up.
LEMMA LoadEndsJob ==
    ASSUME TypeOK, TypeOK', LoadState, Loading, LoadInv, file = None, ImportFinished
    PROVE  JobState' /\ SettingUp' /\ failure' = failure
<1>1. Untouched /\ store \in Stores /\ store.content \in Contents  BY DEF LoadInv, TypeOK, Stores
<1>2. /\ store.notifiers = {} /\ store.flushes = {} /\ store.saving = FALSE /\ store.modified = FALSE
      /\ ~session.saving /\ ~session.importing /\ ~windows.enabled /\ windows.dialogs \subseteq {"load_error"}
      /\ Raised \subseteq LoadSignals  BY <1>1, UntouchedFacts
<1>3. tick.pc = "commands" /\ tick.cmds # <<>> /\ CommandDone /\ Command.op = "import_finished"
  BY DEF ImportFinished, NextCommand, IsNext
<1>4. /\ RaiseBoth("module", "progress_finished") /\ UNCHANGED <<session, windows, tasks, failure, file>>
  BY DEF ImportFinished
<1>5. LoadUnderWay /\ FinishSent  BY <1>3, NextOnItsWay DEF LoadUnderWay, LoadReplies, FinishSent
<1>6. tasks = <<>>  BY <1>5 DEF LoadInv, Finished, ToLoad
<1>7. /\ "module" \in SignalNames /\ "progress_finished" \in SignalNames
      /\ MayRaise(Sigs, windows.progress, "module") /\ MayRaise(Sigs, windows.progress, "progress_finished")
      /\ "module" \notin ProgressNames  BY <1>5 DEF SignalNames, MayRaise, ProgressNames, LoadState, LoadWindow
<1>8. Moves((Live \union {"module", "progress_finished"}) \ {"visibility"})
  BY <1>4, <1>7, SigsRaisedBoth, <1>3, CommandTick DEF EventStep, LoadState
<1>9. SigsFit' /\ Live' = Live \union {"module", "progress_finished"}  BY <1>8, LiveFacts DEF Moves, SigsFit
<1>10. Live \intersect JobSignals = {}  BY <1>2 DEF Sigs, Raised, Names, Live, Solid, LoadSignals, JobSignals
<1>11. Marks' = {"module"}  BY <1>9, <1>10, LiveFacts DEF JobSignals
<1>12. /\ store'.notifiers = {} /\ store'.flushes = {} /\ store'.saving = FALSE /\ store'.modified = FALSE
  <2> DEFINE cleared == ClearModified(store)
             hidden == [k \in {GridKey} |-> store.content[GridKey]]
  <2>1. cleared \in Stores /\ cleared.notifiers = {} /\ cleared.flushes = {} /\ cleared.saving = FALSE /\ cleared.modified = FALSE
    BY <1>1, <1>2 DEF ClearModified, Stores
  <2>2. CASE View(store)[GridKey] = None  BY <2>2, <2>1 DEF ImportFinished
  <2>3. CASE View(store)[GridKey] # None
    <3>1. store' = Put(cleared, hidden, FALSE)  BY <2>3 DEF ImportFinished
    <3>2. hidden \in Transactions
      <4>1. store.content[GridKey] \in Values \union {None}  BY <1>1, StampAssumption DEF Contents
      <4>2. hidden \in [{GridKey} -> Values \union {None}] /\ {GridKey} \in SUBSET Keys  BY <4>1, StampAssumption
      <4> QED  BY <4>2 DEF Transactions
    <3> HIDE DEF cleared, hidden
    <3> QED  BY <2>1, <3>1, <3>2, UnmarkedPut
  <2> QED  BY <2>2, <2>3
<1>13. WindowInv'  BY <1>9, LiveFacts, <1>4, <1>6, <1>12 DEF WindowInv, JobEnds, JobSignals, Working
<1>14. AtSignal("module")'  BY <1>2, <1>4, <1>6, <1>11, <1>12 DEF Shown, JobErrors, AtSignal, At
<1>15. SettingUp'  BY <1>2, <1>4, <1>12, <1>14, <1>1 DEF SettingUp, Flags, Untouched
<1> QED  BY <1>4, <1>9, <1>13, <1>15 DEF JobState, JobInv

\* Until the end of the load every step keeps the window.
LEMMA LoadWindowStep ==
    ASSUME TypeOK, TypeOK', LoadState, Loading, LoadInv, Sound(Flow), file = None, [Next]_vars
    PROVE  /\ failure' \in {failure, "exception"}
           /\ LoadState' \/ (ImportFinished /\ JobState' /\ SettingUp')
<1>1. Untouched /\ RepliesOfLoad /\ HaltsAlone(Flow)  BY DEF LoadInv, Sound
<1>2. ASSUME tasks' = tasks PROVE LoadUnderWay' => LoadUnderWay
  BY <1>1, UiStepKinds, AudioStepKinds, <1>2, NotPutsLoad, UnderWayKept
<1>3. CASE UNCHANGED <<windows, signals, tasks, tick, failure>>
  BY <1>3, <1>2, QuietLoadTick DEF LoadState, SigsFit, SignalsInv, PcInv
<1>4. CASE AudioStep \/ MainHalts \/ MainDone \/ Stopped \/ UNCHANGED vars
  <2>1. UNCHANGED <<windows, signals, tasks, tick, failure>>
    BY <1>4 DEF AudioStep, MainHalts, MainDone, Stopped, MainUnchanged, uiVars, history, vars
  <2> QED  BY <1>3, <2>1
<1>5. CASE Tick
  <2>1. /\ tick.pc = "idle" /\ tick'.pc = "commands" /\ tick'.sigs = tick.sigs
        /\ UNCHANGED <<windows, signals, tasks, failure>>
    BY <1>5 DEF Tick, TickStart, EventLoop, TypeOK, Ticks, history
  <2> QED  BY <1>2, <2>1, QuietLoadTick DEF LoadState, SigsFit, SignalsInv, PcInv
<1>6. CASE CloseCrashDialog
  BY <1>6, <1>2, QuietLoadTick DEF CloseCrashDialog, TypeOK, Ticks, history, PcInv, LoadState
<1>7. CASE UserStep  BY <1>1, <1>7, LoadingUser, <1>2, LoadUserWindow
<1>8. CASE CommandStep /\ ~ImportFinished  BY <1>1, <1>8, LoadingCommand, <1>2, LoadCommandWindow
<1>9. CASE ImportFinished  BY <1>9, LoadEndsJob
<1>10. CASE SignalStep  BY <1>1, <1>10, LoadingSignal, <1>2, LoadSignalWindow
<1>11. CASE TaskStep  BY <1>1, <1>11, LoadTaskWindow
<1> QED  BY <1>4, <1>5, <1>6, <1>7, <1>8, <1>9, <1>10, <1>11 DEF Next

-----------------------------------------------------------------------------
\* The jobs as an invariant.
JobLayer ==
    /\ Loading => LoadState /\ file = None
    /\ ~Loading => JobState
    /\ failure \notin {"key", "progress"}

\* Few actions touch the history.
LEMMA HistoryKept ==
    ASSUME [Next]_vars
    PROVE  /\ FinishWriting \/ file' = file
           /\ Confirm \/ ImportFinished \/ confirmed' = confirmed
           /\ WriteKey \/ OnProgress \/ failure' \in {failure, "put", "start", "confirm", "put_raw", "exception"}
<1> DEFINE Kept == file' = file /\ confirmed' = confirmed
           Fails == failure' \in {failure, "put", "start", "confirm", "put_raw", "exception"}
<1>1. \A name : Crash(name) => Kept /\ failure' = name  BY DEF Crash
<1>2. AudioStep \/ CloseCrashDialog \/ Tick \/ MainHalts \/ MainDone \/ Stopped \/ UNCHANGED vars => Kept /\ Fails
  BY DEF AudioStep, CloseCrashDialog, Tick, TickStart, MainHalts, MainDone, Stopped, MainUnchanged, vars, history
<1>3. UserStep => Kept /\ Fails
  BY <1>1 DEF UserStep, Edit, EditFails, Save, StartImport, StartExport, StartFails, TryExit, ExitCancel, ExitDiscard,
     ExitSave, ExitSaveFails, CloseErrorDialog, history
<1>4. CommandStep => file' = file /\ (Confirm \/ ImportFinished \/ confirmed' = confirmed) /\ Fails
  BY <1>1 DEF CommandStep, NextList, ConfirmFlush, Confirm, Progress, ProgressDone, ImportProgress, ImportedEntry,
     ImportError, ImportFinished, ExceptionShown, HaltUi, history
<1>5. \A name, call : OnStart(name, call) => Kept /\ Fails  BY DEF OnStart, history
<1>6. SignalStep => Kept /\ (OnProgress \/ Fails)
  BY <1>1, <1>5 DEF SignalStep, StartUpdates, OnStartSave, OnStartExport, OnStartImport, OnSaveFinished,
     OnExportFinished, OnImportFinished, OnError, OnModule, OnProgress, OnVisibility, EndTick, history
<1>7. TaskStep => (FinishWriting \/ file' = file) /\ confirmed' = confirmed /\ (WriteKey \/ Fails)
  BY <1>1 DEF TaskStep, LoadTask, SandboxTask, StartWriting, WriteError, WriteKey, FinishWriting, StartImportTask,
     ImportTaskError, ImportTaskPut, TaskUnchanged
<1> QED  BY <1>2, <1>3, <1>4, <1>6, <1>7 DEF Next

\* A module is loaded until it is there.
LEMMA StillLoading ==
    ASSUME TypeOK, TypeOK', Loading, LoadInv, [Next]_vars, ~ImportFinished
    PROVE  Loading' /\ file' = file
<1>1. Untouched /\ RepliesOfLoad  BY DEF LoadInv
<1>2. confirmed' = confirmed /\ file' = file
  BY HistoryKept, <1>1, UntouchedFacts, NextOnItsWay DEF FinishWriting, WriteTask, RepliesOfLoad, Confirm, IsNext
<1>3. store'.pending = <<>>
  <2>1. CASE AudioStep  BY <2>1 DEF AudioStep, uiVars, Loading
  <2>2. CASE ~AudioStep
    <3> DEFINE c == store'.content
    <3> HIDE DEF c
    <3> QED  BY FreshStore, <1>1, <2>2, LoadingUi DEF TypeOK, c, Untouched
  <2> QED  BY <2>1, <2>2
<1> QED  BY <1>2, <1>3 DEF Loading

LEMMA JobLayerStep ==
    ASSUME TypeOK, IInv, JobLayer, [Next]_vars
    PROVE  JobLayer'
<1>1. TypeOK' /\ IInv'  BY TypeStep, InvStep
<1>2. Sound(Flow) /\ NumbersInv  BY DEF IInv
<1>3. CASE Loading
  <2>1. LoadInv /\ LoadState /\ file = None  BY <1>3 DEF JobLayer, IInv
  <2>2. /\ failure' \in {failure, "exception"}
        /\ LoadState' \/ (ImportFinished /\ JobState' /\ SettingUp')  BY <1>1, <1>2, <1>3, <2>1, LoadWindowStep
  <2>3. CASE ImportFinished
    <3>1. JobState'  BY <1>1, <1>3, <2>1, <2>3, LoadEndsJob
    <3> QED  BY <2>2, <3>1, <1>3, <2>3 DEF JobLayer, Loading, ImportFinished
  <2>4. CASE ~ImportFinished  BY <1>1, <1>3, <2>1, <2>4, StillLoading, <2>2 DEF JobLayer
  <2> QED  BY <2>3, <2>4
<1>4. CASE ~Loading
  <2>1. NothingToLoad /\ JobState  BY <1>4 DEF JobLayer, IInv, EditInv
  <2>2. failure' \notin {"key", "progress"}  BY <2>1, WriteKeyJob, OnProgressJob, HistoryKept DEF JobLayer
  <2> QED  BY <2>2, <1>1, <1>2, <2>1, JobStep, <1>4, EditingStep DEF JobLayer
<1> QED  BY <1>3, <1>4

LEMMA JobLayerStarts ==
    ASSUME Init
    PROVE  JobLayer
<1>1. /\ confirmed = 0 /\ file = None /\ failure = "none"
      /\ session = [saving |-> FALSE, importing |-> FALSE, exporting |-> FALSE, quitAfter |-> FALSE]
      /\ windows = [enabled |-> FALSE, progress |-> FALSE, dialogs |-> {}, visible |-> TRUE]
      /\ signals = NoSignals
      /\ tick = [pc |-> "idle", lists |-> 0, cmds |-> <<>>, sigs |-> <<>>]  BY DEF Init
<1>2. /\ ~session.saving /\ ~session.importing /\ ~session.exporting /\ ~windows.enabled /\ ~windows.progress
      /\ windows.dialogs = {} /\ signals.now = <<>> /\ signals.later = <<>>
      /\ tick.pc = "idle" /\ tick.cmds = <<>> /\ tick.sigs = <<>>  BY <1>1 DEF NoSignals
<1>3. NamesIn(<<>>) = {} /\ Once(<<>>) /\ \A shown \in BOOLEAN : Fits(<<>>, shown)  BY DEF NamesIn, Once, Fits, Framed
<1>4. Sigs = <<>>  BY <1>2 DEF Sigs
<1>5. SigsFit
  <2>1. Fits(Sigs, windows.progress)  BY <1>3, <1>4, InitTypes, InvStart DEF TypeOK, Windows
  <2> QED  BY <1>2, <2>1, <1>3 DEF SigsFit, SignalsInv, PcInv, Calm
<1>6. Live = {} /\ Marks = {} /\ Closed(Sigs, windows.progress)  BY <1>2, <1>3, <1>4 DEF Live, Solid, Marks, Closed
<1>7. CASE store = NewStore /\ AudioInit(<<>>) /\ tasks = <<[op |-> "load"]>>
  <2>1. LoadState  BY <1>5, <1>6, <1>7, StartFlow, StartFacts DEF LoadState, LoadWindow, AudioInit, LoadUnderWay
  <2> QED  BY <1>1, <2>1, <1>7 DEF JobLayer, Loading, NewStore
<1>8. CASE store = Put(NewStore, SandboxData, TRUE) /\ AudioInit(<<SetDataCommand(0, SandboxData)>>) /\ tasks = <<[op |-> "sandbox"]>>
  <2> DEFINE task == [op |-> "sandbox"]
             t == SandboxData
  <2>1. NewStore \in Stores /\ NewStore.flushes = {} /\ NewStore.notifiers = {} /\ NewStore.saving = FALSE /\ NewStore.pending = <<>>
    BY DEF Contents, NewStore, Stores
  <2>2. t \in Transactions /\ TRUE \in BOOLEAN /\ store = Put(NewStore, t, TRUE)  BY <1>8, DataTypes
  <2>3. tasks = <<task>> /\ "todo" \notin DOMAIN task /\ "begun" \notin DOMAIN task  BY <1>8
  <2> HIDE DEF task, t
  <2>4. store.flushes = {} /\ store.notifiers = {} /\ store.saving = FALSE  BY <2>1, <2>2, PutType
  <2>5. store.pending # <<>>
    <3>1. store.pending = Append(NewStore.pending, [id |-> NewStore.nextId, data |-> t])  BY <2>1, <2>2, PutType
    <3> QED  BY <2>1, <3>1
  <2>6. WindowInv  BY <1>6, LiveFacts, <2>3, <2>4 DEF WindowInv, Closed, ProgressNames, Working, Begun
  <2>7. AtTask(task)  BY <1>2, <1>6, <2>3, <2>4 DEF AtTask, At, Shown
  <2>8. SettingUp  BY <1>1, <1>2, <2>4, <2>7 DEF SettingUp, Flags, task
  <2> QED  BY <1>1, <1>5, <2>6, <2>8, <2>5 DEF JobLayer, JobState, JobInv, Loading
<1> QED  BY <1>7, <1>8 DEF Init

LEMMA JobsHold == Spec => [](TypeOK /\ IInv /\ JobLayer)
<1>1. Init => TypeOK /\ IInv /\ JobLayer  BY InitTypes, InvStart, JobLayerStarts
<1>2. TypeOK /\ IInv /\ JobLayer /\ [Next]_vars => (TypeOK /\ IInv /\ JobLayer)'  BY TypeStep, InvStep, JobLayerStep
<1> QED  BY <1>1, <1>2, PTL DEF Spec

\* MessagesComeAsAssumed: the assertions of store.py and rootview.py that
\* the two processes can only keep together never fail, whatever is saved,
\* imported or loaded meanwhile, and what the store answers is what will
\* be heard.
THEOREM MessagesComeAsAssumed == Spec => []ProcessesAgree
<1>1. TypeOK /\ IInv /\ JobLayer => TypeOK /\ ProtocolAssertionsHold  BY DEF IInv, JobLayer, ProtocolAssertionsHold
<1> QED  BY <1>1, JobsHold, UserSeesWhatIsHeard, PTL DEF ProcessesAgree

-----------------------------------------------------------------------------
\* The store and the audio process implement Replica.

Adopted == IF confirmed = 0 THEN NewStore.content ELSE store.content
Saved == IF file = None THEN None ELSE [k \in Keys |-> IF k \in DOMAIN file THEN file[k] ELSE None]

LEMMA ReplicaInit ==
    ASSUME Init
    PROVE  Replicated!Init
BY EditsAssumption, StartFacts DEF Replicated!Transactions, Transactions, Init, Replicated!Init, NewStore

\* What the steps are on the level of Replica.
LEMMA ReplicaPuts ==
    ASSUME NEW t \in Transactions, log' = Append(log, t), engine'.validated = engine.validated,
           confirmed' = confirmed, Adopted' = Adopted, Saved' = Saved
    PROVE  Replicated!Next
BY DEF Replicated!Transactions, Transactions, Replicated!Next, Replicated!Put, Adopted, Saved

LEMMA ReplicaStutters ==
    ASSUME log' = log, engine'.validated = engine.validated, confirmed' = confirmed, Adopted' = Adopted, Saved' = Saved
    PROVE  UNCHANGED Replicated!vars
    BY DEF Replicated!vars, Adopted, Saved

LEMMA ReplicaValidates ==
    ASSUME log' = log, engine'.validated = engine.validated + 1, engine.validated < Len(log), confirmed' = confirmed,
           Adopted' = Adopted, Saved' = Saved
    PROVE  Replicated!Next
    BY DEF Replicated!Next, Replicated!Validate, Adopted, Saved

LEMMA ReplicaAdopts ==
    ASSUME log' = log \/ \E t \in Transactions : log' = Append(log, t),
           engine'.validated = engine.validated, confirmed < engine.validated, confirmed' = confirmed + 1,
           Adopted' = Overlay(Adopted, log[confirmed + 1]), Saved' = Saved
    PROVE  Replicated!Next
BY DEF Replicated!Transactions, Transactions, Replicated!With, Overlay, Replicated!Next, Replicated!Adopt, Adopted,
   Saved

LEMMA ReplicaSaves ==
    ASSUME log' = log, engine'.validated = engine.validated, confirmed' = confirmed, confirmed = Len(log),
           Adopted' = Adopted, Saved' = Adopted
    PROVE  Replicated!Next
    BY DEF Replicated!Next, Replicated!Save, Adopted, Saved

\* A step of the audio process.
LEMMA ReplicaAudio ==
    ASSUME TypeOK, TypeOK', IInv, IInv', AudioStep
    PROVE  [Replicated!Next]_(Replicated!vars)
<1>1. /\ store' = store /\ tasks' = tasks /\ UNCHANGED <<file, log, confirmed>>  BY DEF AudioStep, uiVars, history
<1>2. AudioKinds  BY AudioStepKinds
<1>3. Adopted' = Adopted /\ Saved' = Saved /\ Loading' = Loading  BY <1>1 DEF Adopted, Saved, Loading
<1>4. CASE SetsAll
  <2>1. engine'.validated = engine.validated + 1 /\ engine.doing.op = "set_data"  BY <1>4 DEF SetsAll, EngineBecomes
  <2> QED  BY <1>1, <1>3, <2>1, ReplicaValidates, LogFacts DEF IInv, EditInv, LogInv, LoadInv
<1>5. CASE Validates
  <2>1. engine'.validated = engine.validated + 1 /\ engine.doing.op = "load"  BY <1>5 DEF Validates, EngineBecomes
  <2>2. engine.validated = 0 /\ tasks = <<>> /\ log = <<ModuleData>>
    BY <2>1 DEF IInv, LoadInv, Reading, ToLoad, EditInv, NothingToLoad
  <2> QED  BY <1>1, <1>3, <2>1, ReplicaValidates, <2>2
<1>6. CASE ~SetsAll /\ ~Validates
  <2>1. engine'.validated = engine.validated
    BY <1>2, <1>6 DEF AudioKinds, AudioKept, TakesHalt, TakesToken, SetDataKinds, TakesData, SetsKey, LoadKinds,
       TakesLoad, LoadsKey, LoadFails, SendsEntry, LoadEnds, EngineEnds, EngineDies, EngineBecomes
  <2> QED  BY <1>1, <1>3, <2>1, ReplicaStutters
<1> QED  BY <1>4, <1>5, <1>6

\* A file is written.
LEMMA ReplicaWrites ==
    ASSUME TypeOK, IInv, JobLayer, FinishWriting
    PROVE  [Replicated!Next]_(Replicated!vars)
<1>1. UNCHANGED <<store, engine, log, confirmed>> /\ WriteTask  BY DEF FinishWriting, TaskUnchanged
<1>2. Adopted' = Adopted  BY <1>1 DEF Adopted
<1>3. CASE Writing.op # "save"  BY <1>3, <1>1, <1>2, ReplicaStutters DEF FinishWriting, Saved
<1>4. CASE Writing.op = "save"
  <2>1. JobState /\ EditInv  BY <1>1, UntouchedFacts DEF JobLayer, IInv, LoadInv, WriteTask
  <2>2. Writes("save") /\ Consistent(Writing) /\ Writing = tasks[1] /\ "todo" \in DOMAIN Writing /\ Writing.todo = {}
    BY <1>1, <1>4, <2>1, WritingTask DEF FinishWriting
  <2>3. store.pending = <<>> /\ store.content \in Contents /\ file' = Writing.got
    BY <1>4, <2>2 DEF Writes, TypeOK, Stores, FinishWriting
  <2>4. confirmed = Len(log) /\ (confirmed = 0 => store.content = NewStore.content)
    BY <2>3, <2>1, LogFacts DEF EditInv, LogInv
  <2>5. file' # None  BY <2>3, <1>1, <2>2, TaskShapes, NoneAssumption DEF Contents, TypeOK, WriteTask
  <2>6. Saved' = store.content  BY <2>3, <2>5, <1>4, <2>2 DEF Saved, Contents, Consistent, Scope, Exists
  <2> QED  BY <1>1, <1>2, <2>4, <2>6, ReplicaSaves DEF Adopted
<1> QED  BY <1>3, <1>4

\* A step of the user interface or of the main process.
LEMMA ReplicaUi ==
    ASSUME TypeOK, TypeOK', IInv, IInv', UiKinds, file' = file
    PROVE  [Replicated!Next]_(Replicated!vars)
<1>1. Saved' = Saved /\ ModuleData \in Transactions  BY ModuleDataAssumption DEF Saved
<1>2. ASSUME StoreKept, confirmed' = confirmed PROVE Adopted' = Adopted  BY <1>2 DEF StoreKept, Adopted
<1>3. CASE QuietStep \/ PutsHalt \/ \E a \in Replies : TakesReply(a)
  BY <1>3, <1>1, <1>2, ReplicaStutters DEF QuietStep, PutsHalt, TakesReply, AudioKept, LogKept
<1>4. ASSUME NEW t \in Transactions, PutsData(t) PROVE [Replicated!Next]_(Replicated!vars)
  BY <1>4, <1>1, ReplicaPuts DEF PutsData, Adopted
<1>5. CASE (\E call \in {"save", "export"} : PutsFlush(call)) \/ \E a \in Replies : TakesFlush(a)
  BY <1>5, <1>1, ReplicaStutters DEF PutsFlush, TakesFlush, Adopted, AudioKept, LogKept
<1>6. ASSUME NEW a \in Replies, TakesConfirm(a) PROVE [Replicated!Next]_(Replicated!vars)
  <2>1. /\ CanConfirm(store, a.id) /\ log' = log /\ engine' = engine /\ confirmed' = confirmed + 1
        /\ store'.content = Overlay(store.content, Head(store.pending).data)
        /\ a.op = "confirm_valid_data" /\ a \in Items(Flow)  BY <1>6 DEF TakesConfirm, AudioKept, FlowTakes
  <2>2. store.pending # <<>> /\ Head(store.pending).id = a.id  BY <2>1 DEF CanConfirm
  <2>3. LogInv  BY <2>2 DEF IInv, EditInv, Loading
  <2>4. 1 \in DOMAIN store.pending /\ Head(store.pending) = store.pending[1]  BY <2>2, LogFacts DEF TypeOK, Stores
  <2>5. confirmed < engine.validated /\ log[confirmed + 1] = Head(store.pending).data
    BY <2>2, <2>3, <2>4, LogFacts, <2>1 DEF LogInv, Confirming
  <2>6. Adopted = store.content /\ Adopted' = store'.content  BY <2>1, <2>3, LogFacts DEF LogInv, Adopted
  <2> QED  BY <1>1, <2>1, <2>5, <2>6, ReplicaAdopts
<1>7. ASSUME NEW a \in Replies, TakesEntry(a) PROVE [Replicated!Next]_(Replicated!vars)
  <2>1. a.op = "entry" /\ a \in Items(Flow) /\ LogKept /\ engine' = engine
    BY <1>7 DEF TakesEntry, FlowTakes, AudioKept
  <2>2. Adopted' = Adopted  BY <2>1 DEF Loading, Adopted, LogKept, IInv, EditInv, NothingToLoad, LoadReplies
  <2> QED  BY <1>1, <2>1, <2>2, ReplicaStutters DEF LogKept
<1>8. ASSUME NEW a \in Replies, TakesFinish(a) PROVE [Replicated!Next]_(Replicated!vars)
  <2>1. /\ a.op = "import_finished" /\ a \in Items(Flow) /\ engine' = engine /\ confirmed' = confirmed + 1
        /\ store'.content = store.content
        /\ log' = log \/ \E t \in Transactions : log' = Append(log, t)  BY <1>8 DEF TakesFinish, FlowTakes
  <2>2. Loading  BY <2>1 DEF IInv, EditInv, NothingToLoad, LoadReplies
  <2>3. store.content = LoadedData /\ engine.validated = 1 /\ log = <<ModuleData>>
    BY <1>8, <2>2, LoadedEverything DEF IInv
  <2> QED  BY <1>1, <2>1, <2>3, ReplicaAdopts, <2>2 DEF LoadedData, Adopted, Loading
<1>9. CASE PutsLoad  BY <1>2, <1>9, <1>1, ReplicaPuts DEF PutsLoad
<1> QED  BY <1>3, <1>4, <1>5, <1>6, <1>7, <1>8, <1>9 DEF UiKinds

LEMMA ReplicaStep ==
    ASSUME TypeOK, TypeOK', IInv, IInv', JobLayer, [Next]_vars
    PROVE  [Replicated!Next]_(Replicated!vars)
BY ReplicaAudio, ReplicaWrites, UiStepKinds, HistoryKept, ReplicaUi DEF IInv, Sound

\* ImplementsReplica: transactions are validated in the order in which
\* they were put and adopted in that order, and a module is written of a
\* store that has adopted them all.
THEOREM StoreImplementsReplica == Spec => ImplementsReplica
<1>1. Init => Replicated!Init  BY ReplicaInit
<1>2. TypeOK /\ IInv /\ JobLayer /\ (TypeOK /\ IInv /\ JobLayer)' /\ [Next]_vars => [Replicated!Next]_(Replicated!vars)
  BY ReplicaStep
<1> QED  BY <1>1, <1>2, JobsHold, PTL DEF Spec, ImplementsReplica, Replicated!Spec

-----------------------------------------------------------------------------
\* Steps that neither put data, nor write a file, nor end a job.

Plain ==
    /\ UNCHANGED <<log, file>>
    /\ store'.modified = store.modified /\ store'.notifiers = store.notifiers
    /\ session'.saving => session.saving
    /\ SaveAnnounced' => SaveAnnounced

LEMMA AnnouncedBefore ==
    ASSUME NEW S, Names(signals') \subseteq Names(signals) \union S, "save_finished" \notin S,
           NamesIn(tick'.sigs) \subseteq NamesIn(tick.sigs)
    PROVE  SaveAnnounced' => SaveAnnounced
BY DEF Raised, SaveAnnounced

LEMMA AnnouncedKept ==
    ASSUME UNCHANGED signals, NamesIn(tick'.sigs) \subseteq NamesIn(tick.sigs)
    PROVE  SaveAnnounced' => SaveAnnounced
BY DEF Raised, SaveAnnounced

LEMMA PlainCrash ==
    ASSUME TypeOK, NEW name, Crash(name)
    PROVE  Plain
BY AnnouncedKept DEF Crash, TypeOK, Ticks, Plain

LEMMA PlainUser ==
    ASSUME TypeOK, UserStep \/ CloseCrashDialog,
           \A t \in Edits : ~Edit(t), ~Save, ~ExitSave, ~StartExport
    PROVE  Plain
<1>1. tick \in Ticks /\ signals \in SignalLists /\ store \in Stores /\ session \in Sessions  BY DEF TypeOK
<1>2. CASE StartImport
  <2>1. Names(signals') = Names(signals) \union {"start_import_au"}
    BY <1>1, <1>2, RaiseType DEF StartImport, SignalNames
  <2> QED  BY <1>2, <2>1, AnnouncedBefore, <1>1 DEF StartImport, Plain, Sessions
<1>3. CASE TryExit \/ ExitCancel \/ ExitDiscard
  BY <1>1, <1>3, HideMainTypes, AnnouncedBefore DEF TryExit, ExitCancel, ExitDiscard, Plain, history
<1>4. ASSUME NEW d \in windows.dialogs, CloseErrorDialog(d) PROVE Plain
  <2>1. /\ store' = store \/ store' = SetSaving(store, FALSE)
        /\ session' = session \/ session' = [session EXCEPT !.saving = FALSE]
    BY <1>4 DEF CloseErrorDialog, ErrorSignals, TypeOK, Windows
  <2>2. store'.modified = store.modified /\ store'.notifiers = store.notifiers  BY <1>1, <2>1 DEF SetSaving, Stores
  <2> QED  BY <1>4, <2>2, AnnouncedKept, <1>1, <2>1 DEF CloseErrorDialog, Plain, history, Sessions
<1>5. CASE CloseCrashDialog  BY <1>1, <1>5, AnnouncedKept DEF CloseCrashDialog, Ticks, Plain, history
<1>6. CASE EditFails \/ StartFails \/ ExitSaveFails  BY <1>6, PlainCrash DEF EditFails, StartFails, ExitSaveFails
<1> QED  BY <1>2, <1>3, <1>4, <1>5, <1>6 DEF UserStep

LEMMA PlainCommand ==
    ASSUME TypeOK, CommandStep, ~ProgressDone, ~ImportFinished
    PROVE  Plain
<1>1. tick \in Ticks /\ signals \in SignalLists /\ store \in Stores /\ session \in Sessions  BY DEF TypeOK
<1>2. CommandDone => tick'.sigs = tick.sigs  BY <1>1 DEF CommandDone, Ticks
<1>3. ASSUME store' = store \/ store' = SetSaving(store, TRUE), UNCHANGED <<session, signals, log, file>>, tick'.sigs = tick.sigs
      PROVE  Plain  BY <1>1, <1>3, AnnouncedKept DEF SetSaving, Stores, Plain
<1>4. CASE NextList  BY <1>1, <1>4, <1>3 DEF NextList, Ticks, history
<1>5. CASE ConfirmFlush
  <2> DEFINE done == FlushDone(store, Command.id)
         left == {f \in store.flushes : f.id # Command.id}
  <2>1. done \in Stores /\ done.modified = store.modified /\ done.notifiers = store.notifiers
    BY <1>1, FlushDoneType DEF FlushDone, Stores
  <2>2. store' = done \/ store' = SetSaving(done, TRUE)  BY <1>5 DEF ConfirmFlush
  <2> HIDE DEF done
  <2>3. store'.modified = store.modified /\ store'.notifiers = store.notifiers  BY <2>1, <2>2 DEF SetSaving, Stores
  <2>4. session'.saving = session.saving  BY <1>1, <1>5 DEF Sessions, ConfirmFlush
  <2> QED  BY <1>2, <1>5, <2>3, <2>4, AnnouncedKept DEF ConfirmFlush, NextCommand, Plain, history
<1>6. CASE Confirm  BY PlainCrash, <1>6, <1>1, <1>2, AnnouncedKept DEF Confirm, ConfirmValidData, Stores, Plain
<1>7. CASE Progress \/ ImportProgress
  <2>1. Names(signals') \subseteq Names(signals) \union {"progress_step"}
    BY <1>1, <1>7, RaiseType DEF Progress, ImportProgress, SignalNames
  <2> QED  BY <1>2, <1>7, <2>1, AnnouncedBefore DEF Progress, ImportProgress, NextCommand, Plain, history
<1>8. CASE ImportError
  <2>1. Names(signals') = Names(signals) \union {"load_error", "progress_finished"}
    BY <1>1, <1>8, RaiseBothType DEF ImportError, SignalNames, ErrorSignals
  <2> QED  BY <1>2, <1>8, <2>1, AnnouncedBefore DEF ImportError, NextCommand, Plain, history
<1>9. CASE ImportedEntry
  <2>1. CASE Crash("put_raw")  BY <2>1, PlainCrash
  <2>2. CASE ~Crash("put_raw")
    <3>1. store' = PutRaw(store, [k \in {Command.key} |-> Command.value]) /\ CommandDone /\ UNCHANGED <<session, signals, log, file>>
      BY <1>9, <2>2 DEF ImportedEntry, history
    <3> QED  BY <1>2, <3>1, AnnouncedKept, <1>1 DEF Plain, PutRaw, Stores
  <2> QED  BY <2>1, <2>2
<1>10. CASE ExceptionShown  BY <1>10, PlainCrash DEF ExceptionShown
<1>11. CASE HaltUi  BY <1>1, <1>11, HideMainTypes, AnnouncedBefore DEF HaltUi, Ticks, Plain, history
<1> QED  BY <1>4, <1>5, <1>6, <1>7, <1>8, <1>9, <1>10, <1>11 DEF CommandStep

LEMMA PlainSignal ==
    ASSUME TypeOK, SignalStep, ~OnSaveFinished
    PROVE  Plain
<1>1. tick \in Ticks /\ signals \in SignalLists /\ store \in Stores /\ session \in Sessions  BY DEF TypeOK
<1>2. \A name : OnSignal(name) /\ SignalDone => NamesIn(tick'.sigs) \subseteq NamesIn(tick.sigs)
  BY SignalDoneTypes DEF OnSignal
<1>3. CASE StartUpdates
  <2> DEFINE taken == TakeDeferred(signals)
  <2>1. taken \in SignalLists /\ Names(taken) = Names(signals)  BY <1>1, DeferredTaken
  <2>2. tick' = [tick EXCEPT !.pc = "updates", !.sigs = taken.now] /\ signals' = [taken EXCEPT !.now = <<>>]
    BY <1>3 DEF StartUpdates
  <2> HIDE DEF taken
  <2>3. NamesIn(<<>>) = {}  BY DEF NamesIn
  <2>4. Raised' \subseteq Raised  BY <2>1, <2>3, <1>1, <2>2 DEF Raised, Names, Ticks, SignalLists
  <2> QED  BY <1>3, <2>4 DEF StartUpdates, Plain, SaveAnnounced, history
<1>4. ASSUME NEW name, NEW call \in {"save", "export"}, OnStart(name, call) PROVE Plain
  BY <1>1, <1>4, FlushType, <1>2, AnnouncedKept DEF OnStart, FlushStore, Plain, history
<1>5. CASE OnStartImport \/ OnModule  BY <1>2, <1>5, AnnouncedKept DEF OnStartImport, OnModule, Plain, history
<1>6. CASE OnExportFinished
  <2>1. store'.modified = store.modified /\ store'.notifiers = store.notifiers /\ ~session'.saving
    BY <1>1, <1>6 DEF OnExportFinished, SetSaving, Stores, Sessions
  <2> QED  BY <1>2, <1>6, <2>1, AnnouncedKept DEF OnExportFinished, Plain, history
<1>7. CASE OnImportFinished  BY <1>1, <1>7, <1>2, AnnouncedKept DEF OnImportFinished, Sessions, Plain, history
<1>8. CASE OnError
  <2>1. PICK name \in ErrorSignals :
          OnSignal(name) /\ SignalDone /\ session' = [session EXCEPT !.quitAfter = @ /\ name # "save_error"]
    BY <1>8 DEF OnError
  <2> QED  BY <1>2, <1>8, <2>1, AnnouncedKept, <1>1 DEF OnError, Plain, history, Sessions
<1>9. CASE OnProgress  BY <1>2, <1>9, PlainCrash, AnnouncedKept DEF OnProgress, Plain, history
<1>10. CASE OnVisibility \/ EndTick
  BY <1>1, <1>2, <1>10, AnnouncedKept DEF OnVisibility, EndTick, Ticks, Plain, history
<1> QED  BY <1>3, <1>4, <1>5, <1>6, <1>7, <1>8, <1>9, <1>10 DEF SignalStep, OnStartSave, OnStartExport

LEMMA PlainTask ==
    ASSUME TypeOK, TaskStep, ~LoadTask, ~SandboxTask, ~FinishWriting, ~ImportTaskPut
    PROVE  Plain
<1>1. signals \in SignalLists  BY DEF TypeOK
<1>2. ASSUME NEW S, "save_finished" \notin S, Names(signals') \subseteq Names(signals) \union S,
             TaskUnchanged, UNCHANGED <<store, file, log>>
      PROVE  Plain  BY <1>2, AnnouncedBefore DEF TaskUnchanged, Plain
<1>3. /\ "progress_start" \in SignalNames /\ "progress_step" \in SignalNames /\ "progress_finished" \in SignalNames
      /\ "au_import_finished" \in SignalNames /\ "import_error" \in SignalNames
      /\ \A op : ErrorOf(op) \in SignalNames /\ ErrorOf(op) # "save_finished"
  BY DEF SignalNames, ErrorSignals, ErrorOf
<1>4. CASE StartWriting \/ StartImportTask  BY <1>1, <1>3, <1>4, RaiseType, <1>2 DEF StartWriting, StartImportTask
<1>5. CASE WriteError
  <2> DEFINE e == ErrorOf(Writing.op)
             S == {e, "progress_start", "progress_finished"}
  <2>1. e \in SignalNames /\ e # "save_finished"  BY <1>3
  <2>2. RaiseBoth(e, "progress_finished") \/ RaiseAll("progress_start", e, "progress_finished")
    BY <1>5 DEF WriteError
  <2> HIDE DEF e
  <2>3. Names(signals') \subseteq Names(signals) \union S  BY <1>1, <1>3, <2>1, RaiseBothType, RaiseAllType, <2>2
  <2>4. "save_finished" \notin S  BY <2>1
  <2> HIDE DEF S
  <2> QED  BY <1>2, <1>5, <2>3, <2>4 DEF WriteError
<1>6. CASE WriteKey  BY PlainCrash, <1>6, <1>1, <1>3, RaiseType, <1>2 DEF WriteKey
<1>7. CASE ImportTaskError
  <2>1. Names(signals') = Names(signals) \union {"import_error", "au_import_finished", "progress_finished"}
    BY <1>1, <1>3, <1>7, RaiseAllType DEF ImportTaskError
  <2> QED  BY <1>2, <1>7, <2>1 DEF ImportTaskError
<1> QED  BY <1>4, <1>5, <1>6, <1>7 DEF TaskStep

Special ==
    \/ (\E t \in Edits : Edit(t)) \/ Save \/ ExitSave \/ StartExport
    \/ ProgressDone \/ ImportFinished \/ OnSaveFinished
    \/ LoadTask \/ SandboxTask \/ FinishWriting \/ ImportTaskPut

LEMMA PlainStep ==
    ASSUME TypeOK, [Next]_vars, ~Special
    PROVE  Plain
<1>1. CASE AudioStep \/ MainHalts \/ MainDone \/ Stopped \/ UNCHANGED vars
  <2>1. UNCHANGED <<store, session, signals, tick, file, log>>
    BY <1>1 DEF AudioStep, MainHalts, MainDone, Stopped, MainUnchanged, uiVars, history, vars
  <2> QED  BY <2>1, AnnouncedKept DEF Plain
<1>2. CASE Tick  BY <1>2, AnnouncedKept DEF Tick, TickStart, TypeOK, Ticks, history, Plain
<1>3. CASE UserStep \/ CloseCrashDialog  BY <1>3, PlainUser DEF Special
<1> QED  BY <1>1, <1>2, <1>3, PlainCommand, PlainSignal, PlainTask DEF Next, Special

-----------------------------------------------------------------------------
\* What an audio process that ends leaves behind: the store shows what it
\* has validated when nothing but its confirmations is missing.
LeftBehind == (~engine.alive /\ PendingIds \subseteq Confirming) => View(store) = engine.data

\* The store shows what the engine holds when nothing is to be put into it.
LEMMA NothingComes ==
    ASSUME TypeOK, View(store) = Upcoming, engine.doing.op # "set_data",
           \A i \in DOMAIN audioQ : audioQ[i].op = "set_data" => audioQ[i].data = None
    PROVE  View(store) = engine.data
<1>1. ASSUME NEW k \in Keys PROVE View(store)[k] = engine.data[k]
  BY ForeseenFacts, ViewsByKey, QueueTypes, IndexFacts DEF CarriedIn, Carries, Base
<1> QED  BY <1>1, EngineFacts DEF Contents, View

\* Numbers that are confirmed do not wait.
LEMMA ConfirmedAreDone ==
    ASSUME TypeOK, NumbersInv, CommandsInv, PendingIds \subseteq Confirming
    PROVE  /\ engine.doing.op # "set_data"
           /\ \A i \in DOMAIN audioQ : audioQ[i].op = "set_data" => audioQ[i].data = None
<1>1. \A id \in Confirming : id \notin Handled /\ id \notin Waiting  BY NumberTypes DEF NumbersInv, NumbersHold, Below
<1>2. ASSUME engine.doing.op = "set_data" PROVE FALSE  BY <1>2, <1>1 DEF CommandsInv, IsPending, PendingIds, Handled
<1>3. ASSUME NEW i \in DOMAIN audioQ, audioQ[i].op = "set_data", audioQ[i].data # None PROVE FALSE
  BY <1>3, <1>1 DEF CommandsInv, IsPending, PendingIds, Waiting
<1> QED  BY <1>2, <1>3

LEMMA LeftByAudio ==
    ASSUME TypeOK, TypeOK', IInv, ~Loading, AudioStep
    PROVE  LeftBehind'
<1>1. engine.alive /\ StoreKept /\ AudioKinds  BY AudioStepKinds
<1>2. CASE EngineEnds \/ EngineDies
  <2>1. engine'.data = engine.data  BY <1>2 DEF EngineEnds, EngineDies
  <2>2. Confirming' = Confirming  BY <1>2, ConfirmingKept DEF Reply, EngineEnds, EngineDies
  <2>3. PendingIds \subseteq Confirming => View(store) = engine.data
    BY <1>1, ConfirmedAreDone, NothingComes DEF ViewIsUpcoming, IInv, EditInv
  <2> QED  BY <2>1, <2>2, <2>3, <1>1, ViewKept DEF LeftBehind, StoreKept, PendingIds
<1>3. CASE ~EngineEnds /\ ~EngineDies
  <2>1. engine'.alive = engine.alive
    BY <1>1, <1>3 DEF AudioKinds, AudioKept, TakesHalt, TakesToken, SetDataKinds, TakesData, SetsKey, SetsAll,
       LoadKinds, TakesLoad, LoadsKey, LoadFails, Validates, SendsEntry, LoadEnds, EngineBecomes
  <2> QED  BY <1>1, <2>1 DEF LeftBehind
<1> QED  BY <1>2, <1>3

LEMMA LeftByUi ==
    ASSUME TypeOK, TypeOK', IInv, ~Loading, LeftBehind, UiKinds
    PROVE  LeftBehind'
<1>1. /\ Sound(Flow) /\ NumbersInv
      /\ \A m \in Items(Flow) : m.op \notin LoadReplies
      /\ \A i \in DOMAIN tasks : tasks[i].op # "load"  BY DEF IInv, EditInv, NothingToLoad
<1>2. store \in Stores /\ store.nextId \in Nat  BY NumberTypes DEF TypeOK
<1>3. ASSUME engine' = engine, PendingIds' \subseteq Confirming' => PendingIds \subseteq Confirming,
             \A k \in Keys : View(store')[k] = View(store)[k]
      PROVE  LeftBehind'  BY <1>3 DEF View, LeftBehind
<1>4. ASSUME engine' = engine, store'.pending = store.pending, store'.content = store.content,
             Confirming' \subseteq Confirming
      PROVE  LeftBehind'  BY <1>4, ViewKept, <1>3 DEF PendingIds
<1>5. CASE QuietStep \/ (\E call \in {"save", "export"} : PutsFlush(call))
  BY <1>4, <1>5, ConfirmingKept DEF QuietStep, PutsFlush, StoreKept, AudioKept
<1>6. CASE PutsHalt  BY <1>4, <1>6, ConfirmingKept DEF Reply, PutsHalt, StoreKept
<1>7. CASE \E a \in Replies : TakesReply(a)
  <2>1. PICK a \in Replies : TakesReply(a)  BY <1>7
  <2> QED  BY <1>4, <2>1, ConfirmingKept DEF TakesReply, StoreKept, AudioKept
<1>8. CASE \E a \in Replies : TakesFlush(a)
  <2>1. PICK a \in Replies : TakesFlush(a)  BY <1>8
  <2> QED  BY <1>4, <2>1, <1>1, ConfirmingTaken DEF TakesFlush, AudioKept
<1>9. CASE \E a \in Replies : TakesConfirm(a)
  <2>1. PICK a \in Replies : TakesConfirm(a)  BY <1>9
  <2>2. /\ store.pending # <<>> /\ Head(store.pending).id = a.id /\ store'.pending = Tail(store.pending)
        /\ store'.flushes = store.flushes /\ store'.content = Overlay(store.content, Head(store.pending).data)
        /\ engine' = engine  BY <2>1 DEF TakesConfirm, CanConfirm, AudioKept
  <2>3. PendingIds \subseteq PendingIds' \union {a.id}
    <3>1. /\ Head(store.pending) = store.pending[1]
          /\ \A p \in DOMAIN store.pending : p # 1 =>
                p - 1 \in DOMAIN store'.pending /\ store'.pending[p - 1] = store.pending[p]
      BY <2>2, OutstandingConfirmed
    <3> QED  BY <2>2, <3>1 DEF PendingIds
  <2> QED  BY <1>3, <2>2, <2>3, <1>1, <2>1, ConfirmingTaken, ViewConfirm DEF TakesConfirm
<1>10. CASE \E t \in Transactions : PutsData(t)
  <2>1. PICK t \in Transactions : PutsData(t)  BY <1>10
  <2>2. store.nextId \notin Confirming  BY <1>2, <1>1, NumberTypes DEF NumbersInv, NumbersHold
  <2>3. store.nextId \in PendingIds'
    <3> DEFINE e == [id |-> store.nextId, data |-> t]
    <3>1. e.id = store.nextId /\ store'.pending = Append(store.pending, e)  BY <2>1 DEF PutsData
    <3> HIDE DEF e
    <3>2. Len(store.pending) + 1 \in DOMAIN store'.pending /\ store'.pending[Len(store.pending) + 1] = e
      BY <3>1, <1>2, PendingFacts DEF Entries
    <3> QED  BY <3>1, <3>2 DEF PendingIds
  <2> QED  BY <2>2, <2>3, <2>1, ConfirmingKept DEF LeftBehind, PutsData
<1>11. CASE \E a \in Replies : TakesEntry(a) \/ TakesFinish(a)
  BY <1>1, <1>11 DEF TakesEntry, TakesFinish, FlowTakes, LoadReplies
<1>12. CASE PutsLoad  BY <1>12, HeadFacts, <1>1 DEF PutsLoad, TypeOK
<1> QED  BY <1>5, <1>6, <1>7, <1>8, <1>9, <1>10, <1>11, <1>12 DEF UiKinds

\* The end of a load.
LEMMA LeftByLoad ==
    ASSUME TypeOK, TypeOK', IInv, Loading, NEW a \in Replies, TakesFinish(a)
    PROVE  LeftBehind'
<1>1. /\ store.content = LoadedData /\ engine.data = LoadedData /\ engine.doing = Idle /\ Confirming = {}
  BY LoadedEverything DEF IInv
<1>2. store.pending = <<>> /\ engine' = engine /\ store'.content = store.content  BY DEF TakesFinish, Loading
<1>3. View(store) = engine.data  BY <1>1, LoadedView, NothingComes DEF IInv, Idle, LoadInv, CommandsToLoad
<1>4. CASE store'.pending = store.pending  BY <1>2, <1>3, <1>4, ViewKept DEF LeftBehind
<1>5. ASSUME NEW t \in Transactions, store'.pending = Append(store.pending, [id |-> store.nextId, data |-> t])
      PROVE  LeftBehind'  BY <1>2, <1>5, <1>1 DEF LeftBehind, PendingIds, TakesFinish, FlowTakes, Confirming
<1> QED  BY <1>4, <1>5 DEF TakesFinish

LEMMA LeftStep ==
    ASSUME TypeOK, TypeOK', IInv, ~Loading => LeftBehind, [Next]_vars
    PROVE  ~Loading' => LeftBehind'
<1>1. HaltsAlone(Flow)  BY DEF IInv, Sound
<1>2. CASE ~Loading  BY <1>2, LeftByAudio, <1>1, UiStepKinds, LeftByUi
<1>3. CASE Loading
  <2>1. CASE ImportFinished
    <3>1. confirmed' = confirmed + 1 /\ confirmed \in Nat  BY <2>1 DEF ImportFinished, TypeOK
    <3>2. UiKinds  BY <1>1, <3>1, UiStepKinds DEF AudioStep, history
    <3>3. CASE \E a \in Replies : TakesFinish(a)  BY <1>3, <3>3, LeftByLoad
    <3>4. CASE \E a \in Replies : TakesConfirm(a)  BY <1>3, <3>4 DEF TakesConfirm, CanConfirm, Loading
    <3>5. CASE confirmed' = confirmed  BY <3>1, <3>5
    <3> QED
      BY <3>2, <3>3, <3>4, <3>5 DEF UiKinds, QuietStep, TakesReply, PutsData, PutsFlush, TakesFlush, TakesEntry,
         PutsHalt, PutsLoad, LogKept
  <2>2. CASE ~ImportFinished  BY <1>3, <2>2, StillLoading DEF IInv
  <2> QED  BY <2>1, <2>2
<1> QED  BY <1>2, <1>3

-----------------------------------------------------------------------------
\* The file that a save wrote.
Stamped == View(store)[VersionKey] = Stamp[VersionKey]

\* An unmodified module is the one in the file, but for the keys that are
\* put without a mark, and has the stamp, so that another stamp changes
\* nothing; a module that is saved has the stamp; the end of a save finds
\* the module as it was written.
FileInv ==
    /\ (file # None /\ ~store.modified) => FileShows(Keys \ QuietKeys) /\ Stamped
    /\ session.saving => Stamped
    /\ SaveAnnounced => file # None /\ FileShows(Keys)

LEMMA AnnouncedMarks ==
    ASSUME SigsFit
    PROVE  SaveAnnounced <=> "save_finished" \in Marks
<1> DEFINE name == "save_finished"
<1>1. name \in JobSignals /\ name # "visibility"  BY DEF JobSignals
<1>2. NamesIn(signals.later) \subseteq {"visibility"} /\ (tick.sigs = <<>> \/ signals.now = <<>>)
  BY DEF SigsFit, SignalsInv, Calm
<1> HIDE DEF name
<1> QED  BY <1>1, <1>2 DEF SaveAnnounced, Marks, name, Raised, Sigs, NamesIn, Names

LEMMA AnnouncedMarksNext ==
    ASSUME SigsFit'
    PROVE  SaveAnnounced' <=> "save_finished" \in Marks'
<1> DEFINE name == "save_finished"
<1>1. name \in JobSignals /\ name # "visibility"  BY DEF JobSignals
<1>2. NamesIn(signals'.later) \subseteq {"visibility"} /\ (tick'.sigs = <<>> \/ signals'.now = <<>>)
  BY DEF SigsFit, SignalsInv, Calm
<1> HIDE DEF name
<1>3. name \in Raised' <=> name \in NamesIn(Sigs')  BY <1>1, <1>2 DEF Raised, Sigs, NamesIn, Names
<1> QED  BY <1>1, <1>3 DEF SaveAnnounced, Marks, name

\* Only a save that ends announces it.
LEMMA AnnouncedBySave ==
    ASSUME JobState, SaveAnnounced
    PROVE  session.saving /\ ~windows.enabled
<1>1. "save_finished" \in Marks /\ JobInv  BY AnnouncedMarks DEF JobState
<1>2. \A name : name # "save_finished" => ~AtSignal(name)  BY <1>1 DEF AtSignal, At
<1>3. \A f, task, d, id : AtFlush(f) \/ AtTask(task) \/ AtDialog(d) \/ AtNotifier(id) => Marks = {}
  BY DEF AtFlush, AtTask, AtDialog, AtNotifier, At
<1>4. PICK op \in {"save", "export"} : WriteJob(op)  BY <1>1, <1>2, <1>3 DEF JobInv, NoJob, SettingUp, ImportJob, At
<1>5. ~Begins(op)  BY <1>2 DEF StartOf, Begins
<1>6. Ends(op)  BY <1>4, <1>5, <1>1, <1>3 DEF WriteJob, Flushes, Writes, Failed
<1> QED  BY <1>6 DEF Ends, Flags

LEMMA SettingUpFile ==
    ASSUME SigsFit', SettingUp'
    PROVE  FileInv'
BY AnnouncedMarksNext DEF SettingUp, Flags, AtTask, AtSignal, At, FileInv

LEMMA FileKept ==
    ASSUME FileInv, file' = file, store'.modified = store.modified,
           \A k \in Keys : View(store')[k] = View(store)[k],
           session'.saving => session.saving, SaveAnnounced' => SaveAnnounced
    PROVE  FileInv'
BY StampAssumption DEF FileShows, Stamped, Stamp, FileInv

\* What the store shows changes with the log only.
LEMMA ViewSteady ==
    ASSUME TypeOK, IInv, ~Loading, UiKinds, log' = log
    PROVE  \A k \in Keys : View(store')[k] = View(store)[k]
<1>1. ASSUME store'.pending = store.pending, store'.content = store.content
      PROVE  \A k \in Keys : View(store')[k] = View(store)[k]  BY <1>1, ViewKept
<1>2. \A t : log' # Append(log, t)  BY DEF TypeOK
<1>3. CASE \E a \in Replies : TakesConfirm(a)  BY <1>3, ViewConfirm DEF TakesConfirm, CanConfirm
<1>4. CASE \E a \in Replies : TakesEntry(a) \/ TakesFinish(a)
  BY <1>4 DEF TakesEntry, TakesFinish, FlowTakes, LoadReplies, IInv, EditInv, NothingToLoad
<1> QED
  BY <1>1, <1>2, <1>3, <1>4 DEF UiKinds, QuietStep, TakesReply, PutsData, PutsFlush, TakesFlush, PutsHalt, PutsLoad,
     StoreKept

LEMMA FilePlain ==
    ASSUME TypeOK, TypeOK', IInv, ~Loading, FileInv, [Next]_vars, Plain
    PROVE  FileInv'
BY UiStepKinds, ViewSteady, FileKept DEF IInv, Sound, AudioStep, uiVars, Plain

\* A stamp over the same stamp changes nothing.
LEMMA StampedPut ==
    ASSUME TypeOK, FileInv,
           store'.pending = Append(store.pending, [id |-> store.nextId, data |-> Stamp]),
           store'.flushes = store.flushes, store'.content = store.content,
           store'.modified = store.modified, file' = file, ~SaveAnnounced'
    PROVE  FileInv'
BY StampType, StampAssumption, ViewPut DEF Stamp, Stamped, FileInv, FileShows

LEMMA FileStartSave ==
    ASSUME TypeOK, JobState, FileInv, StartSave, file' = file, tick' = tick
    PROVE  FileInv'
<1> DEFINE mark == FALSE
<1>1. store' = Put(store, Stamp, mark) /\ mark \in BOOLEAN /\ ~session.saving  BY DEF StartSave, StorePut
<1>2. (store.modified \/ mark) = store.modified  BY DEF TypeOK, Stores
<1> HIDE DEF mark
<1>3. ~SaveAnnounced'
  <2>1. Names(signals') = Names(signals) \union {"start_save"}  BY RaiseType DEF SignalNames, StartSave, TypeOK
  <2> QED  BY <2>1, AnnouncedBefore, <1>1, AnnouncedBySave
<1> QED  BY <1>3, StampedPut, <1>1, <1>2, StampType, StorePutFacts

LEMMA FileStartExport ==
    ASSUME TypeOK, JobState, FileInv, StartExport
    PROVE  FileInv'
<1> DEFINE mark == FALSE
<1>1. /\ store' = SetSaving(Put(store, Stamp, mark), TRUE) /\ mark \in BOOLEAN /\ ~session.saving
      /\ file' = file /\ tick' = tick  BY DEF StartExport
<1>2. (store.modified \/ mark) = store.modified  BY DEF TypeOK, Stores
<1> HIDE DEF mark
<1>3. ~SaveAnnounced'
  <2>1. Names(signals') = Names(signals) \union {"start_export_au"}  BY RaiseType DEF SignalNames, StartExport, TypeOK
  <2> QED  BY <1>1, <2>1, AnnouncedBefore, AnnouncedBySave
<1> QED  BY <1>1, <1>3, StampedPut, <1>2, StampType, ClosedPutFacts

LEMMA FileEdit ==
    ASSUME TypeOK, JobState, FileInv, NEW t \in Edits, VersionKey \notin DOMAIN t, Edit(t)
    PROVE  FileInv'
<1>1. t \in Transactions  BY EditsAssumption
<1>2. /\ store'.pending = Append(store.pending, [id |-> store.nextId, data |-> t])
      /\ store'.flushes = store.flushes /\ store'.content = store.content
      /\ ~store'.modified => ~store.modified /\ DOMAIN t \subseteq QuietKeys
  <2>1. PICK mark \in BOOLEAN : MayMark(t, mark) /\ StorePut(t, mark)  BY DEF Edit
  <2> QED  BY <1>1, <2>1, StorePutFacts DEF StorePut, MayMark
<1>3. Stamped => Stamped'  BY <1>1, <1>2, StampAssumption, ViewPut DEF Stamped, Stamp
<1>4. ~SaveAnnounced' /\ session' = session /\ file' = file
  BY AnnouncedBySave, AnnouncedKept DEF Edit, UserMay
<1>5. CASE store'.modified  BY <1>3, <1>4, <1>5 DEF FileInv
<1>6. CASE ~store'.modified
  <2>1. FileShows(Keys \ QuietKeys) => FileShows(Keys \ QuietKeys)'  BY <1>1, <1>2, <1>4, <1>6, ViewPut DEF FileShows
  <2> QED  BY <1>2, <1>3, <1>4, <1>6, <2>1 DEF FileInv
<1> QED  BY <1>5, <1>6

LEMMA FileProgress ==
    ASSUME TypeOK, FileInv, ProgressDone
    PROVE  FileInv'
<1>1. /\ file' = file /\ session' = session /\ CommandDone /\ UNCHANGED session
      /\ \/ store' = [store EXCEPT !.notifiers = @ \ {Command.id}] /\ RaiseBoth("progress_finished", "au_import_finished")
         \/ UNCHANGED <<store, signals>>  BY DEF ProgressDone, NextCommand, history
<1>2. tick \in Ticks /\ signals \in SignalLists /\ store \in Stores  BY DEF TypeOK
<1>3. Names(signals') \subseteq Names(signals) \union {"progress_finished", "au_import_finished"}
  BY <1>1, <1>2, RaiseBothType DEF SignalNames
<1> QED  BY <1>1, FileKept, ViewKept, <1>3, AnnouncedBefore, <1>2 DEF CommandDone, Ticks, Stores

LEMMA FileSaveFinished ==
    ASSUME TypeOK, JobState, FileInv, OnSaveFinished
    PROVE  FileInv'
<1>1. FileShows(Keys) /\ Stamped /\ file # None  BY AnnouncedMarks, OnSaveFinishedJob DEF FileInv, JobState, Ends, Flags
<1>2. file' = file /\ store' = SetSaving(ClearModified(store), FALSE)  BY DEF OnSaveFinished, history
<1>3. View(store') = View(store)  BY ViewKept, <1>2 DEF SetSaving, ClearModified, TypeOK, Stores
<1> QED  BY <1>1, <1>2, <1>3 DEF FileInv, FileShows, Stamped, Stamp

LEMMA FileWritten ==
    ASSUME TypeOK, TypeOK', JobState, FileInv, FinishWriting
    PROVE  FileInv'
<1>1. PICK op \in {"save", "export"} :
            /\ JobState' /\ Writes(op) /\ Marks' = {FinishedOf(op)} /\ store' = store
            /\ op = "save" => /\ DOMAIN file' = {k \in Keys : Exists(k)}
                              /\ \A k \in DOMAIN file' : file'[k] = store.content[k]
                              /\ file' = Writing.got
            /\ op = "export" => file' = file  BY FinishWritingJob
<1>2. session.saving /\ session' = session /\ store.pending = <<>>
  BY <1>1 DEF Writes, Flags, FinishWriting, TaskUnchanged
<1>3. CASE op = "export"  BY <1>1, <1>3, AnnouncedMarksNext, <1>2, FileKept DEF FinishedOf, JobState
<1>4. CASE op = "save"
  <2>1. ASSUME NEW k \in Keys PROVE View(store)[k] = store.content[k]  BY <1>2 DEF Touching, View
  <2>2. file' # None  BY TaskQueueTypes, TaskShapes, <1>1, <1>4, NoneAssumption DEF FinishWriting, WriteTask, Writing
  <2>3. FileShows(Keys)' /\ Stamped'  BY <1>1, <1>2, <1>4, <2>1 DEF FileShows, Stamped, Stamp, FileInv, Exists
  <2>4. FileShows(Keys)' => FileShows(Keys \ QuietKeys)'  BY DEF FileShows
  <2> QED  BY <2>2, <2>3, <2>4 DEF FileInv
<1> QED  BY <1>3, <1>4

LEMMA FileImport ==
    ASSUME TypeOK, JobState, FileInv, ImportTaskPut
    PROVE  FileInv'
BY ImportTaskPutJob, AnnouncedBySave, AnnouncedKept DEF ImportJob, Flags, ImportTaskPut, TaskUnchanged, FileInv

LEMMA FileSandbox ==
    ASSUME TypeOK, JobState, SandboxTask
    PROVE  FileInv'
<1>1. tasks # <<>> /\ Head(tasks).op = "sandbox" /\ TaskUnchanged /\ file' = file  BY DEF SandboxTask, TaskTurn
<1>2. SettingUp  BY <1>1, WaitingTask DEF JobState
<1>3. ~SaveAnnounced'
  <2>1. "module" \in SignalNames /\ signals \in SignalLists /\ Raise("module") /\ tick' = tick
    BY <1>1 DEF SignalNames, SandboxTask, TypeOK, TaskUnchanged
  <2> QED  BY <2>1, AnnouncedBefore, <1>2, AnnouncedBySave, RaiseType DEF SettingUp, Flags
<1> QED  BY <1>3, <1>1, <1>2 DEF FileInv, SettingUp, Flags, TaskUnchanged

LEMMA FileStep ==
    ASSUME TypeOK, TypeOK', IInv, JobLayer, ~Loading => FileInv, [Next]_vars,
           \A t \in Edits : VersionKey \notin DOMAIN t
    PROVE  ~Loading' => FileInv'
<1>1. CASE Loading  BY <1>1, LoadEndsJob, SettingUpFile, StillLoading DEF JobLayer, IInv, JobState
<1>2. CASE ~Loading
  <2>1. JobState /\ FileInv /\ NothingToLoad  BY <1>2 DEF JobLayer, IInv, EditInv
  <2>2. CASE ~Special  BY <1>2, <2>1, <2>2, PlainStep, FilePlain
  <2>3. CASE Save \/ ExitSave  BY <2>1, <2>3, FileStartSave DEF Save, ExitSave
  <2>4. ~LoadTask  BY HeadFacts, <2>1 DEF TypeOK, LoadTask, TaskTurn, NothingToLoad
  <2>5. ~ImportFinished  BY <2>1, NextOnItsWay DEF ImportFinished, NextCommand, IsNext, NothingToLoad, LoadReplies
  <2> QED
    BY <2>1, <2>2, <2>3, <2>4, <2>5, FileEdit, FileStartExport, FileProgress, FileSaveFinished, FileWritten,
       FileImport, FileSandbox DEF Special
<1> QED  BY <1>1, <1>2

-----------------------------------------------------------------------------
\* SavedFileIsSound.
SaveLayer == ~Loading => LeftBehind /\ FileInv

LEMMA SaveLayerStarts ==
    ASSUME Init
    PROVE  SaveLayer
BY InitTypes, JobLayerStarts, StartFacts, AnnouncedBySave DEF Init, JobLayer, SaveLayer, LeftBehind, FileInv

LEMMA SavesAreSound ==
    ASSUME TypeOK, IInv, JobLayer, SaveLayer
    PROVE  SavedFileIsSound
<1>1. CASE Loading
  BY <1>1, UntouchedFacts DEF JobLayer, IInv, LoadInv, WriteTask, SavedFileIsSound, SavedDataIsValidated,
     SavedFileIsCurrent
<1>2. CASE ~Loading
  <2>1. JobState /\ LeftBehind /\ FileInv /\ NumbersInv /\ CommandsInv /\ ViewIsUpcoming
    BY <1>2 DEF JobLayer, SaveLayer, IInv, EditInv
  <2>2. ASSUME WriteTask, Writing.op = "save" PROVE store.pending = <<>> /\ store.content = engine.data
    <3>1. store.pending = <<>>  BY <2>1, <2>2, WritingTask DEF Writes
    <3>2. View(store) = store.content  BY <3>1 DEF Touching, View, TypeOK, Stores, Contents
    <3> QED  BY <3>1, <3>2, <2>1, ConfirmedAreDone, NothingComes DEF ViewIsUpcoming, LeftBehind, PendingIds
  <2> QED  BY <2>2, <2>1 DEF SavedFileIsSound, SavedDataIsValidated, SavedFileIsCurrent, FileInv, FileShows
<1> QED  BY <1>1, <1>2

\* SavedFileIsSound: what a save writes was validated in full, and a
\* module that is shown as saved is the one in the file, whatever was
\* edited, imported or exported before, between and after, also when the
\* audio process ended meanwhile.  Only the keys that are put without a
\* mark (the notation, the grid, the random seed, what is drawn on top)
\* may differ from the file while the module is shown as saved, and they
\* too are in it when a save ends.  The user does not edit the version of
\* the module: module.py and audiounit.py alone put it.
THEOREM SavedFilesAreSound ==
    ASSUME \A t \in Edits : VersionKey \notin DOMAIN t
    PROVE  Spec => []SavedFileIsSound
<1> DEFINE All == TypeOK /\ IInv /\ JobLayer /\ SaveLayer
<1>1. Init => All  BY InitTypes, InvStart, JobLayerStarts, SaveLayerStarts
<1>2. All /\ [Next]_vars => All'  BY TypeStep, InvStep, JobLayerStep, LeftStep, FileStep DEF SaveLayer
<1>3. All => SavedFileIsSound  BY SavesAreSound
<1> QED  BY <1>1, <1>2, <1>3, PTL DEF Spec

-----------------------------------------------------------------------------
\* What a job waits for is on its way.

Reported == {m.id : m \in {x \in Items(Flow) : x.op = "progress_done"}}

\* A notifier waits for the end of a transaction that was not lost.
NotifiersAwait == engine.alive => store.notifiers \subseteq Handled \union Waiting \union Reported

\* A load that is over and went well has said so.
LoadAwaited ==
    /\ engine.doing.op \in {"load", "entries"} => ~engine.ready
    /\ (engine.alive /\ ~ToLoad /\ ~Busy /\ engine.ready) => FinishSent

Awaited == IF Loading THEN LoadAwaited ELSE NotifiersAwait

LEMMA ReportedKept ==
    ASSUME \A m \in Items(Flow) : m.op = "progress_done" => m \in Items(Flow)'
    PROVE  Reported \subseteq Reported'
BY DEF Reported

\* Only the command that tells of the end of a transaction takes it away.
LEMMA ReportsStay ==
    ASSUME TypeOK, TypeOK', HaltsAlone(Flow), [Next]_vars, ~AudioStep, ~ProgressDone
    PROVE  Reported \subseteq Reported'
<1>1. tick \in Ticks  BY DEF TypeOK
<1>2. ASSUME FlowKept PROVE Reported \subseteq Reported'  BY <1>2, ReportedKept DEF FlowKept
<1>3. ASSUME tick'.cmds = tick.cmds, UNCHANGED <<outQ, inQ, inPending>> PROVE Reported \subseteq Reported'
  BY <1>2, <1>3, FlowUnchanged
<1>4. ASSUME NEW name, Crash(name) PROVE Reported \subseteq Reported'  BY <1>1, <1>4, <1>3 DEF Crash, Ticks, audioVars
<1>5. ASSUME tick.cmds # <<>>, Command.op # "progress_done", CommandDone, UNCHANGED <<outQ, inQ, inPending>>
      PROVE  Reported \subseteq Reported'
  BY <1>5, ReportedKept, FlowCommandTaken, <1>1 DEF FlowTakes, CommandDone, Ticks
<1>6. CASE Tick  BY <1>2, <1>6, FlowMoved
<1>7. CASE CommandStep
  <2>1. CASE NextList  BY <1>2, <2>1, FlowListTaken
  <2>2. CASE ConfirmFlush \/ Progress \/ ImportProgress \/ ImportError
    BY <1>5, <2>2 DEF ConfirmFlush, Progress, ImportProgress, ImportError, NextCommand, IsNext, audioVars
  <2>3. CASE Confirm  BY <1>4, <1>5, <2>3 DEF Confirm, IsNext, audioVars
  <2>4. CASE ImportedEntry  BY <1>4, <1>5, <2>4 DEF ImportedEntry, IsNext, audioVars
  <2>5. CASE ImportFinished  BY <1>5, <2>5 DEF ImportFinished, NextCommand, IsNext
  <2>6. CASE ExceptionShown  BY <1>4, <2>6 DEF ExceptionShown
  <2>7. CASE HaltUi  BY ReportedKept, FlowCommandTaken, <1>1, FlowHalted, <2>7 DEF FlowTakes, Ticks, HaltUi, audioVars
  <2> QED  BY <1>7, <2>1, <2>2, <2>3, <2>4, <2>5, <2>6, <2>7 DEF CommandStep
<1>8. CASE SignalStep
  <2>1. SignalDone => tick'.cmds = tick.cmds  BY <1>1 DEF SignalDone, Ticks
  <2>2. CASE StartUpdates \/ OnVisibility \/ EndTick
    BY <1>1, <2>1, <2>2, <1>3 DEF StartUpdates, OnVisibility, EndTick, Ticks, audioVars
  <2>3. CASE OnStartSave \/ OnStartExport \/ OnStartImport
    BY <1>3, <2>1, <2>3 DEF OnStartSave, OnStartExport, OnStart, OnStartImport, audioVars
  <2>4. CASE OnSaveFinished \/ OnExportFinished \/ OnImportFinished \/ OnError \/ OnModule
    BY <1>3, <2>1, <2>4 DEF OnSaveFinished, OnExportFinished, OnImportFinished, OnError, OnModule, audioVars
  <2>5. CASE OnProgress  BY <1>3, <1>4, <2>1, <2>5 DEF OnProgress, audioVars
  <2> QED  BY <1>8, <2>2, <2>3, <2>4, <2>5 DEF SignalStep
<1>9. CASE TaskStep
  <2>1. CASE WriteKey  BY <1>3, <1>4, <2>1 DEF WriteKey, TaskUnchanged
  <2>2. CASE ~WriteKey
    BY <1>3, <1>9, <2>2 DEF TaskStep, TaskUnchanged, LoadTask, SandboxTask, StartWriting, WriteError, FinishWriting,
       StartImportTask, ImportTaskError, ImportTaskPut
  <2> QED  BY <2>1, <2>2
<1>10. CASE MainHalts
  BY <1>10, FlowHalts, ReportedKept DEF Reply, Replies, MainHalts, MainUnchanged, uiVars, FlowGrows
<1>11. CASE MainDone \/ Stopped \/ UNCHANGED vars
  BY <1>3, <1>11 DEF MainDone, MainUnchanged, Stopped, vars, uiVars, audioVars
<1>12. CASE UserStep \/ CloseCrashDialog
  <2>1. CASE EditFails \/ StartFails \/ ExitSaveFails  BY <1>4, <2>1 DEF EditFails, StartFails, ExitSaveFails
  <2>2. CASE (\E t \in Edits : Edit(t)) \/ Save \/ ExitSave \/ StartExport \/ StartImport
    BY <1>3, <2>2 DEF Edit, Save, ExitSave, StartExport, StartImport, audioVars
  <2>3. CASE TryExit \/ ExitCancel \/ ExitDiscard \/ (\E d \in windows.dialogs : CloseErrorDialog(d))
    BY <1>3, <2>3 DEF TryExit, ExitCancel, ExitDiscard, CloseErrorDialog, audioVars
  <2>4. CASE CloseCrashDialog  BY <1>1, <2>4, <1>3 DEF CloseCrashDialog, Ticks, audioVars
  <2> QED  BY <1>12, <2>1, <2>2, <2>3, <2>4 DEF UserStep
<1> QED  BY <1>6, <1>7, <1>8, <1>9, <1>10, <1>11, <1>12 DEF Next

\* The user interface takes nothing out of the hands of the audio process.
LEMMA QueueGrows ==
    ASSUME TypeOK, UiKinds
    PROVE  engine' = engine /\ Handled' = Handled /\ Waiting \subseteq Waiting'
<1>1. engine' = engine
  BY DEF UiKinds, QuietStep, TakesReply, PutsData, PutsFlush, TakesFlush, TakesConfirm, TakesEntry, TakesFinish,
     PutsHalt, PutsLoad, AudioKept
<1>2. \A t \in Transactions \union {None} : SetDataCommand(store.nextId, t) \in Commands  BY QueueTypes
<1>3. HaltCommand \in Commands /\ LoadCommand \in Commands  BY DEF HaltCommand, LoadCommand, Commands
<1>4. audioQ' = audioQ \/ \E c \in Commands : audioQ' = Append(audioQ, c)
  BY <1>2, <1>3 DEF UiKinds, QuietStep, TakesReply, PutsData, PutsFlush, TakesFlush, TakesConfirm, TakesEntry,
     TakesFinish, PutsHalt, PutsLoad, AudioKept
<1> QED  BY <1>1, WaitingSent, <1>4 DEF Handled, Waiting

\* Jobs do not overlap.
LEMMA NotifiersAlone ==
    ASSUME JobInv, NEW id, IsFlush(store, id)
    PROVE  store.notifiers = {}
<1>1. store.flushes # {}  BY DEF IsFlush
<1>2. \A name : ~AtSignal(name)  BY <1>1 DEF AtSignal, At
<1>3. \A task : ~AtTask(task)  BY <1>1 DEF AtTask, At
<1>4. \A d : ~AtDialog(d)  BY <1>1 DEF AtDialog, At
<1>5. ~ImportJob  BY <1>2, <1>3, <1>1 DEF ImportJob, AtNotifier, At
<1>6. ASSUME NEW op, WriteJob(op) PROVE \E f \in store.flushes : AtFlush(f)
  BY <1>2, <1>3, <1>4, <1>6 DEF WriteJob, Begins, Flushes, Writes, Ends, Failed
<1>7. \E f \in store.flushes : AtFlush(f)  BY <1>5, <1>6, <1>1, <1>2, <1>3 DEF JobInv, NoJob, At, SettingUp
<1> QED  BY <1>7 DEF AtFlush, At

LEMMA AwaitedByAudio ==
    ASSUME TypeOK, TypeOK', IInv, JobInv, ~Loading, NotifiersAwait, AudioStep
    PROVE  NotifiersAwait'
<1>1. /\ engine.alive /\ AudioKinds /\ store' = store
      /\ CommandsInv /\ NothingToLoad  BY AudioStepKinds DEF AudioStep, uiVars, IInv, EditInv
<1>2. Idle.op # "set_data" /\ Idle.op = "idle"  BY DEF Idle
<1>3. ASSUME Handled \subseteq Handled' \union Waiting' \union Reported', Waiting \subseteq Handled' \union Waiting' \union Reported',
             Reported \subseteq Reported'
      PROVE  NotifiersAwait'  BY <1>1, <1>3 DEF NotifiersAwait
<1>4. CASE FlowKept /\ AudioKept  BY <1>4, <1>3, ReportedKept DEF AudioKept, Handled, Waiting, FlowKept
<1>5. CASE TakesHalt
  <2>1. Waiting' = Waiting /\ Handled = {}  BY <1>1, <1>2, <1>5, WaitingTaken DEF TakesHalt, TakesHead, Handled
  <2> QED  BY <1>3, <1>5, <2>1, ReportedKept DEF TakesHalt, FlowKept
<1>6. CASE TakesToken
  BY <1>1, <1>6, WaitingTaken, NotifiersAlone DEF TakesToken, TakesHead, CommandsInv, NotifiersAwait
<1>7. CASE TakesData
  <2>1. Waiting = Waiting' \union {audioQ[1].id} /\ Handled = {}
    BY <1>1, <1>2, <1>7, WaitingTaken DEF TakesData, TakesHead, Handled
  <2> QED  BY <1>3, <1>7, <2>1, ReportedKept DEF TakesData, FlowKept, Handled, EngineBecomes
<1>8. ASSUME NEW k \in Keys, SetsKey(k) PROVE NotifiersAwait'
  <2>1. Handled' = Handled  BY EngineFacts, <1>8 DEF Handled, Doings, SetsKey, EngineBecomes
  <2> QED  BY <1>3, <1>8, <2>1, ReportedKept DEF SetsKey, FlowGrows, Waiting
<1>9. CASE SetsAll
  <2> DEFINE r == ReplyId("progress_done", engine.doing.id)
  <2>1. r.op = "progress_done" /\ r.id = engine.doing.id  BY DEF ReplyId
  <2>2. r \in Items(Flow)' /\ Items(Flow) \subseteq Items(Flow)'  BY <1>9 DEF SetsAll, FlowGrowsBy
  <2> HIDE DEF r
  <2> QED  BY <1>3, <2>2, ReportedKept, <1>9, <2>1 DEF SetsAll, Waiting, Handled, Reported
<1>10. CASE LoadKinds
  <2>1. engine.doing.op \notin {"load", "entries"} /\ \A i \in DOMAIN audioQ : audioQ[i].op # "load_module"
    BY <1>1 DEF NothingToLoad
  <2>2. TakesLoad => 1 \in DOMAIN audioQ  BY <1>1, WaitingTaken DEF TakesLoad, TakesHead
  <2> QED  BY <1>10, <2>1, <2>2 DEF LoadKinds, TakesLoad, LoadsKey, LoadFails, Validates, SendsEntry, LoadEnds
<1>11. CASE EngineEnds \/ EngineDies  BY <1>11 DEF EngineEnds, EngineDies, NotifiersAwait
<1> QED  BY <1>1, <1>4, <1>5, <1>6, <1>7, <1>8, <1>9, <1>10, <1>11 DEF AudioKinds, SetDataKinds

LEMMA AwaitedByUi ==
    ASSUME TypeOK, TypeOK', IInv, ~Loading, NotifiersAwait, [Next]_vars, ~AudioStep
    PROVE  NotifiersAwait'
<1>1. HaltsAlone(Flow) /\ NothingToLoad /\ Sound(Flow)  BY DEF IInv, EditInv, Sound
<1>2. engine' = engine /\ Handled' = Handled /\ Waiting \subseteq Waiting'  BY <1>1, UiStepKinds, QueueGrows
<1>3. store \in Stores /\ tick \in Ticks  BY DEF TypeOK
<1>4. CASE ProgressDone
  <2>1. FlowTakes(Command)
    BY FlowCommandTaken, <1>3, <1>4 DEF CommandDone, Ticks, ProgressDone, NextCommand, IsNext, audioVars
  <2> HIDE DEF Command
  <2> QED  BY <1>2, <1>3, <1>4, <2>1 DEF NotifiersAwait, ProgressDone, Stores, Reported, FlowTakes
<1>5. CASE ~ProgressDone
  <2>1. Reported \subseteq Reported'  BY <1>1, <1>5, ReportsStay
  <2>2. ASSUME store'.notifiers \subseteq store.notifiers PROVE NotifiersAwait'
    BY <1>2, <2>1, <2>2 DEF NotifiersAwait
  <2>3. CASE ~Special  BY <2>2, <2>3, PlainStep DEF Plain
  <2>4. ASSUME NEW t \in Transactions, NEW mark \in BOOLEAN, StorePut(t, mark) PROVE NotifiersAwait'
    BY <2>2, <2>4, StorePutFacts DEF StorePut
  <2>5. CASE (\E t \in Edits : Edit(t)) \/ Save \/ ExitSave
    <3>1. CASE \E t \in Edits : Edit(t)  BY EditsAssumption, <2>4, <3>1 DEF Edit
    <3>2. CASE Save \/ ExitSave  BY StampType, <2>4, <3>2 DEF Save, ExitSave, StartSave
    <3> QED  BY <2>5, <3>1, <3>2
  <2>6. CASE StartExport  BY <2>2, ClosedPutFacts, StampType, <2>6 DEF StartExport
  <2>7. CASE ImportFinished
    BY <2>7, NextOnItsWay, <1>1 DEF ImportFinished, NextCommand, IsNext, NothingToLoad, LoadReplies
  <2>8. CASE OnSaveFinished \/ LoadTask \/ SandboxTask \/ FinishWriting
    <3>1. store'.notifiers = store.notifiers
      BY <1>3, <2>8 DEF OnSaveFinished, LoadTask, SandboxTask, FinishWriting, SetSaving, ClearModified, Stores
    <3> QED  BY <2>2, <3>1
  <2>9. CASE ImportTaskPut
    <3>1. PICK t \in Imports :
            store' = PutNotify(store, t) /\ audioQ' = Append(audioQ, SetDataCommand(store.nextId, t))
      BY <2>9 DEF ImportTaskPut
    <3>2. t \in Transactions  BY EditsAssumption
    <3> DEFINE c == SetDataCommand(store.nextId, t)
    <3>3. store'.notifiers = store.notifiers \union {store.nextId}  BY <1>3, <3>1, <3>2, PutNotifyType
    <3> HIDE DEF c
    <3>4. store.nextId \in Waiting'  BY <3>1, WaitingSent, <3>2, QueueTypes DEF c, SetDataCommand
    <3> QED  BY <1>2, <2>1, <3>3, <3>4 DEF NotifiersAwait
  <2> QED  BY <1>5, <2>3, <2>5, <2>6, <2>7, <2>8, <2>9 DEF Special
<1> QED  BY <1>4, <1>5

LEMMA FinishStays ==
    ASSUME \A m \in Items(Flow) : m.op = "import_finished" => m \in Items(Flow)'
    PROVE  FinishSent => FinishSent'
BY DEF FinishSent

LEMMA LoadAwaitedUi ==
    ASSUME TypeOK, TypeOK', IInv, Loading, LoadAwaited, [Next]_vars, ~AudioStep, ~ImportFinished
    PROVE  LoadAwaited'
<1>1. LoadInv /\ HaltsAlone(Flow) /\ Untouched /\ RepliesOfLoad  BY DEF IInv, Sound, LoadInv
<1>2. UiKinds /\ engine' = engine  BY <1>1, UiStepKinds, QueueGrows
<1>3. confirmed' # confirmed + 1  BY <1>1, StillLoading DEF Loading, TypeOK
<1>4. FinishSent => FinishSent'
  <2>1. CASE FlowKept  BY <2>1, FinishStays DEF FlowKept
  <2>2. ASSUME NEW a, FlowTakes(a), a.op # "import_finished" PROVE FinishSent => FinishSent'
    BY <2>2, FinishStays DEF FlowTakes
  <2>3. ASSUME NEW a, FlowGrows(a) PROVE FinishSent => FinishSent'  BY <2>3, FinishStays DEF FlowGrows
  <2> QED
    BY <1>2, <1>3, <2>1, <2>2, <2>3 DEF UiKinds, QuietStep, TakesReply, PutsData, PutsFlush, TakesFlush, TakesConfirm,
       TakesEntry, TakesFinish, PutsHalt, PutsLoad
<1>5. ToLoad => ToLoad'
  <2>1. CASE PutsLoad  BY <2>1, WaitingSent, QueueTypes DEF PutsLoad, ToLoad, LoadCommand, Commands
  <2>2. CASE ~PutsLoad
    <3>1. tasks' = tasks  BY <2>2, <1>1, LoadingUi
    <3>2. audioQ' = audioQ \/ \E c \in Commands : audioQ' = Append(audioQ, c)
      <4>1. \A t \in Transactions \union {None} : SetDataCommand(store.nextId, t) \in Commands  BY QueueTypes
      <4>2. HaltCommand \in Commands  BY DEF HaltCommand, Commands
      <4> QED
        BY <1>2, <2>2, <4>1, <4>2 DEF UiKinds, QuietStep, TakesReply, PutsData, PutsFlush, TakesFlush, TakesConfirm,
           TakesEntry, TakesFinish, PutsHalt, AudioKept
    <3>3. CASE audioQ' = audioQ  BY <3>1, <3>3 DEF ToLoad
    <3>4. ASSUME NEW c \in Commands, audioQ' = Append(audioQ, c) PROVE ToLoad => ToLoad'
      BY <3>4, WaitingSent, <3>1 DEF ToLoad
    <3> QED  BY <3>2, <3>3, <3>4
  <2> QED  BY <2>1, <2>2
<1> QED  BY <1>2, <1>4, <1>5 DEF LoadAwaited, Busy

LEMMA LoadAwaitedAudio ==
    ASSUME TypeOK, TypeOK', IInv, Loading, LoadAwaited, AudioStep
    PROVE  LoadAwaited'
<1>1. /\ engine.alive /\ tasks' = tasks /\ CommandsInv /\ CommandsToLoad /\ engine.doing.op # "set_data"
      /\ engine \in Engines /\ engine.doing \in Doings
      /\ AudioNext /\ tick'.cmds = tick.cmds /\ outQ' = outQ
  BY AudioStepKinds, EngineFacts DEF IInv, LoadInv, AudioStep, uiVars
<1>2. Idle.op = "idle"  BY DEF Idle
<1>3. ASSUME engine'.ready = FALSE PROVE LoadAwaited'  BY <1>3 DEF LoadAwaited
<1>4. ASSUME engine'.alive = FALSE, engine'.doing = Idle PROVE LoadAwaited'  BY <1>2, <1>4 DEF LoadAwaited
<1>5. TakeCommand => TakesHead  BY DEF TakesHead, TakeCommand, Busy
<1>6. TakeCommand => 1 \in DOMAIN audioQ /\ Head(audioQ) = audioQ[1]
  BY <1>1, <1>5, LoadQueue, HeadFacts DEF TypeOK, AudioTypeOK
<1>7. CASE TakeHalt
  <2>1. ToLoad' <=> ToLoad  BY <1>1, <1>5, <1>7, LoadQueue, <1>6 DEF TakeHalt, HaltCommand
  <2>2. FinishSent => FinishSent'  BY FinishStays, <1>1, <1>7, FlowUnchanged DEF FlowKept, TakeHalt
  <2> QED  BY <2>1, <2>2, <1>1, <1>7 DEF LoadAwaited, Busy, TakeHalt, Engines
<1>8. CASE TakeToken \/ TakeSetData  BY <1>1, <1>6, <1>8 DEF TakeToken, TakeSetData, CommandsToLoad
<1>9. CASE TakeLoad  BY <1>1, <1>9, <1>3 DEF TakeLoad, Engines
<1>10. CASE SetDataKey \/ SetDataDone  BY <1>1, <1>10 DEF SetDataKey, SetDataDone
<1>11. CASE LoadStep \/ LoadError \/ LoadValidated \/ SendEntry
  BY <1>11, <1>1, <1>3 DEF LoadStep, LoadError, LoadValidated, SendEntry, LoadAwaited, Engines
<1>12. CASE LoadFinished
  <2> DEFINE a == Reply("import_finished")
  <2>1. a \in Replies /\ a.op = "import_finished"  BY DEF Reply, Replies
  <2>2. Submit(Append(inPending, a))  BY <1>12 DEF LoadFinished
  <2> HIDE DEF a
  <2>3. engine'.doing = Idle  BY <1>1, <1>12 DEF LoadFinished, Engines
  <2> QED  BY <1>2, <2>3, <2>1, <1>1, <2>2, FlowSent DEF LoadAwaited, FinishSent, FlowGrows
<1>13. CASE ProduceSound
  BY <1>13, <1>1, FlowSubmitted, FinishStays DEF ProduceSound, FlowKept, ToLoad, LoadAwaited, Busy
<1>14. CASE EndAudio  BY <1>14, <1>1, <1>4 DEF EndAudio, Busy, Engines
<1>15. CASE AudioException  BY <1>1, <1>15, <1>4 DEF AudioException, Engines
<1> QED  BY <1>1, <1>7, <1>8, <1>9, <1>10, <1>11, <1>12, <1>13, <1>14, <1>15 DEF AudioNext, AudioWork

LEMMA AwaitedStep ==
    ASSUME TypeOK, TypeOK', IInv, IInv', JobLayer, Awaited, [Next]_vars
    PROVE  Awaited'
<1>1. CASE ~Loading  BY <1>1, EditingStep, AwaitedByAudio, AwaitedByUi DEF JobLayer, JobState, Awaited
<1>2. CASE Loading /\ ImportFinished
  <2>1. store'.notifiers = {}  BY <1>2, LoadEndsJob DEF SettingUp, AtTask, AtSignal, At, JobLayer, IInv
  <2> QED  BY <2>1, <1>2 DEF Awaited, NotifiersAwait, Loading, ImportFinished, TypeOK
<1>3. CASE Loading /\ ~ImportFinished  BY <1>3, StillLoading, LoadAwaitedUi, LoadAwaitedAudio DEF IInv, Awaited
<1> QED  BY <1>1, <1>2, <1>3

LEMMA AwaitedStarts ==
    ASSUME Init
    PROVE  Awaited
<1>1. engine.doing = Idle /\ engine.doing.op = "idle"  BY StartFacts
<1>2. CASE store = NewStore /\ tasks = <<[op |-> "load"]>>
  <2>1. tasks # <<>> /\ store.notifiers = {} /\ store.pending = <<>>  BY <1>2 DEF NewStore
  <2> QED  BY <1>1, <2>1 DEF Awaited, LoadAwaited, NotifiersAwait, ToLoad
<1>3. CASE store = Put(NewStore, SandboxData, TRUE)
  <2> DEFINE t == SandboxData
  <2>1. NewStore \in Stores /\ NewStore.notifiers = {} /\ NewStore.pending = <<>>
    <3>1. [k \in Keys |-> None] \in Contents  BY DEF Contents
    <3>2. <<>> \in Seq([id : Nat, data : Transactions])  OBVIOUS
    <3> QED  BY <3>1, <3>2 DEF NewStore, Stores
  <2>2. t \in Transactions /\ TRUE \in BOOLEAN /\ store = Put(NewStore, t, TRUE)  BY <1>3, DataTypes
  <2> HIDE DEF t
  <2>3. store.notifiers = {}  BY <2>1, <2>2, PutType
  <2>4. store.pending = Append(NewStore.pending, [id |-> NewStore.nextId, data |-> t])
    <3> DEFINE st == NewStore
    <3>1. st \in Stores  BY <2>1
    <3> HIDE DEF st
    <3>2. Put(st, t, TRUE).pending = Append(st.pending, [id |-> st.nextId, data |-> t])  BY <3>1, <2>2, PutType
    <3> QED  BY <3>2, <2>2 DEF st
  <2>5. store.pending # <<>>  BY <2>1, <2>4
  <2> QED  BY <2>3, <2>5 DEF Awaited, NotifiersAwait, Loading
<1> QED  BY <1>2, <1>3 DEF Init

\* Nothing is left, so nothing is on its way.
LEMMA NothingTravels ==
    ASSUME TypeOK, PcInv, NothingLeft
    PROVE  Items(Flow) = {} /\ Handled = {} /\ Waiting = {} /\ Sigs = <<>>
<1>1. /\ tick.pc = "idle" /\ tick.cmds = <<>> /\ tick.sigs = <<>>
      /\ outQ = <<>> /\ inQ = <<>> /\ inPending = <<>> /\ audioQ = <<>> /\ engine.doing = Idle
  BY DEF NothingLeft, EventLoop, PcInv, Busy
<1> QED  BY <1>1, FlowParts DEF Items, Handled, Waiting, Idle, NothingLeft, NoSignals, Sigs

LEMMA QuietWhenLoading ==
    ASSUME TypeOK, IInv, JobLayer, Awaited, NothingLeft
    PROVE  ~Loading
<1>1. SUFFICES ASSUME Loading PROVE FALSE  OBVIOUS
<1>2. FinishSent  BY <1>1 DEF Awaited, LoadAwaited, NothingLeft, ToLoad
<1> QED  BY <1>2, NothingTravels, <1>1 DEF FinishSent, JobLayer, LoadState, SigsFit, SignalsInv

\* A job is somewhere, or there is none.
LEMMA NoPlaceNoJob ==
    ASSUME JobInv, Marks = {}, Shown = {}, store.flushes = {}, store.notifiers = {}, tasks = <<>>
    PROVE  NoJob
<1>1. \A name : ~AtSignal(name)  BY DEF AtSignal, At
<1>2. \A task : ~AtTask(task)  BY DEF AtTask, At
<1>3. \A d : ~AtDialog(d)  BY DEF AtDialog, At
<1>4. \A op : ~WriteJob(op)  BY <1>1, <1>2, <1>3 DEF WriteJob, Begins, Flushes, Writes, Ends, Failed
<1> QED  BY <1>4, <1>1, <1>2 DEF JobInv, SettingUp, ImportJob, AtNotifier, At

LEMMA QuietUsable ==
    ASSUME TypeOK, IInv, JobLayer, Awaited
    PROVE  QuietIsUsable
<1> SUFFICES ASSUME NothingLeft
             PROVE  /\ windows.enabled /\ ~windows.progress
                    /\ ~session.saving /\ ~session.importing /\ ~session.exporting /\ ~store.saving
                    /\ store.pending = <<>> /\ store.flushes = {} /\ store.notifiers = {}  BY DEF QuietIsUsable
<1>1. SigsFit /\ WindowInv /\ JobInv /\ NotifiersAwait  BY QuietWhenLoading DEF JobLayer, JobState, Awaited
<1>2. Items(Flow) = {} /\ Handled = {} /\ Waiting = {} /\ Sigs = <<>>  BY <1>1, NothingTravels DEF SigsFit, SignalsInv
<1>3. engine.alive /\ tasks = <<>> /\ windows.dialogs = {}  BY DEF NothingLeft
<1>4. Outstanding = {}  BY <1>2, <1>3 DEF Confirming, IInv, NumbersInv, NumbersHold
<1>5. store.flushes = {}  BY <1>4 DEF Outstanding
<1>6. store.pending = <<>>
  <2>1. store.pending # <<>> => 1 \in DOMAIN store.pending  BY HeadFacts DEF TypeOK, Stores
  <2> QED  BY <2>1, <1>4 DEF Outstanding
<1>7. store.notifiers = {}  BY <1>2, <1>1, <1>3 DEF Reported, NotifiersAwait
<1>8. NamesIn(Sigs) = {}  BY <1>2 DEF NamesIn
<1>9. NoJob  BY <1>1, <1>3, <1>5, <1>7, NoPlaceNoJob, <1>8 DEF Marks, Shown
<1>10. ~windows.progress  BY <1>3, <1>7, <1>1, <1>8 DEF Working, WindowInv, Open
<1> QED  BY <1>5, <1>6, <1>7, <1>9, <1>10 DEF NoJob, Flags

\* QuietIsUsable: when nothing is left to do no job is left half done,
\* whatever was saved, exported, imported or loaded before: no flag of the
\* session or the store stays set, the main window is enabled and the
\* progress window is gone, so that the user can go on.
THEOREM QuietMeansUsable == Spec => []QuietIsUsable
<1>1. Init => Awaited  BY AwaitedStarts
<1>2. TypeOK /\ IInv /\ JobLayer /\ TypeOK' /\ IInv' /\ Awaited /\ [Next]_vars => Awaited'  BY AwaitedStep
<1>3. TypeOK /\ IInv /\ JobLayer /\ Awaited => QuietIsUsable  BY QuietUsable
<1> QED  BY <1>1, <1>2, <1>3, JobsHold, PTL DEF Spec
=============================================================================
