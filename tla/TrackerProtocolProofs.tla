---------------------- MODULE TrackerProtocolProofs ----------------------
(***************************************************************************)
(* The protocol between the user interface and the audio process, for any  *)
(* keys, values and transactions, and any number of edits.  First the      *)
(* types, then the protocol: the numbers of transactions and flushes come  *)
(* back in their order, the entries of a module come only while it loads,  *)
(* and the store shows what the audio process will hold.                   *)
(*                                                                         *)
(* A step is first brought into one of a few kinds (UiStepKinds and        *)
(* AudioStepKinds); each part of the invariant is then shown to hold after *)
(* every kind.                                                             *)
(***************************************************************************)
EXTENDS TrackerProcesses, SequenceTheorems, WellFoundedInduction, TLAPS

-----------------------------------------------------------------------------
\* Sequences.

LEMMA HeadFacts ==
    ASSUME NEW S, NEW s \in Seq(S), s # <<>>
    PROVE  /\ Head(s) = s[1] /\ s[1] \in S
           /\ Len(s) \in Nat \ {0} /\ DOMAIN s = 1..Len(s) /\ 1 \in DOMAIN s
           /\ Tail(s) \in Seq(S) /\ Len(Tail(s)) = Len(s) - 1 /\ DOMAIN Tail(s) = 1..Len(s) - 1
           /\ \A i \in 1..Len(s) - 1 : Tail(s)[i] = s[i + 1]
    OBVIOUS

LEMMA AppendFacts ==
    ASSUME NEW S, NEW s \in Seq(S), NEW e \in S
    PROVE  /\ Append(s, e) \in Seq(S) /\ Len(s) \in Nat /\ DOMAIN s = 1..Len(s)
           /\ Len(Append(s, e)) = Len(s) + 1 /\ DOMAIN Append(s, e) = 1..Len(s) + 1
           /\ \A i \in 1..Len(s) : Append(s, e)[i] = s[i]
           /\ Append(s, e)[Len(s) + 1] = e
    OBVIOUS

LEMMA IndexFacts ==
    ASSUME NEW S, NEW s \in Seq(S)
    PROVE  Len(s) \in Nat /\ DOMAIN s = 1..Len(s) /\ \A i \in DOMAIN s : s[i] \in S
    OBVIOUS

-----------------------------------------------------------------------------
\* The store.

LEMMA OverlayType ==
    ASSUME NEW f \in Contents, NEW t \in Transactions
    PROVE  /\ Overlay(f, t) \in Contents
           /\ \A k \in Keys : Overlay(f, t)[k] = IF k \in DOMAIN t THEN t[k] ELSE f[k]
    BY DEF Overlay, Contents, Transactions

LEMMA TransactionType ==
    ASSUME NEW t \in Transactions
    PROVE  DOMAIN t \subseteq Keys /\ \A k \in DOMAIN t : t[k] \in Values \union {None}
    BY DEF Transactions

LEMMA PutType ==
    ASSUME NEW st \in Stores, NEW t \in Transactions, NEW mark \in BOOLEAN
    PROVE  /\ Put(st, t, mark) \in Stores
           /\ Put(st, t, mark).pending = Append(st.pending, [id |-> st.nextId, data |-> t])
           /\ Put(st, t, mark).nextId = st.nextId + 1
           /\ Put(st, t, mark).modified = (st.modified \/ mark)
           /\ Put(st, t, mark).content = st.content
           /\ Put(st, t, mark).flushes = st.flushes
           /\ Put(st, t, mark).saving = st.saving
           /\ Put(st, t, mark).notifiers = st.notifiers
<1>1. st.nextId \in Nat /\ st.pending \in Seq([id : Nat, data : Transactions])  BY DEF Stores
<1>2. Append(st.pending, [id |-> st.nextId, data |-> t]) \in Seq([id : Nat, data : Transactions])
  BY <1>1, AppendProperties
<1> DEFINE longer == Append(st.pending, [id |-> st.nextId, data |-> t])
           flag == st.modified \/ mark
           next == st.nextId + 1
<1>3. flag \in BOOLEAN /\ next \in Nat  BY <1>1
<1> HIDE DEF longer, flag, next
<1> QED  BY <1>2, <1>1, <1>3 DEF longer, flag, next, Stores, Put

LEMMA PutNotifyType ==
    ASSUME NEW st \in Stores, NEW t \in Transactions
    PROVE  /\ PutNotify(st, t) \in Stores
           /\ PutNotify(st, t) = [Put(st, t, TRUE) EXCEPT !.notifiers = @ \union {st.nextId}]
           /\ PutNotify(st, t).pending = Append(st.pending, [id |-> st.nextId, data |-> t])
           /\ PutNotify(st, t).nextId = st.nextId + 1
           /\ PutNotify(st, t).content = st.content
           /\ PutNotify(st, t).flushes = st.flushes
           /\ PutNotify(st, t).saving = st.saving
           /\ PutNotify(st, t).modified = TRUE
           /\ PutNotify(st, t).notifiers = st.notifiers \union {st.nextId}
<1>1. Put(st, t, TRUE) \in Stores /\ st.nextId \in Nat  BY PutType DEF Stores
<1>2. PutNotify(st, t) \in Stores  BY <1>1 DEF PutNotify, Stores
<1> QED  BY <1>1, <1>2, PutType DEF PutNotify, Stores

LEMMA PutRawType ==
    ASSUME NEW st \in Stores, NEW t \in Transactions
    PROVE  PutRaw(st, t) \in Stores /\ PutRaw(st, t) = [st EXCEPT !.content = Overlay(@, t)]
    BY OverlayType DEF PutRaw, Stores

LEMMA FlushType ==
    ASSUME NEW st \in Stores, NEW call \in {"save", "export"}
    PROVE  /\ Flush(st, call) \in Stores
           /\ Flush(st, call).flushes = st.flushes \union {[id |-> st.nextId, call |-> call]}
           /\ Flush(st, call).nextId = st.nextId + 1
           /\ Flush(st, call).pending = st.pending
           /\ Flush(st, call).content = st.content
           /\ Flush(st, call).saving = st.saving
           /\ Flush(st, call).modified = st.modified
           /\ Flush(st, call).notifiers = st.notifiers
<1>1. /\ st.nextId \in Nat
      /\ st.flushes \union {[id |-> st.nextId, call |-> call]} \subseteq [id : Nat, call : {"save", "export"}]
  BY DEF Stores
<1> DEFINE more == st.flushes \union {[id |-> st.nextId, call |-> call]}
           next == st.nextId + 1
<1>2. Flush(st, call) = [st EXCEPT !.flushes = more, !.nextId = next] /\ next \in Nat  BY <1>1 DEF Flush
<1> HIDE DEF more, next
<1> QED  BY <1>1, <1>2 DEF more, next, Stores

LEMMA FlushDoneType ==
    ASSUME NEW st \in Stores, NEW id
    PROVE  /\ FlushDone(st, id) \in Stores
           /\ FlushDone(st, id) = [st EXCEPT !.flushes = {f \in @ : f.id # id}]
    BY DEF FlushDone, Stores

LEMMA ConfirmType ==
    ASSUME NEW st \in Stores, st.pending # <<>>
    PROVE  /\ ConfirmValidData(st, st.pending[1].id) \in Stores
           /\ \A id : ConfirmValidData(st, id) =
                [st EXCEPT !.content = Overlay(@, st.pending[1].data), !.pending = Tail(@)]
<1>1. st.pending[1].data \in Transactions /\ Head(st.pending) = st.pending[1]
      /\ Tail(st.pending) \in Seq([id : Nat, data : Transactions]) /\ st.content \in Contents
  <2>1. st.pending \in Seq([id : Nat, data : Transactions]) /\ st.content \in Contents  BY DEF Stores
  <2>2. /\ st.pending[1] \in [id : Nat, data : Transactions] /\ Head(st.pending) = st.pending[1]
        /\ Tail(st.pending) \in Seq([id : Nat, data : Transactions])  BY <2>1, HeadFacts
  <2> QED  BY <2>1, <2>2
<1> QED  BY <1>1, OverlayType DEF ConfirmValidData, Stores

LEMMA FlagType ==
    ASSUME NEW st \in Stores, NEW flag \in BOOLEAN
    PROVE  /\ SetSaving(st, flag) \in Stores /\ ClearModified(st) \in Stores
           /\ SetSaving(st, flag) = [st EXCEPT !.saving = flag]
           /\ ClearModified(st) = [st EXCEPT !.modified = FALSE]
    BY DEF SetSaving, ClearModified, Stores

LEMMA StampType == Stamp \in Transactions
<1>1. Stamp \in [{VersionKey} -> Values \union {None}] /\ {VersionKey} \in SUBSET Keys
  BY StampAssumption, ValuesAssumption DEF Stamp
<1> QED  BY <1>1 DEF Transactions

-----------------------------------------------------------------------------
\* Signals.

LEMMA AppendNewType ==
    ASSUME NEW S, NEW s \in Seq(S), NEW name \in S
    PROVE  AppendNew(s, name) \in Seq(S) /\ NamesIn(AppendNew(s, name)) = NamesIn(s) \union {name}
<1>1. CASE \E i \in DOMAIN s : s[i] = name  BY <1>1 DEF AppendNew, NamesIn
<1>2. CASE ~\E i \in DOMAIN s : s[i] = name
  <2>1. /\ Append(s, name) \in Seq(S) /\ DOMAIN s = 1..Len(s)
        /\ DOMAIN Append(s, name) = 1..Len(s) + 1 /\ Len(s) \in Nat
        /\ \A i \in 1..Len(s) : Append(s, name)[i] = s[i]
        /\ Append(s, name)[Len(s) + 1] = name  OBVIOUS
  <2> QED  BY <2>1, <1>2 DEF NamesIn, AppendNew
<1> QED  BY <1>1, <1>2

LEMMA ConcatNames ==
    ASSUME NEW S, NEW s \in Seq(S), NEW t \in Seq(S)
    PROVE  s \o t \in Seq(S) /\ NamesIn(s \o t) = NamesIn(s) \union NamesIn(t)
<1>1. /\ s \o t \in Seq(S) /\ DOMAIN (s \o t) = 1..Len(s) + Len(t)
      /\ DOMAIN s = 1..Len(s) /\ DOMAIN t = 1..Len(t) /\ Len(s) \in Nat /\ Len(t) \in Nat
      /\ \A i \in 1..Len(s) + Len(t) : (s \o t)[i] = IF i <= Len(s) THEN s[i] ELSE t[i - Len(s)]  BY ConcatProperties
<1>2. \A i \in 1..Len(t) : i + Len(s) \in DOMAIN (s \o t) /\ (s \o t)[i + Len(s)] = t[i]  BY <1>1
<1>3. NamesIn(s \o t) \subseteq NamesIn(s) \union NamesIn(t)  BY <1>1 DEF NamesIn
<1>4. NamesIn(s) \subseteq NamesIn(s \o t)  BY <1>1 DEF NamesIn
<1>5. NamesIn(t) \subseteq NamesIn(s \o t)  BY <1>1, <1>2 DEF NamesIn
<1> QED  BY <1>1, <1>3, <1>4, <1>5

LEMMA SignalType ==
    ASSUME NEW sig \in SignalLists, NEW name \in SignalNames
    PROVE  /\ SignalUpdate(sig, name) \in SignalLists
           /\ SignalUpdateDeferred(sig, name) \in SignalLists
           /\ Names(SignalUpdate(sig, name)) = Names(sig) \union {name}
           /\ Names(SignalUpdateDeferred(sig, name)) = Names(sig) \union {name}
<1>1. sig.now \in Seq(SignalNames) /\ sig.later \in Seq(SignalNames)  BY DEF SignalLists
<1>2. /\ AppendNew(sig.now, name) \in Seq(SignalNames) /\ NamesIn(AppendNew(sig.now, name)) = NamesIn(sig.now) \union {name}
      /\ AppendNew(sig.later, name) \in Seq(SignalNames) /\ NamesIn(AppendNew(sig.later, name)) = NamesIn(sig.later) \union {name}
  BY <1>1, AppendNewType
<1>3. NamesIn(<<>>) = {} /\ <<>> \in Seq(SignalNames)  BY DEF NamesIn
<1>4. SignalUpdateDeferred(sig, name) \in SignalLists /\ Names(SignalUpdateDeferred(sig, name)) = Names(sig) \union {name}
  BY <1>1, <1>2 DEF SignalLists, Names, SignalUpdateDeferred
<1>5. CASE sig.now = <<>>  BY <1>1, <1>2, <1>3, <1>4, <1>5 DEF SignalLists, Names, SignalUpdate
<1>6. CASE sig.now # <<>>  BY <1>1, <1>2, <1>4, <1>6 DEF SignalLists, Names, SignalUpdate
<1> QED  BY <1>5, <1>6

LEMMA DeferredTaken ==
    ASSUME NEW sig \in SignalLists
    PROVE  /\ TakeDeferred(sig) \in SignalLists
           /\ Names(TakeDeferred(sig)) = Names(sig)
           /\ TakeDeferred(sig).later = <<>>
<1>1. NamesIn(<<>>) = {} /\ <<>> \in Seq(SignalNames)  BY DEF NamesIn
<1> QED  BY <1>1, ConcatNames DEF TakeDeferred, Names, SignalLists
-----------------------------------------------------------------------------
\* The type invariant.

Entries == [id : Nat, data : Transactions]

LEMMA PendingFacts ==
    ASSUME NEW st \in Stores
    PROVE  /\ st.pending \in Seq(Entries) /\ st.nextId \in Nat
           /\ Len(st.pending) \in Nat /\ DOMAIN st.pending = 1..Len(st.pending)
           /\ \A i \in DOMAIN st.pending :
                /\ st.pending[i] \in Entries
                /\ st.pending[i].id \in Nat /\ st.pending[i].data \in Transactions
           /\ \A f \in st.flushes : f.id \in Nat
<1>1. \A e \in Entries : e.id \in Nat /\ e.data \in Transactions  BY DEF Entries
<1> QED  BY <1>1, IndexFacts DEF Stores, Entries

LEMMA PutNumbers ==
    ASSUME NEW st \in Stores, NumbersAreNew(st), NEW t \in Transactions, NEW nx,
           nx.pending = Append(st.pending, [id |-> st.nextId, data |-> t]),
           nx.nextId = st.nextId + 1, nx.flushes = st.flushes
    PROVE  NumbersAreNew(nx)
<1> DEFINE e == [id |-> st.nextId, data |-> t]
<1>1. st.pending \in Seq(Entries) /\ st.nextId \in Nat /\ st.flushes \subseteq [id : Nat, call : {"save", "export"}]
  BY DEF Stores, Entries
<1>2. e \in Entries /\ e.id = st.nextId  BY <1>1 DEF Entries
<1> HIDE DEF e
<1>3. /\ Len(st.pending) \in Nat /\ DOMAIN st.pending = 1..Len(st.pending)
      /\ DOMAIN Append(st.pending, e) = 1..Len(st.pending) + 1
      /\ \A i \in 1..Len(st.pending) : Append(st.pending, e)[i] = st.pending[i]
      /\ Append(st.pending, e)[Len(st.pending) + 1] = e  BY <1>1, <1>2, AppendFacts
<1>4. nx.pending = Append(st.pending, e)  BY DEF e
<1>5. \A f \in nx.flushes : f.id < st.nextId /\ f.id < nx.nextId /\ f.id \in Nat  BY <1>1 DEF NumbersAreNew
<1> QED  BY <1>5, <1>1, <1>2, <1>3, <1>4, PendingFacts DEF NumbersAreNew, IsFlush

LEMMA FlushNumbers ==
    ASSUME NEW st \in Stores, NumbersAreNew(st), NEW call \in {"save", "export"}
    PROVE  NumbersAreNew(Flush(st, call))
<1> DEFINE nx == Flush(st, call)
<1>1. st.pending \in Seq(Entries) /\ st.nextId \in Nat /\ \A f \in st.flushes : f.id \in Nat  BY DEF Stores, Entries
<1>2. /\ nx.pending = st.pending /\ nx.nextId = st.nextId + 1
      /\ nx.flushes = st.flushes \union {[id |-> st.nextId, call |-> call]}  BY FlushType
<1> HIDE DEF nx
<1>3. NumbersAreNew(nx)  BY <1>1, <1>2, PendingFacts DEF NumbersAreNew, IsFlush
<1> QED  BY <1>3 DEF nx

\* Fewer pending transactions and flushes keep their numbers apart.
LEMMA FewerNumbers ==
    ASSUME NEW st \in Stores, NumbersAreNew(st), NEW nx,
           nx.pending = st.pending \/ (st.pending # <<>> /\ nx.pending = Tail(st.pending)),
           nx.nextId = st.nextId, nx.flushes \subseteq st.flushes
    PROVE  NumbersAreNew(nx)
<1>1. st.pending \in Seq(Entries)  BY DEF Stores, Entries
<1>2. \A f \in nx.flushes : f.id < nx.nextId  BY DEF NumbersAreNew
<1>3. CASE nx.pending = st.pending  BY <1>2, <1>3 DEF NumbersAreNew, IsFlush
<1>4. CASE st.pending # <<>> /\ nx.pending = Tail(st.pending)
  <2>1. /\ Len(st.pending) \in Nat /\ DOMAIN st.pending = 1..Len(st.pending)
        /\ DOMAIN nx.pending = 1..Len(st.pending) - 1
        /\ \A i \in 1..Len(st.pending) - 1 : nx.pending[i] = st.pending[i + 1]  BY <1>1, <1>4, HeadFacts
  <2>2. \A i \in DOMAIN nx.pending : i + 1 \in DOMAIN st.pending /\ nx.pending[i] = st.pending[i + 1]  BY <2>1
  <2>3. \A i, j \in DOMAIN nx.pending : i < j => nx.pending[i].id < nx.pending[j].id  BY <2>1, <2>2 DEF NumbersAreNew
  <2>4. \A i \in DOMAIN nx.pending : nx.pending[i].id < nx.nextId /\ ~IsFlush(nx, nx.pending[i].id)
    BY <2>2 DEF NumbersAreNew, IsFlush
  <2> QED  BY <1>2, <2>3, <2>4 DEF NumbersAreNew
<1> QED  BY <1>3, <1>4
LEMMA RaiseType ==
    ASSUME signals \in SignalLists, NEW name \in SignalNames, Raise(name)
    PROVE  signals' \in SignalLists /\ Names(signals') = Names(signals) \union {name}
    BY SignalType DEF Raise

LEMMA RaiseBothType ==
    ASSUME signals \in SignalLists, NEW first \in SignalNames, NEW second \in SignalNames,
           RaiseBoth(first, second)
    PROVE  signals' \in SignalLists /\ Names(signals') = Names(signals) \union {first, second}
BY SignalType DEF RaiseBoth

LEMMA RaiseAllType ==
    ASSUME signals \in SignalLists, NEW first \in SignalNames, NEW second \in SignalNames, NEW third \in SignalNames,
           RaiseAll(first, second, third)
    PROVE  signals' \in SignalLists /\ Names(signals') = Names(signals) \union {first, second, third}
<1> DEFINE one == SignalUpdate(signals, first)
           two == SignalUpdate(one, second)
<1>1. one \in SignalLists /\ Names(one) = Names(signals) \union {first}  BY SignalType
<1>2. signals' = SignalUpdate(two, third)  BY DEF RaiseAll
<1> HIDE DEF one
<1>3. two \in SignalLists /\ Names(two) = Names(one) \union {second}  BY <1>1, SignalType
<1> HIDE DEF two
<1>4. signals' \in SignalLists /\ Names(signals') = Names(two) \union {third}  BY <1>2, <1>3, SignalType
<1> QED  BY <1>1, <1>3, <1>4

LEMMA SentTypes ==
    ASSUME TypeOK, NEW t \in Transactions \union {None}
    PROVE  /\ SetDataCommand(store.nextId, t) \in Commands
           /\ Append(audioQ, SetDataCommand(store.nextId, t)) \in Seq(Commands)
BY AppendFacts DEF TypeOK, AudioTypeOK, Stores, SetDataCommand, Commands

LEMMA LogTypes ==
    ASSUME TypeOK, NEW t \in Transactions
    PROVE  /\ Append(log, t) \in Seq(Transactions) /\ Len(Append(log, t)) = Len(log) + 1
           /\ Len(log) \in Nat /\ confirmed \in Nat
BY AppendFacts DEF TypeOK

LEMMA StorePutTypes ==
    ASSUME TypeOK, NEW t \in Transactions, NEW mark \in BOOLEAN, StorePut(t, mark), UNCHANGED confirmed
    PROVE  /\ store' \in Stores /\ NumbersAreNew(store)'
           /\ audioQ' \in Seq(Commands)
           /\ log' \in Seq(Transactions) /\ confirmed' \in Nat
<1>1. store \in Stores /\ NumbersAreNew(store)  BY DEF TypeOK
<1>2. store' = Put(store, t, mark) /\ audioQ' = Append(audioQ, SetDataCommand(store.nextId, t)) /\ log' = Append(log, t)
  BY DEF StorePut
<1>3. /\ store'.pending = Append(store.pending, [id |-> store.nextId, data |-> t])
      /\ store'.nextId = store.nextId + 1 /\ store'.flushes = store.flushes  BY <1>1, <1>2, PutType
<1>4. audioQ' \in Seq(Commands)  BY <1>2, SentTypes
<1>5. log' \in Seq(Transactions) /\ confirmed' \in Nat  BY <1>2, LogTypes
<1> QED  BY <1>4, <1>5, <1>1, <1>2, PutType, <1>3, PutNumbers

LEMMA CrashTypes ==
    ASSUME TypeOK, NEW name \in {"put", "start", "confirm", "put_raw", "key", "progress", "exception"},
           Crash(name)
    PROVE  TypeOK'
<1>1. tick' \in Ticks /\ tick'.lists = tick.lists  BY DEF TypeOK, Crash, Ticks
<1> QED  BY <1>1 DEF TypeOK, AudioTypeOK, Crash, audioVars

LEMMA WindowTypes ==
    ASSUME NEW w \in Windows, NEW flag \in BOOLEAN, NEW ds \in SUBSET (ErrorSignals \union {"exit"})
    PROVE  /\ [w EXCEPT !.enabled = flag] \in Windows
           /\ [w EXCEPT !.progress = flag] \in Windows
           /\ [w EXCEPT !.dialogs = ds] \in Windows
           /\ [w EXCEPT !.visible = flag, !.dialogs = ds] \in Windows
           /\ [w EXCEPT !.dialogs = ds, !.visible = flag] \in Windows
           /\ [w EXCEPT !.dialogs = ds, !.enabled = flag] \in Windows
           /\ \A seen \in BOOLEAN : [w EXCEPT !.enabled = flag, !.visible = seen] \in Windows
    BY DEF Windows

LEMMA SessionTypes ==
    ASSUME NEW s \in Sessions, NEW flag \in BOOLEAN
    PROVE  /\ [s EXCEPT !.saving = flag] \in Sessions
           /\ [s EXCEPT !.importing = flag] \in Sessions
           /\ [s EXCEPT !.exporting = flag] \in Sessions
           /\ [s EXCEPT !.quitAfter = flag] \in Sessions
           /\ \A also \in BOOLEAN : [s EXCEPT !.saving = flag, !.quitAfter = also] \in Sessions
           /\ \A also \in BOOLEAN : [s EXCEPT !.saving = flag, !.exporting = also] \in Sessions
    BY DEF Sessions

LEMMA HideMainTypes ==
    ASSUME TypeOK, HideMain
    PROVE  windows' \in Windows /\ signals' \in SignalLists /\ Names(signals') = Names(signals) \union {"visibility"}
<1>1. windows.dialogs \ {"exit", "load_error"} \in SUBSET (ErrorSignals \union {"exit"}) /\ FALSE \in BOOLEAN
  BY DEF TypeOK, Windows
<1>2. signals' \in SignalLists /\ Names(signals') = Names(signals) \union {"visibility"}
  BY RaiseType DEF SignalNames, HideMain, TypeOK
<1> QED  BY <1>2, <1>1, WindowTypes DEF TypeOK, HideMain
LEMMA DataTypes ==
    /\ \A t \in Edits \union Imports \union {SandboxData, ModuleData, Stamp} : t \in Transactions
    BY EditsAssumption, ModuleDataAssumption, StampType

LEMMA StartSaveTypes ==
    ASSUME TypeOK, StartSave, UNCHANGED confirmed
    PROVE  /\ store' \in Stores /\ NumbersAreNew(store)'
           /\ audioQ' \in Seq(Commands)
           /\ log' \in Seq(Transactions) /\ confirmed' \in Nat
           /\ session' \in Sessions /\ signals' \in SignalLists
           /\ Names(signals') = Names(signals) \union {"start_save"}
<1>1. signals \in SignalLists /\ session \in Sessions  BY DEF TypeOK
<1> DEFINE quits == session.quitAfter \/ "exit" \in windows.dialogs
<1>2. quits \in BOOLEAN /\ session' = [session EXCEPT !.saving = TRUE, !.quitAfter = quits]
  BY <1>1 DEF StartSave, Sessions
<1> HIDE DEF quits
<1> QED  BY DataTypes, StorePutTypes, <1>1, RaiseType, <1>2, SessionTypes DEF StartSave, SignalNames

LEMMA UserTypes ==
    ASSUME TypeOK, UserStep \/ CloseCrashDialog
    PROVE  TypeOK'
<1>1. ASSUME NEW t \in Edits, Edit(t) PROVE TypeOK'
  <2>1. PICK mark \in BOOLEAN : StorePut(t, mark)  BY <1>1 DEF Edit
  <2>2. /\ store' \in Stores /\ NumbersAreNew(store)' /\ audioQ' \in Seq(Commands)
        /\ log' \in Seq(Transactions) /\ confirmed' \in Nat  BY DataTypes, StorePutTypes, <1>1, <2>1 DEF Edit
  <2> QED  BY <1>1, <2>2 DEF Edit, TypeOK, AudioTypeOK
<1>2. CASE EditFails  BY <1>2, CrashTypes DEF EditFails
<1>3. CASE Save  BY <1>3, StartSaveTypes DEF Save, TypeOK, AudioTypeOK
<1>4. CASE StartImport
  <2>1. session' \in Sessions  BY <1>4, SessionTypes DEF StartImport, TypeOK
  <2> QED  BY <1>4, <2>1, RaiseType DEF StartImport, TypeOK, AudioTypeOK, audioVars, SignalNames
<1>5. CASE StartExport
  <2> DEFINE st == Put(store, Stamp, FALSE)
  <2>1. /\ st \in Stores /\ NumbersAreNew(st) /\ store \in Stores
    <3>1. store \in Stores /\ NumbersAreNew(store) /\ Stamp \in Transactions /\ FALSE \in BOOLEAN
      BY DataTypes DEF TypeOK
    <3> QED  BY <3>1, PutType, PutNumbers
  <2>2. store' = [st EXCEPT !.saving = TRUE] /\ store' \in Stores  BY <1>5, <2>1, FlagType DEF StartExport
  <2>3. store' \in Stores /\ NumbersAreNew(store')  BY <2>1, <2>2, FewerNumbers DEF Stores
  <2>4. audioQ' \in Seq(Commands)  BY <1>5, DataTypes, SentTypes DEF StartExport
  <2>5. log' \in Seq(Transactions) /\ confirmed' \in Nat  BY <1>5, DataTypes, LogTypes DEF StartExport
  <2>6. session' \in Sessions  BY <1>5, SessionTypes DEF StartExport, TypeOK
  <2>7. signals' \in SignalLists  BY <1>5, RaiseType DEF SignalNames, StartExport, TypeOK
  <2>8. actions' \in Nat  BY <1>5 DEF StartExport, TypeOK
  <2> QED  BY <1>5, <2>3, <2>4, <2>5, <2>6, <2>7, <2>8 DEF StartExport, TypeOK, AudioTypeOK
<1>6. CASE StartFails  BY <1>6, CrashTypes DEF StartFails
<1>7. CASE TryExit
  <2>1. windows' \in Windows /\ signals' \in SignalLists  BY <1>7, WindowTypes, HideMainTypes DEF TryExit, TypeOK
  <2> QED  BY <1>7, <2>1 DEF TryExit, TypeOK, AudioTypeOK, audioVars, history
<1>8. CASE ExitCancel
  <2>1. windows.dialogs \ {"exit"} \in SUBSET (ErrorSignals \union {"exit"}) /\ TRUE \in BOOLEAN
    BY DEF TypeOK, Windows
  <2>2. windows' \in Windows  BY <2>1, WindowTypes, <1>8 DEF TypeOK, ExitCancel
  <2> QED  BY <1>8, <2>2 DEF ExitCancel, TypeOK, AudioTypeOK, audioVars, history
<1>9. CASE ExitDiscard  BY <1>9, HideMainTypes DEF ExitDiscard, TypeOK, AudioTypeOK, audioVars, history
<1>10. CASE ExitSave
  <2>1. windows.dialogs \ {"exit"} \in SUBSET (ErrorSignals \union {"exit"}) /\ TRUE \in BOOLEAN
    BY DEF TypeOK, Windows
  <2>2. windows' \in Windows  BY <2>1, WindowTypes, <1>10 DEF TypeOK, ExitSave
  <2> QED  BY <1>10, <2>2, StartSaveTypes DEF ExitSave, TypeOK, AudioTypeOK
<1>11. CASE ExitSaveFails  BY <1>11, CrashTypes DEF ExitSaveFails
<1>12. ASSUME NEW d \in windows.dialogs, CloseErrorDialog(d) PROVE TypeOK'
  <2> DEFINE rest == windows.dialogs \ {d}
  <2>1. /\ rest \in SUBSET (ErrorSignals \union {"exit"})
        /\ store \in Stores /\ session \in Sessions /\ windows \in Windows
        /\ TRUE \in BOOLEAN /\ FALSE \in BOOLEAN  BY DEF TypeOK, Windows
  <2>2. \/ /\ windows' = [windows EXCEPT !.dialogs = rest, !.visible = FALSE]
           /\ UNCHANGED <<store, session>>
        \/ /\ windows' = [windows EXCEPT !.dialogs = rest]
           /\ UNCHANGED <<store, session>>
        \/ /\ store' = SetSaving(store, FALSE)
           /\ session' = [session EXCEPT !.saving = FALSE]
           /\ windows' = [windows EXCEPT !.dialogs = rest, !.enabled = TRUE]
    BY <1>12 DEF CloseErrorDialog, ErrorSignals, TypeOK, Windows
  <2>3. windows' \in Windows  BY <2>1, <2>2, WindowTypes
  <2>4. session' \in Sessions  BY <2>1, <2>2, SessionTypes
  <2>5. store' \in Stores /\ NumbersAreNew(store')
    <3>1. CASE store' = store  BY <3>1 DEF TypeOK
    <3>2. CASE store' = SetSaving(store, FALSE)  BY <2>1, <3>2, FlagType, FewerNumbers DEF Stores, TypeOK
    <3> QED  BY <2>2, <3>1, <3>2
  <2> QED  BY <1>12, <2>3, <2>4, <2>5 DEF CloseErrorDialog, TypeOK, AudioTypeOK, audioVars, history
<1>13. CASE CloseCrashDialog
  <2>1. tick' \in Ticks /\ tick'.lists = tick.lists  BY <1>13 DEF CloseCrashDialog, TypeOK, Ticks
  <2> QED  BY <1>13, <2>1 DEF CloseCrashDialog, TypeOK, AudioTypeOK, audioVars, history
<1> QED  BY <1>1, <1>2, <1>3, <1>4, <1>5, <1>6, <1>7, <1>8, <1>9, <1>10, <1>11, <1>12, <1>13 DEF UserStep
LEMMA TaskShapes ==
    /\ \A op \in {"load", "sandbox", "save", "export", "import"} : [op |-> op] \in Tasks
    /\ [op |-> "import", begun |-> TRUE] \in Tasks
    /\ \A op \in {"save", "export"}, todo \in SUBSET Keys, got \in Transactions :
        [op |-> op, todo |-> todo, got |-> got] \in Tasks
    /\ \A task \in Tasks :
        "todo" \in DOMAIN task =>
            task \in [op : {"save", "export"}, todo : SUBSET Keys, got : Transactions]
<1>1. \A task \in [op : {"load", "sandbox", "save", "export", "import"}] : "todo" \notin DOMAIN task  OBVIOUS
<1>2. \A op \in {"save", "export"}, todo \in SUBSET Keys, got \in Transactions :
        [op |-> op, todo |-> todo, got |-> got] \in Tasks  BY DEF Tasks
<1> QED  BY <1>2, <1>1 DEF Tasks

LEMMA TaskQueueTypes ==
    ASSUME TypeOK
    PROVE  /\ \A op \in {"load", "sandbox", "save", "export", "import"} :
                Append(tasks, [op |-> op]) \in Seq(Tasks)
           /\ tasks # <<>> =>
                /\ Head(tasks) \in Tasks /\ Tail(tasks) \in Seq(Tasks)
                /\ \A task \in Tasks : <<task>> \o Tail(tasks) \in Seq(Tasks)
BY HeadFacts, ConcatProperties, TaskShapes, AppendFacts DEF TypeOK

LEMMA CommandTypesOf ==
    ASSUME TypeOK, tick.cmds # <<>>
    PROVE  /\ Command \in Replies /\ Tail(tick.cmds) \in Seq(Replies)
           /\ CommandDone => tick' \in Ticks /\ tick'.lists <= Len(outQ)
           /\ [tick EXCEPT !.lists = 0, !.cmds = <<>>] \in Ticks /\ 0 <= Len(outQ)
<1>1. tick \in Ticks /\ tick.cmds \in Seq(Replies)  BY DEF TypeOK, Ticks
<1>2. Head(tick.cmds) \in Replies /\ Tail(tick.cmds) \in Seq(Replies)  BY <1>1, HeadFacts
<1>3. <<>> \in Seq(Replies)  OBVIOUS
<1> DEFINE rest == Tail(tick.cmds)
<1>4. CommandDone => tick' = [tick EXCEPT !.cmds = rest]  BY DEF CommandDone
<1>5. rest \in Seq(Replies)  BY <1>2
<1> HIDE DEF rest
<1>6. CommandDone => tick' \in Ticks /\ tick'.lists = tick.lists  BY <1>1, <1>4, <1>5 DEF Ticks
<1>7. [tick EXCEPT !.lists = 0, !.cmds = <<>>] \in Ticks  BY <1>1, <1>3 DEF Ticks
<1> QED  BY <1>2, <1>6, <1>7 DEF Command, TypeOK

LEMMA ReplyShapes ==
    ASSUME NEW m \in Replies
    PROVE  /\ m.op \in {"confirm_valid_data", "progress", "progress_done"} => m.id \in Nat
           /\ m.op = "entry" => m.key \in Keys /\ m.value \in Values \union {None}
    BY DEF Replies

LEMMA KeptNumbers ==
    ASSUME TypeOK, NEW nx \in Stores,
           nx.pending = store.pending, nx.nextId = store.nextId, nx.flushes = store.flushes
    PROVE  NumbersAreNew(nx)
    BY FewerNumbers DEF TypeOK

LEMMA FlushDoneTypes ==
    ASSUME TypeOK, NEW id, NEW flag \in BOOLEAN
    PROVE  /\ FlushDone(store, id) \in Stores /\ NumbersAreNew(FlushDone(store, id))
           /\ SetSaving(FlushDone(store, id), flag) \in Stores
           /\ NumbersAreNew(SetSaving(FlushDone(store, id), flag))
<1> DEFINE st == FlushDone(store, id)
<1>1. store \in Stores /\ NumbersAreNew(store)  BY DEF TypeOK
<1>2. st \in Stores /\ st = [store EXCEPT !.flushes = {f \in @ : f.id # id}]  BY <1>1, FlushDoneType
<1> HIDE DEF st
<1>3. SetSaving(st, flag) \in Stores /\ SetSaving(st, flag) = [st EXCEPT !.saving = flag]  BY <1>2, FlagType
<1> QED  BY <1>2, <1>3, FewerNumbers, <1>1 DEF st, Stores

LEMMA CommandTypes ==
    ASSUME TypeOK, CommandStep
    PROVE  TypeOK'
<1>1. CASE NextList
  <2>1. outQ \in Seq(Seq(Replies)) /\ tick \in Ticks  BY DEF TypeOK
  <2>2. ASSUME outQ # <<>> PROVE Head(outQ) \in Seq(Replies) /\ Tail(outQ) \in Seq(Seq(Replies))
    BY <2>1, <2>2, HeadFacts
  <2>3. outQ # <<>> /\ Len(outQ) \in Nat  BY <2>1, <1>1 DEF TypeOK, Ticks, NextList
  <2>4. tick' \in Ticks /\ tick'.lists = tick.lists - 1
    <3> DEFINE next == Head(outQ)
               left == tick.lists - 1
    <3>1. next \in Seq(Replies) /\ left \in Nat  BY <1>1, <2>1, <2>2, <2>3 DEF NextList, Ticks
    <3>2. tick' = [tick EXCEPT !.lists = left, !.cmds = next]  BY <1>1 DEF NextList
    <3> HIDE DEF next, left
    <3> QED  BY <2>1, <3>1, <3>2 DEF left, Ticks
  <2>5. qState' \in {"normal", "flushing", "finished"} /\ outQ' \in Seq(Seq(Replies))
    BY <1>1, <2>2, <2>3 DEF NextList, TypeOK
  <2>6. tick'.lists <= Len(outQ')  BY <1>1, <2>1, <2>3, HeadFacts, <2>4 DEF NextList, Ticks, TypeOK
  <2> QED  BY <1>1, <2>4, <2>5, <2>6 DEF NextList, TypeOK, AudioTypeOK, audioVars, history
<1>2. CASE ConfirmFlush
  <2>1. tick' \in Ticks /\ tick'.lists <= Len(outQ)  BY <1>2, CommandTypesOf DEF ConfirmFlush, NextCommand, IsNext
  <2>2. store' \in Stores /\ NumbersAreNew(store')  BY <1>2, FlushDoneTypes DEF ConfirmFlush
  <2>3. tasks' \in Seq(Tasks)  BY <1>2, TaskQueueTypes DEF ConfirmFlush
  <2>4. session' \in Sessions  BY <1>2, SessionTypes DEF ConfirmFlush, TypeOK
  <2> QED  BY <1>2, <2>1, <2>2, <2>3, <2>4 DEF ConfirmFlush, TypeOK, AudioTypeOK, audioVars, history
<1>3. CASE Confirm
  <2>1. CASE ~CanConfirm(store, Command.id)  BY <1>3, <2>1, CrashTypes DEF Confirm
  <2>2. CASE CanConfirm(store, Command.id)
    <3>1. tick' \in Ticks /\ tick'.lists <= Len(outQ)  BY <1>3, <2>2, CommandTypesOf DEF Confirm, IsNext
    <3>2. store \in Stores /\ NumbersAreNew(store) /\ store.pending # <<>>  BY <2>2 DEF TypeOK, CanConfirm
    <3>3. /\ store' \in Stores
          /\ store' = [store EXCEPT !.content = Overlay(@, store.pending[1].data), !.pending = Tail(@)]
      BY <1>3, <2>2, <3>2, ConfirmType DEF Confirm, ConfirmValidData
    <3>4. NumbersAreNew(store')  BY <3>2, FewerNumbers, <3>3 DEF Stores
    <3> QED  BY <1>3, <2>2, <3>1, <3>3, <3>4 DEF Confirm, TypeOK, AudioTypeOK, audioVars
  <2> QED  BY <2>1, <2>2
<1>4. CASE Progress
  <2>1. tick' \in Ticks /\ tick'.lists <= Len(outQ)  BY <1>4, CommandTypesOf DEF Progress, NextCommand, IsNext
  <2> QED  BY <1>4, <2>1, RaiseType DEF Progress, TypeOK, AudioTypeOK, audioVars, history, SignalNames
<1>5. CASE ProgressDone
  <2>1. tick' \in Ticks /\ tick'.lists <= Len(outQ)  BY <1>5, CommandTypesOf DEF ProgressDone, NextCommand, IsNext
  <2>2. CASE Command.id \notin store.notifiers
    BY <1>5, <2>1, <2>2 DEF ProgressDone, TypeOK, AudioTypeOK, audioVars, history
  <2>3. CASE Command.id \in store.notifiers
    <3>1. signals' \in SignalLists  BY <1>5, <2>3, RaiseBothType DEF SignalNames, TypeOK, ProgressDone
    <3>2. store' = [store EXCEPT !.notifiers = @ \ {Command.id}] /\ store \in Stores
      BY <1>5, <2>3 DEF ProgressDone, TypeOK
    <3>3. store' \in Stores /\ store'.pending = store.pending /\ store'.nextId = store.nextId /\ store'.flushes = store.flushes
      BY <3>2 DEF Stores
    <3>4. NumbersAreNew(store')  BY <3>3, KeptNumbers
    <3> QED  BY <1>5, <2>1, <3>1, <3>3, <3>4 DEF ProgressDone, TypeOK, AudioTypeOK, audioVars, history
  <2> QED  BY <2>2, <2>3
<1>6. CASE ImportProgress
  <2>1. tick' \in Ticks /\ tick'.lists <= Len(outQ)  BY <1>6, CommandTypesOf DEF ImportProgress, NextCommand, IsNext
  <2> QED  BY <1>6, <2>1, RaiseType DEF ImportProgress, TypeOK, AudioTypeOK, audioVars, history, SignalNames
<1>7. CASE ImportedEntry
  <2>1. CASE store.saving \/ store.pending # <<>>  BY <1>7, <2>1, CrashTypes DEF ImportedEntry
  <2>2. CASE ~(store.saving \/ store.pending # <<>>)
    <3> DEFINE t == [k \in {Command.key} |-> Command.value]
    <3>1. tick' \in Ticks /\ tick'.lists <= Len(outQ) /\ Command \in Replies
      BY <1>7, <2>2, CommandTypesOf DEF ImportedEntry, IsNext
    <3>2. t \in Transactions
      <4>1. t \in [{Command.key} -> Values \union {None}] /\ {Command.key} \in SUBSET Keys
        BY <1>7, <3>1, ReplyShapes DEF ImportedEntry, IsNext
      <4> QED  BY <4>1 DEF Transactions
    <3>3. store \in Stores /\ store' = PutRaw(store, t)  BY <1>7, <2>2 DEF ImportedEntry, TypeOK
    <3> HIDE DEF t
    <3>4. store' \in Stores /\ store' = [store EXCEPT !.content = Overlay(@, t)]  BY <3>2, <3>3, PutRawType
    <3>5. NumbersAreNew(store')  BY <3>4, KeptNumbers, <3>3 DEF Stores
    <3> QED  BY <1>7, <2>2, <3>1, <3>4, <3>5 DEF ImportedEntry, TypeOK, AudioTypeOK, audioVars, history
  <2> QED  BY <2>1, <2>2
<1>8. CASE ImportError
  <2>1. tick' \in Ticks /\ tick'.lists <= Len(outQ)  BY <1>8, CommandTypesOf DEF ImportError, NextCommand, IsNext
  <2>2. signals' \in SignalLists  BY <1>8, RaiseBothType DEF SignalNames, ErrorSignals, TypeOK, ImportError
  <2> QED  BY <1>8, <2>1, <2>2 DEF ImportError, TypeOK, AudioTypeOK, audioVars, history
<1>9. CASE ImportFinished
  <2> DEFINE cleared == ClearModified(store)
             hidden == [k \in {GridKey} |-> store.content[GridKey]]
  <2>1. tick' \in Ticks /\ tick'.lists <= Len(outQ)  BY <1>9, CommandTypesOf DEF ImportFinished, NextCommand, IsNext
  <2>2. signals' \in SignalLists  BY <1>9, RaiseBothType DEF SignalNames, TypeOK, ImportFinished
  <2>3. cleared \in Stores /\ NumbersAreNew(cleared) /\ cleared.nextId = store.nextId
    <3>1. store \in Stores /\ FALSE \in BOOLEAN  BY DEF TypeOK
    <3>2. cleared \in Stores /\ cleared = [store EXCEPT !.modified = FALSE]  BY <3>1, FlagType
    <3> QED  BY <3>2, KeptNumbers, <3>1 DEF Stores
  <2>4. hidden \in Transactions
    <3>1. hidden \in [{GridKey} -> Values \union {None}] /\ {GridKey} \in SUBSET Keys
      BY StampAssumption DEF TypeOK, Stores, Contents
    <3> QED  BY <3>1 DEF Transactions
  <2>5. confirmed' \in Nat  BY <1>9 DEF ImportFinished, TypeOK
  <2>6. CASE View(store)[GridKey] = None
    BY <1>9, <2>1, <2>2, <2>3, <2>5, <2>6 DEF ImportFinished, TypeOK, AudioTypeOK
  <2>7. CASE View(store)[GridKey] # None
    <3>1. /\ store' = Put(cleared, hidden, FALSE)
          /\ audioQ' = Append(audioQ, SetDataCommand(store.nextId, hidden))
          /\ log' = Append(log, hidden)  BY <1>9, <2>7 DEF ImportFinished
    <3> HIDE DEF cleared, hidden
    <3>2. store' \in Stores /\ NumbersAreNew(store')  BY <2>3, <2>4, <3>1, PutType, PutNumbers
    <3>3. audioQ' \in Seq(Commands)  BY <2>4, <3>1, SentTypes
    <3>4. log' \in Seq(Transactions)  BY <2>4, <3>1, LogTypes
    <3> QED  BY <1>9, <2>1, <2>2, <2>5, <3>2, <3>3, <3>4 DEF ImportFinished, TypeOK, AudioTypeOK
  <2> QED  BY <2>6, <2>7
<1>10. CASE ExceptionShown  BY <1>10, CrashTypes DEF ExceptionShown
<1>11. CASE HaltUi  BY <1>11, CommandTypesOf, HideMainTypes DEF HaltUi, Ticks, TypeOK, AudioTypeOK, audioVars, history
<1> QED  BY <1>1, <1>2, <1>3, <1>4, <1>5, <1>6, <1>7, <1>8, <1>9, <1>10, <1>11 DEF CommandStep

LEMMA SignalDoneTypes ==
    ASSUME TypeOK, tick.sigs # <<>>
    PROVE  /\ SignalDone => tick' \in Ticks /\ tick'.lists <= Len(outQ)
           /\ Head(tick.sigs) = tick.sigs[1] /\ 1 \in DOMAIN tick.sigs
           /\ SignalDone => NamesIn(tick'.sigs) \subseteq NamesIn(tick.sigs)
<1>1. tick \in Ticks /\ tick.sigs \in Seq(SignalNames) /\ tick.lists <= Len(outQ)  BY DEF TypeOK, Ticks
<1> DEFINE rest == Tail(tick.sigs)
<1>2. /\ rest \in Seq(SignalNames) /\ Head(tick.sigs) = tick.sigs[1] /\ 1 \in DOMAIN tick.sigs
      /\ \A i \in DOMAIN rest : i + 1 \in DOMAIN tick.sigs /\ rest[i] = tick.sigs[i + 1]
  <2> DEFINE s == tick.sigs
  <2> HIDE DEF s
  <2> QED  BY HeadFacts, <1>1 DEF s
<1>3. SignalDone => tick' = [tick EXCEPT !.sigs = rest]  BY DEF SignalDone
<1> HIDE DEF rest
<1>4. SignalDone => tick' \in Ticks /\ tick'.lists = tick.lists /\ tick'.sigs = rest  BY <1>1, <1>2, <1>3 DEF Ticks
<1> QED  BY <1>1, <1>2, <1>4 DEF NamesIn

LEMMA OnStartTypes ==
    ASSUME TypeOK, NEW name, NEW call \in {"save", "export"}, OnStart(name, call)
    PROVE  TypeOK'
<1>1. windows' \in Windows  BY WindowTypes DEF TypeOK, OnStart
<1>2. store' \in Stores /\ NumbersAreNew(store')  BY FlushType, FlushNumbers DEF OnStart, FlushStore, TypeOK
<1>3. audioQ' \in Seq(Commands)  BY SentTypes DEF OnStart, FlushStore
<1> QED  BY <1>1, <1>2, <1>3, SignalDoneTypes DEF OnStart, TypeOK, AudioTypeOK, history, OnSignal

LEMMA SignalTypes ==
    ASSUME TypeOK, SignalStep
    PROVE  TypeOK'
<1> USE DEF OnSignal
<1>1. CASE StartUpdates
  <2> DEFINE taken == TakeDeferred(signals)
  <2>1. taken \in SignalLists /\ tick \in Ticks /\ tick.lists <= Len(outQ)  BY DeferredTaken DEF TypeOK
  <2>2. tick' = [tick EXCEPT !.pc = "updates", !.sigs = taken.now] /\ signals' = [taken EXCEPT !.now = <<>>]
    BY <1>1 DEF StartUpdates
  <2> HIDE DEF taken
  <2>3. tick' \in Ticks /\ tick'.lists = tick.lists  BY <2>1, <2>2 DEF Ticks, SignalLists
  <2>4. signals' \in SignalLists
    <3>1. <<>> \in Seq(SignalNames)  OBVIOUS
    <3> QED  BY <2>1, <2>2, <3>1 DEF SignalLists
  <2> QED  BY <1>1, <2>1, <2>3, <2>4 DEF StartUpdates, TypeOK, AudioTypeOK, audioVars, history
<1>2. CASE OnStartSave  BY <1>2, OnStartTypes DEF OnStartSave
<1>3. CASE OnStartExport  BY <1>3, OnStartTypes DEF OnStartExport
<1>4. CASE OnStartImport
  <2>1. windows' \in Windows  BY <1>4 DEF OnStartImport, TypeOK, Windows
  <2> QED  BY <1>4, <2>1, SignalDoneTypes, TaskQueueTypes DEF OnStartImport, TypeOK, AudioTypeOK, audioVars, history
<1>5. CASE OnSaveFinished
  <2> DEFINE cleared == ClearModified(store)
             seen == windows.visible /\ ~session.quitAfter
  <2>1. tick' \in Ticks /\ tick'.lists <= Len(outQ)  BY <1>5, SignalDoneTypes DEF OnSaveFinished
  <2>2. store \in Stores /\ windows \in Windows /\ session \in Sessions /\ signals \in SignalLists
        /\ TRUE \in BOOLEAN /\ FALSE \in BOOLEAN /\ {} \in SUBSET (ErrorSignals \union {"exit"})
        /\ seen \in BOOLEAN  BY DEF TypeOK, Windows, Sessions
  <2>3. cleared \in Stores /\ cleared = [store EXCEPT !.modified = FALSE]  BY <2>2, FlagType
  <2>4. store' = SetSaving(cleared, FALSE) /\ windows' = [windows EXCEPT !.enabled = TRUE, !.visible = seen]
    BY <1>5 DEF OnSaveFinished
  <2> HIDE DEF cleared, seen
  <2>5. store' \in Stores /\ store' = [cleared EXCEPT !.saving = FALSE]  BY <2>2, <2>3, <2>4, FlagType
  <2>6. NumbersAreNew(store')  BY <2>5, KeptNumbers, <2>2, <2>3 DEF Stores
  <2>7. windows' \in Windows  BY <2>2, <2>4, WindowTypes
  <2>8. session' \in Sessions  BY <1>5, <2>2, SessionTypes DEF OnSaveFinished
  <2>9. signals' \in SignalLists  BY <1>5, <2>2, SignalType DEF SignalNames, OnSaveFinished
  <2> QED  BY <1>5, <2>1, <2>5, <2>6, <2>7, <2>8, <2>9 DEF OnSaveFinished, TypeOK, AudioTypeOK, audioVars, history
<1>6. CASE OnExportFinished
  <2>1. tick' \in Ticks /\ tick'.lists <= Len(outQ)  BY <1>6, SignalDoneTypes DEF OnExportFinished
  <2>2. store \in Stores /\ windows \in Windows /\ session \in Sessions
        /\ TRUE \in BOOLEAN /\ FALSE \in BOOLEAN /\ {} \in SUBSET (ErrorSignals \union {"exit"})  BY DEF TypeOK
  <2>3. store' \in Stores /\ store' = [store EXCEPT !.saving = FALSE]  BY <1>6, <2>2, FlagType DEF OnExportFinished
  <2>4. NumbersAreNew(store')  BY <2>2, <2>3, KeptNumbers DEF Stores
  <2>5. windows' \in Windows  BY <1>6, <2>2, WindowTypes DEF OnExportFinished
  <2>6. session' \in Sessions  BY <1>6, <2>2, SessionTypes DEF OnExportFinished
  <2> QED  BY <1>6, <2>1, <2>3, <2>4, <2>5, <2>6 DEF OnExportFinished, TypeOK, AudioTypeOK, audioVars, history
<1>7. CASE OnImportFinished
  <2>1. windows' \in Windows  BY <1>7 DEF OnImportFinished, TypeOK, Windows
  <2>2. session' \in Sessions  BY <1>7 DEF OnImportFinished, TypeOK, Sessions
  <2> QED  BY <1>7, <2>1, <2>2, SignalDoneTypes DEF OnImportFinished, TypeOK, AudioTypeOK, audioVars, history
<1>8. CASE OnError
  <2>1. PICK name \in ErrorSignals :
          /\ tick.sigs # <<>> /\ SignalDone
          /\ windows' = [windows EXCEPT !.dialogs = @ \union {name}]
          /\ session' = [session EXCEPT !.quitAfter = @ /\ name # "save_error"]  BY <1>8 DEF OnError
  <2>2. tick' \in Ticks /\ tick'.lists <= Len(outQ)  BY <2>1, SignalDoneTypes
  <2> DEFINE more == windows.dialogs \union {name}
             quits == session.quitAfter /\ name # "save_error"
  <2>3. /\ more \in SUBSET (ErrorSignals \union {"exit"}) /\ quits \in BOOLEAN
        /\ windows \in Windows /\ session \in Sessions  BY DEF TypeOK, Windows, Sessions
  <2>4. windows' = [windows EXCEPT !.dialogs = more] /\ session' = [session EXCEPT !.quitAfter = quits]  BY <2>1
  <2> HIDE DEF more, quits
  <2>5. windows' \in Windows  BY <2>3, <2>4, WindowTypes
  <2>6. session' \in Sessions  BY <2>3, <2>4, SessionTypes
  <2> QED  BY <1>8, <2>2, <2>5, <2>6 DEF OnError, TypeOK, AudioTypeOK, audioVars, history
<1>9. CASE OnModule
  <2>1. windows' \in Windows  BY <1>9 DEF OnModule, TypeOK, Windows
  <2> QED  BY <1>9, <2>1, SignalDoneTypes DEF OnModule, TypeOK, AudioTypeOK, audioVars, history
<1>10. CASE OnProgress
  <2>1. CASE Crash("progress")  BY <2>1, CrashTypes
  <2>2. CASE ~Crash("progress")
    <3>1. PICK name \in {"progress_start", "progress_step", "progress_finished"} :
            /\ tick.sigs # <<>> /\ SignalDone
            /\ windows' = [windows EXCEPT !.progress = (name # "progress_finished")]
            /\ UNCHANGED <<audioVars, store, session, signals, tasks, outQ, qState, main, history>>
      BY <1>10, <2>2 DEF OnProgress
    <3>2. windows' \in Windows  BY WindowTypes, <3>1 DEF TypeOK
    <3> QED  BY <3>1, <3>2, SignalDoneTypes DEF TypeOK, AudioTypeOK, audioVars, history
  <2> QED  BY <2>1, <2>2
<1>11. CASE OnVisibility
  <2>1. tick' \in Ticks /\ tick'.lists <= Len(outQ)  BY <1>11, SignalDoneTypes DEF OnVisibility, TypeOK, Ticks
  <2> QED  BY <1>11, <2>1 DEF OnVisibility, TypeOK, AudioTypeOK, audioVars, history
<1>12. CASE EndTick
  <2>1. tick' \in Ticks /\ tick'.lists <= Len(outQ)  BY <1>12 DEF EndTick, TypeOK, Ticks
  <2> QED  BY <1>12, <2>1 DEF EndTick, TypeOK, AudioTypeOK, audioVars, history
<1> QED  BY <1>1, <1>2, <1>3, <1>4, <1>5, <1>6, <1>7, <1>8, <1>9, <1>10, <1>11, <1>12 DEF SignalStep

-----------------------------------------------------------------------------
\* Least and greatest elements: what CHOOSE finds in FirstKey, View and
\* Upcoming.

LEMMA LeastOf ==
    ASSUME NEW S \in SUBSET Nat, S # {}
    PROVE  \E k \in S : \A j \in S : k <= j
<1> DEFINE R == {ss \in Nat \X Nat : ss[1] < ss[2]}
<1>1. IsWellFoundedOn(R, Nat)  BY NatLessThanWellFounded DEF OpToRel
<1> HIDE DEF R
<1>2. PICK k \in S : \A j \in S : ~(<<j, k>> \in R)  BY <1>1, WFMin
<1>3. \A j \in S : ~(j < k)  BY <1>2 DEF R
<1> QED  BY <1>3

LEMMA GreatestOf ==
    ASSUME NEW n \in Nat, NEW S \in SUBSET (1..n), S # {}
    PROVE  \E k \in S : \A j \in S : j <= k
<1> DEFINE M == {n - i : i \in S}
<1>1. M \in SUBSET Nat /\ M # {}
  <2>1. \A i \in S : n - i \in Nat  OBVIOUS
  <2> QED  BY <2>1
<1>2. PICK m \in M : \A j \in M : m <= j  BY <1>1, LeastOf
<1>3. PICK k \in S : m = n - k  BY <1>2
<1>4. \A j \in S : n - k <= n - j  BY <1>2, <1>3
<1> QED  BY <1>3, <1>4

LEMMA FirstKeyIn ==
    ASSUME NEW S \in SUBSET Keys, S # {}
    PROVE  FirstKey(S) \in S /\ \A j \in S : FirstKey(S) <= j
BY KeysAssumption, LeastOf DEF FirstKey

\* The store shows the data of the last transaction that sets a key.
LEMMA ViewFacts ==
    ASSUME NEW st \in Stores, NEW k \in Keys
    PROVE  /\ Touching(st, k) = {} => View(st)[k] = st.content[k]
           /\ Touching(st, k) # {} =>
                \E i \in Touching(st, k) :
                    /\ \A j \in Touching(st, k) : j <= i
                    /\ View(st)[k] = st.pending[i].data[k]
           /\ \A i \in Touching(st, k) :
                /\ i \in DOMAIN st.pending /\ st.pending[i].data \in Transactions
                /\ k \in DOMAIN st.pending[i].data
<1> DEFINE I == Touching(st, k)
           i == CHOOSE i \in I : \A j \in I : j <= i
<1>1. \A j \in I : j \in DOMAIN st.pending /\ k \in DOMAIN st.pending[j].data  BY DEF Touching
<1>2. I \in SUBSET (1..Len(st.pending)) /\ Len(st.pending) \in Nat
      /\ \A j \in I : st.pending[j].data \in Transactions  BY <1>1, PendingFacts
<1> HIDE DEF I
<1>3. ASSUME I # {} PROVE i \in I /\ \A j \in I : j <= i  BY <1>2, <1>3, GreatestOf
<1> HIDE DEF i
<1> QED  BY <1>1, <1>2, <1>3 DEF I, View

LEMMA ViewType ==
    ASSUME NEW st \in Stores, NEW k \in Keys
    PROVE  View(st)[k] \in Values \union {None}
<1>1. CASE Touching(st, k) = {}  BY <1>1, ViewFacts DEF Stores, Contents
<1>2. CASE Touching(st, k) # {}
  <2>1. PICK i \in Touching(st, k) : View(st)[k] = st.pending[i].data[k]  BY <1>2, ViewFacts
  <2> QED  BY <2>1, TransactionType, ViewFacts
<1> QED  BY <1>1, <1>2

LEMMA TaskTypes ==
    ASSUME TypeOK, TaskStep
    PROVE  TypeOK'
<1> USE DEF TaskTurn, WriteTask, TaskDone
<1>1. /\ signals \in SignalLists /\ "progress_start" \in SignalNames /\ "progress_step" \in SignalNames
      /\ "progress_finished" \in SignalNames /\ "module" \in SignalNames /\ "au_import_finished" \in SignalNames
      /\ "import_error" \in SignalNames
      /\ \A op : ErrorOf(op) \in SignalNames /\ FinishedOf(op) \in SignalNames
  BY DEF TypeOK, SignalNames, ErrorSignals, ErrorOf, FinishedOf
<1>2. CASE LoadTask
  <2>1. signals' \in SignalLists  BY <1>1, <1>2, RaiseType DEF LoadTask
  <2>2. audioQ' \in Seq(Commands)  BY <1>2, AppendFacts DEF LoadCommand, Commands, TypeOK, AudioTypeOK, LoadTask
  <2>3. log' \in Seq(Transactions)  BY <1>2, DataTypes, LogTypes DEF LoadTask
  <2> QED  BY <1>2, <2>1, <2>2, <2>3, TaskQueueTypes DEF LoadTask, TaskUnchanged, TypeOK, AudioTypeOK
<1>3. CASE SandboxTask
  <2>1. signals' \in SignalLists  BY <1>1, <1>3, RaiseType DEF SandboxTask
  <2>2. store' \in Stores /\ store' = [store EXCEPT !.modified = FALSE] /\ store \in Stores
    BY <1>3, FlagType DEF SandboxTask, TypeOK
  <2>3. NumbersAreNew(store')  BY <2>2, KeptNumbers DEF Stores
  <2> QED  BY <1>3, <2>1, <2>2, <2>3, TaskQueueTypes DEF SandboxTask, TaskUnchanged, TypeOK, AudioTypeOK
<1>4. CASE StartWriting
  <2>1. tasks' \in Seq(Tasks)
    <3> DEFINE task == [op |-> Writing.op, todo |-> Written(Writing.op), got |-> [k \in {} |-> None]]
    <3>1. [k \in {} |-> None] \in Transactions  BY DEF Transactions
    <3>2. task \in Tasks  BY <3>1, TaskShapes, <1>4 DEF StartWriting, Writing, Written, ListedKeys
    <3>3. tasks' = <<task>> \o Tail(tasks) /\ tasks # <<>>  BY <1>4 DEF StartWriting, TaskYields
    <3> HIDE DEF task
    <3> QED  BY <3>2, <3>3, TaskQueueTypes
  <2> QED  BY <1>4, <2>1, <1>1, RaiseType DEF StartWriting, TaskUnchanged, TypeOK, AudioTypeOK
<1>5. CASE WriteError
  BY <1>1, RaiseBothType, RaiseAllType, <1>5, TaskQueueTypes DEF WriteError, TaskUnchanged, TypeOK, AudioTypeOK
<1>6. CASE WriteKey
  <2>1. PICK k \in Writing.todo :
          IF View(store)[k] = None
          THEN Crash("key")
          ELSE /\ TaskYields([Writing EXCEPT !.todo = @ \ {k},
                                             !.got = [j \in DOMAIN @ \union {k} |->
                                                       IF j = k THEN View(store)[k] ELSE @[j]]])
               /\ Raise("progress_step")
               /\ TaskUnchanged /\ UNCHANGED <<audioQ, store, file, log>>  BY <1>6 DEF WriteKey
  <2>2. CASE View(store)[k] = None  BY <2>1, <2>2, CrashTypes
  <2>3. CASE View(store)[k] # None
    <3> DEFINE todo == Writing.todo \ {k}
               got == [j \in DOMAIN Writing.got \union {k} |-> IF j = k THEN View(store)[k] ELSE Writing.got[j]]
               task == [Writing EXCEPT !.todo = todo, !.got = got]
    <3>1. Writing \in [op : {"save", "export"}, todo : SUBSET Keys, got : Transactions]
      BY <1>6, TaskShapes, TaskQueueTypes DEF WriteKey, Writing
    <3>2. k \in Keys /\ todo \in SUBSET Keys  BY <2>1, <3>1
    <3>3. got \in Transactions
      <4>1. got \in [DOMAIN Writing.got \union {k} -> Values \union {None}]
            /\ DOMAIN Writing.got \union {k} \in SUBSET Keys
        BY <3>2, ViewType, TransactionType, <3>1 DEF TypeOK, Contents
      <4> QED  BY <4>1 DEF Transactions
    <3>4. TaskYields(task)  BY <2>1, <2>3
    <3> HIDE DEF todo, got
    <3>5. task \in Tasks  BY <3>1, <3>2, <3>3 DEF Tasks
    <3> HIDE DEF task
    <3>6. tasks' \in Seq(Tasks)  BY <1>6, <3>4, <3>5, TaskQueueTypes DEF WriteKey, TaskYields
    <3> QED  BY <2>1, <2>3, <3>6, <1>1, RaiseType DEF TaskUnchanged, TypeOK, AudioTypeOK
  <2> QED  BY <2>2, <2>3
<1>7. CASE FinishWriting
  <2>1. signals' \in SignalLists  BY <1>1, RaiseBothType, <1>7 DEF FinishWriting
  <2> QED  BY <1>7, <2>1, TaskQueueTypes, TaskShapes DEF FinishWriting, TaskUnchanged, TypeOK, AudioTypeOK, Writing
<1>8. CASE StartImportTask
  <2>1. tasks' \in Seq(Tasks)  BY <1>8, TaskShapes, TaskQueueTypes DEF StartImportTask, TaskYields
  <2> QED  BY <1>8, <2>1, <1>1, RaiseType DEF StartImportTask, TaskUnchanged, TypeOK, AudioTypeOK
<1>9. CASE ImportTaskError
  BY <1>1, <1>9, RaiseAllType, TaskQueueTypes DEF ImportTaskError, TaskUnchanged, TypeOK, AudioTypeOK
<1>10. CASE ImportTaskPut
  <2>1. PICK t \in Imports :
          /\ store' = PutNotify(store, t)
          /\ audioQ' = Append(audioQ, SetDataCommand(store.nextId, t))
          /\ log' = Append(log, t)  BY <1>10 DEF ImportTaskPut
  <2>2. t \in Transactions /\ store \in Stores /\ NumbersAreNew(store)  BY DataTypes DEF TypeOK
  <2>3. /\ store' \in Stores
        /\ store'.pending = Append(store.pending, [id |-> store.nextId, data |-> t])
        /\ store'.nextId = store.nextId + 1 /\ store'.flushes = store.flushes  BY <2>1, <2>2, PutNotifyType
  <2>4. NumbersAreNew(store')  BY <2>2, <2>3, PutNumbers
  <2>5. audioQ' \in Seq(Commands)  BY <2>1, <2>2, SentTypes
  <2>6. log' \in Seq(Transactions)  BY <2>1, <2>2, LogTypes
  <2>7. tasks' \in Seq(Tasks)  BY <1>10, TaskQueueTypes DEF ImportTaskPut
  <2> QED  BY <1>10, <2>3, <2>4, <2>5, <2>6, <2>7 DEF ImportTaskPut, TaskUnchanged, TypeOK, AudioTypeOK
<1> QED  BY <1>2, <1>3, <1>4, <1>5, <1>6, <1>7, <1>8, <1>9, <1>10 DEF TaskStep

LEMMA SplitFacts ==
    ASSUME NEW S, NEW q \in Seq(S), NEW n \in 0..Len(q)
    PROVE  /\ SubSeq(q, 1, n) \in Seq(S) /\ Len(SubSeq(q, 1, n)) = n
           /\ \A i \in 1..n : SubSeq(q, 1, n)[i] = q[i]
           /\ SubSeq(q, n + 1, Len(q)) \in Seq(S) /\ Len(SubSeq(q, n + 1, Len(q))) = Len(q) - n
           /\ \A i \in 1..Len(q) - n : SubSeq(q, n + 1, Len(q))[i] = q[i + n]
           /\ Len(q) \in Nat /\ n \in Nat
BY SubSeqProperties

LEMMA TickTypes ==
    ASSUME TypeOK, Tick
    PROVE  TypeOK'
<1>1. PICK moved \in 0..Len(inQ) : \E lists \in 0..(Len(outQ) + moved) : TickStart(moved, lists)  BY DEF Tick
<1>2. PICK lists \in 0..(Len(outQ) + moved) : TickStart(moved, lists)  BY <1>1
<1>3. outQ \in Seq(Seq(Replies)) /\ inQ \in Seq(Seq(Replies) \ {<<>>}) /\ tick \in Ticks  BY DEF TypeOK, AudioTypeOK
<1>4. /\ SubSeq(inQ, 1, moved) \in Seq(Seq(Replies) \ {<<>>}) /\ Len(SubSeq(inQ, 1, moved)) = moved
      /\ SubSeq(inQ, moved + 1, Len(inQ)) \in Seq(Seq(Replies) \ {<<>>}) /\ moved \in Nat  BY <1>3, SplitFacts
<1>5. SubSeq(inQ, 1, moved) \in Seq(Seq(Replies))
  <2> DEFINE s == SubSeq(inQ, 1, moved)
             T == Seq(Replies)
  <2> HIDE DEF s, T
  <2> QED  BY <1>4 DEF s, T
<1>6. outQ' \in Seq(Seq(Replies)) /\ Len(outQ') = Len(outQ) + moved
  <2> DEFINE T == Seq(Replies)
  <2> HIDE DEF T
  <2> QED  BY ConcatProperties, <1>2, <1>3, <1>4, <1>5 DEF T, TickStart
<1>7. tick' \in Ticks /\ tick'.lists <= Len(outQ')
  <2>1. lists \in Nat /\ lists <= Len(outQ) + moved  BY <1>3, <1>4
  <2> QED  BY <1>6, <2>1, <1>3, <1>2 DEF Ticks, TickStart
<1> QED  BY <1>2, <1>4, <1>6, <1>7 DEF TickStart, TypeOK, AudioTypeOK, history

LEMMA SubmitTypes ==
    ASSUME TypeOK, NEW replies \in Seq(Replies), Submit(replies)
    PROVE  inQ' \in Seq(Seq(Replies) \ {<<>>}) /\ inPending' \in Seq(Replies)
BY AppendFacts DEF TypeOK, AudioTypeOK, Submit

LEMMA ReplyTypes ==
    /\ \A op \in {"confirm_valid_data", "progress", "progress_done"}, id \in Nat : ReplyId(op, id) \in Replies
    /\ \A op \in {"import_progress", "import_error", "import_finished", "exception", "halt"} : Reply(op) \in Replies
    /\ \A k \in DOMAIN ModuleData : Entry(k) \in Replies
BY ModuleDataAssumption, TransactionType DEF Replies, ReplyId, Reply, Entry

LEMMA PendingReplyTypes ==
    ASSUME TypeOK, NEW a \in Replies
    PROVE  /\ Append(inPending, a) \in Seq(Replies)
           /\ \A b \in Replies : inPending \o <<a, b>> \in Seq(Replies)
<1>1. inPending \in Seq(Replies)  BY DEF TypeOK, AudioTypeOK
<1>2. ASSUME NEW b \in Replies PROVE inPending \o <<a, b>> \in Seq(Replies)
  <2> DEFINE T == Replies
  <2> HIDE DEF T
  <2> QED  BY ConcatProperties, <1>1 DEF T
<1> QED  BY <1>2, <1>1, AppendFacts

Engines == [data : Contents, ready : BOOLEAN, doing : Doings, running : BOOLEAN,
            alive : BOOLEAN, validated : Nat]

LEMMA DoingFacts ==
    ASSUME NEW d \in Doings
    PROVE  /\ d.op \in {"idle", "set_data", "load", "entries"}
           /\ d.op = "set_data" => d.id \in Nat /\ d.data \in Transactions /\ d.todo \in SUBSET DOMAIN d.data
           /\ d.op \in {"load", "entries"} => d.todo \in SUBSET DOMAIN ModuleData /\ d = [op |-> d.op, todo |-> d.todo]
           /\ d = Idle <=> d.op = "idle"
           /\ Idle \in Doings /\ Idle.op = "idle"
BY DEF Doings, Idle

LEMMA DoingWork ==
    ASSUME NEW d \in Doings, NEW S,
           \/ d.op = "set_data" /\ S \in SUBSET DOMAIN d.data
           \/ d.op \in {"load", "entries"} /\ S \in SUBSET DOMAIN ModuleData
    PROVE  /\ [d EXCEPT !.todo = S] \in Doings /\ [d EXCEPT !.todo = S].todo = S
           /\ [d EXCEPT !.todo = S].op = d.op
           /\ d.op = "set_data" => [d EXCEPT !.todo = S].id = d.id /\ [d EXCEPT !.todo = S].data = d.data
BY TransactionType DEF Doings

LEMMA TakeFacts ==
    ASSUME TypeOK, audioQ # <<>>
    PROVE  /\ Head(audioQ) = audioQ[1] /\ audioQ[1] \in Commands
           /\ Tail(audioQ) \in Seq(Commands) /\ Len(audioQ) \in Nat \ {0} /\ DOMAIN audioQ = 1..Len(audioQ)
           /\ DOMAIN Tail(audioQ) = 1..Len(audioQ) - 1
           /\ \A i \in 1..Len(audioQ) - 1 : Tail(audioQ)[i] = audioQ[i + 1]
BY HeadFacts DEF TypeOK, AudioTypeOK

LEMMA CommandShapes ==
    ASSUME NEW c \in Commands
    PROVE  /\ c.op \in {"set_data", "load_module", "halt"}
           /\ c.op = "set_data" => c.id \in Nat /\ c.data \in Transactions \union {None}
           /\ c.op = "set_data" => c = SetDataCommand(c.id, c.data)
           /\ c.op = "load_module" <=> c = LoadCommand
           /\ c.op = "halt" <=> c = HaltCommand
    BY DEF Commands, SetDataCommand, LoadCommand, HaltCommand

LEMMA EngineFacts ==
    ASSUME TypeOK
    PROVE  /\ engine \in Engines /\ engine.doing \in Doings /\ engine.data \in Contents
           /\ engine.validated \in Nat /\ engine.alive \in BOOLEAN
    BY DEF TypeOK, AudioTypeOK, Engines

\* Setting a key of the engine's data.
LEMMA DataSet ==
    ASSUME NEW d \in Contents, NEW k \in Keys, NEW v \in Values \union {None}
    PROVE  [d EXCEPT ![k] = v] \in Contents
    BY DEF Contents

LEMMA ModuleDataTypes ==
    /\ ModuleData \in Transactions /\ DOMAIN ModuleData \subseteq Keys
    /\ \A k \in DOMAIN ModuleData : ModuleData[k] \in Values \union {None}
    BY ModuleDataAssumption, TransactionType

LEMMA AudioTypes ==
    ASSUME TypeOK, AudioStep
    PROVE  TypeOK'
<1> DEFINE Rest == UNCHANGED <<uiVars, main, history>>
<1>1. AudioNext /\ Rest  BY DEF AudioStep
<1>2. /\ engine \in Engines /\ engine.doing \in Doings /\ engine.data \in Contents /\ engine.validated \in Nat
      /\ audioQ \in Seq(Commands) /\ inPending \in Seq(Replies) /\ inQ \in Seq(Seq(Replies) \ {<<>>})
  BY EngineFacts DEF TypeOK, AudioTypeOK
<1>3. SUFFICES AudioTypeOK'  BY <1>1 DEF TypeOK, uiVars, history, NumbersAreNew, IsFlush
<1>4. SUFFICES /\ engine' \in Engines /\ audioQ' \in Seq(Commands)
               /\ inPending' \in Seq(Replies) /\ inQ' \in Seq(Seq(Replies) \ {<<>>})  BY DEF AudioTypeOK, Engines
<1>5. ASSUME TakeCommand
      PROVE  /\ audioQ' \in Seq(Commands) /\ Head(audioQ) \in Commands
             /\ Head(audioQ).op = "set_data" => Head(audioQ).id \in Nat /\ Head(audioQ).data \in Transactions \union {None}
  BY <1>5, TakeFacts, CommandShapes DEF TakeCommand
<1>6. CASE TakeHalt  BY <1>2, <1>5, <1>6 DEF TakeHalt, Engines
<1>7. CASE TakeToken  BY <1>5, <1>7, ReplyTypes, PendingReplyTypes, <1>2 DEF TakeToken
<1>8. CASE TakeSetData
  <2> DEFINE job == [op |-> "set_data", id |-> Head(audioQ).id, data |-> Head(audioQ).data,
                     todo |-> DOMAIN Head(audioQ).data]
  <2>1. job \in Doings  BY TransactionType, <1>5, <1>8 DEF Doings, TakeSetData
  <2>2. engine' = [engine EXCEPT !.doing = job]  BY <1>8 DEF TakeSetData
  <2> HIDE DEF job
  <2> QED  BY <1>2, <1>5, <1>8, <2>1, <2>2 DEF TakeSetData, Engines
<1>9. CASE SetDataKey
  <2> DEFINE k == FirstKey(engine.doing.todo)
             rest == engine.doing.todo \ {k}
             job == [engine.doing EXCEPT !.todo = rest]
             data == [engine.data EXCEPT ![k] = engine.doing.data[k]]
  <2>1. /\ engine.doing.op = "set_data" /\ engine.doing.id \in Nat /\ engine.doing.data \in Transactions
        /\ engine.doing.todo \in SUBSET DOMAIN engine.doing.data /\ engine.doing.todo # {}
    BY <1>2, <1>9, DoingFacts DEF SetDataKey
  <2>2. k \in engine.doing.todo /\ k \in Keys  BY <2>1, TransactionType, FirstKeyIn
  <2>3. job \in Doings  BY <1>2, <2>1, DoingWork
  <2>4. data \in Contents  BY <1>2, <2>1, <2>2, TransactionType, DataSet
  <2>5. engine' = [engine EXCEPT !.data = data, !.doing = job]  BY <1>2, <1>9 DEF SetDataKey, Engines
  <2> HIDE DEF job, data
  <2>6. engine' \in Engines  BY <1>2, <2>3, <2>4, <2>5 DEF Engines
  <2> QED  BY <1>2, <1>9, <2>6, SubmitTypes, <2>1, ReplyTypes, PendingReplyTypes DEF SetDataKey
<1>10. CASE SetDataDone
  <2>1. Idle \in Doings /\ engine.validated + 1 \in Nat
    <3>1. Idle \in Doings  BY <1>2, DoingFacts
    <3> QED  BY <1>2, <3>1
  <2> QED  BY <1>2, <1>10, <2>1, SubmitTypes, ReplyTypes, PendingReplyTypes, DoingFacts DEF SetDataDone, Engines
<1>11. CASE TakeLoad  BY <1>2, <1>5, <1>11 DEF Doings, TakeLoad, Engines
<1>12. CASE LoadStep
  <2> DEFINE k == FirstKey(engine.doing.todo)
             rest == engine.doing.todo \ {k}
             job == [engine.doing EXCEPT !.todo = rest]
             data == [engine.data EXCEPT ![k] = ModuleData[k]]
  <2>1. /\ engine.doing.op = "load"
        /\ engine.doing.todo \in SUBSET DOMAIN ModuleData /\ engine.doing.todo # {}
    BY <1>2, <1>12, DoingFacts DEF LoadStep
  <2>2. k \in engine.doing.todo /\ k \in Keys  BY <2>1, ModuleDataTypes, FirstKeyIn
  <2>3. job \in Doings  BY <1>2, <2>1, DoingWork
  <2>4. data \in Contents  BY <1>2, <2>1, <2>2, ModuleDataTypes, DataSet
  <2>5. engine' = [engine EXCEPT !.data = data, !.doing = job]  BY <1>2, <1>12 DEF LoadStep, Engines
  <2> HIDE DEF job, data
  <2>6. engine' \in Engines  BY <1>2, <2>3, <2>4, <2>5 DEF Engines
  <2> QED  BY <1>2, <1>12, <2>6, SubmitTypes, ReplyTypes, PendingReplyTypes DEF LoadStep
<1>13. CASE LoadError  BY <1>2, ReplyTypes, PendingReplyTypes, DoingFacts, <1>13, SubmitTypes DEF LoadError, Engines
<1>14. CASE LoadValidated
  <2>1. engine.validated + 1 \in Nat  BY <1>2
  <2> QED  BY <1>2, <1>14, <2>1 DEF LoadValidated, Engines, Doings
<1>15. CASE SendEntry
  <2> DEFINE k == FirstKey(engine.doing.todo)
             rest == engine.doing.todo \ {k}
             job == [engine.doing EXCEPT !.todo = rest]
  <2>1. /\ engine.doing.op = "entries"
        /\ engine.doing.todo \in SUBSET DOMAIN ModuleData /\ engine.doing.todo # {}
    BY <1>2, <1>15, DoingFacts DEF SendEntry
  <2>2. job \in Doings  BY <1>2, <2>1, DoingWork
  <2>3. engine' = [engine EXCEPT !.doing = job]  BY <1>2, <1>15 DEF SendEntry, Engines
  <2>4. inPending \o <<Entry(k), Reply("import_progress")>> \in Seq(Replies)
    BY ReplyTypes, PendingReplyTypes, <2>1, ModuleDataTypes, FirstKeyIn
  <2> HIDE DEF job
  <2> QED  BY <1>2, <1>15, <2>4, SubmitTypes, <2>2, <2>3 DEF SendEntry, Engines
<1>16. CASE LoadFinished
  BY <1>2, ReplyTypes, PendingReplyTypes, DoingFacts, <1>16, SubmitTypes DEF LoadFinished, Engines
<1>17. CASE ProduceSound  BY <1>2, <1>17, SubmitTypes DEF ProduceSound
<1>18. CASE EndAudio  BY <1>2, <1>18 DEF EndAudio, Engines
<1>19. CASE AudioException
  BY <1>2, ReplyTypes, PendingReplyTypes, DoingFacts, <1>19, SubmitTypes DEF AudioException, Engines
<1> QED
  BY <1>1, <1>6, <1>7, <1>8, <1>9, <1>10, <1>11, <1>12, <1>13, <1>14, <1>15, <1>16, <1>17, <1>18, <1>19 DEF AudioNext,
     AudioWork

LEMMA MainTypes ==
    ASSUME TypeOK, MainHalts \/ MainDone \/ Stopped
    PROVE  TypeOK'
<1>1. CASE MainHalts
  <2>1. actions' \in Nat  BY <1>1 DEF MainHalts, TypeOK
  <2>2. inQ' \in Seq(Seq(Replies) \ {<<>>})  BY ReplyTypes, <1>1, AppendFacts DEF TypeOK, AudioTypeOK, MainHalts
  <2>3. audioQ' \in Seq(Commands)  BY <1>1, AppendFacts DEF HaltCommand, Commands, TypeOK, AudioTypeOK, MainHalts
  <2> QED  BY <1>1, <2>1, <2>2, <2>3 DEF MainHalts, MainUnchanged, uiVars, TypeOK, AudioTypeOK, NumbersAreNew, IsFlush
<1>2. CASE MainDone  BY <1>2 DEF MainDone, MainUnchanged, uiVars, TypeOK, AudioTypeOK, NumbersAreNew, IsFlush
<1>3. CASE Stopped  BY <1>3 DEF Stopped, vars, audioVars, uiVars, history, TypeOK, AudioTypeOK, NumbersAreNew, IsFlush
<1> QED  BY <1>1, <1>2, <1>3

LEMMA StutterTypes ==
    ASSUME TypeOK, UNCHANGED vars
    PROVE  TypeOK'
    BY DEF vars, audioVars, uiVars, history, TypeOK, AudioTypeOK, NumbersAreNew, IsFlush

LEMMA InitTypes ==
    ASSUME Init
    PROVE  TypeOK
<1>1. NewStore \in Stores /\ NumbersAreNew(NewStore)  BY DEF Contents, NewStore, Stores, NumbersAreNew, IsFlush
<1>2. /\ store \in Stores /\ NumbersAreNew(store)
      /\ audioQ \in Seq(Commands) /\ tasks \in Seq(Tasks) /\ log \in Seq(Transactions)
  <2>1. CASE /\ store = NewStore /\ AudioInit(<<>>)
             /\ tasks = <<[op |-> "load"]>> /\ log = <<>>  BY <2>1, TaskShapes, <1>1 DEF AudioInit
  <2>2. CASE /\ store = Put(NewStore, SandboxData, TRUE)
             /\ AudioInit(<<SetDataCommand(0, SandboxData)>>)
             /\ tasks = <<[op |-> "sandbox"]>> /\ log = <<SandboxData>>
    <3>1. SandboxData \in Transactions /\ TRUE \in BOOLEAN  BY DataTypes
    <3>2. tasks \in Seq(Tasks)  BY <2>2, TaskShapes
    <3>3. audioQ \in Seq(Commands)  BY <3>1, <2>2 DEF SetDataCommand, Commands, AudioInit
    <3>4. log \in Seq(Transactions)  BY <2>2, <3>1
    <3> QED  BY <3>2, <3>3, <3>4, <1>1, <2>2, <3>1, PutType, PutNumbers
  <2> QED  BY <2>1, <2>2 DEF Init
<1>3. /\ inPending = <<>> /\ inQ = <<>>
      /\ engine = [data |-> [k \in Keys |-> None], ready |-> TRUE, doing |-> Idle,
                   running |-> TRUE, alive |-> TRUE, validated |-> 0]  BY DEF Init, AudioInit
<1>4. AudioTypeOK  BY <1>3, <1>2 DEF Doings, Idle, Contents, Engines, AudioTypeOK
<1> QED  BY <1>2, <1>4 DEF TypeOK, Init, Sessions, Windows, NoSignals, SignalLists, Ticks

LEMMA TypeStep ==
    ASSUME TypeOK, [Next]_vars
    PROVE  TypeOK'
BY AudioTypes, UserTypes, TickTypes, CommandTypes, SignalTypes, TaskTypes, MainTypes, StutterTypes DEF Next

\* TypeCorrect: the messages, the queues, the windows and the tasks keep
\* their shapes, and every number of a transaction or a flush that waits
\* was given out once.
THEOREM TypeCorrect == Spec => []TypeOK
<1>1. Init => TypeOK  BY InitTypes
<1>2. TypeOK /\ [Next]_vars => TypeOK'  BY TypeStep
<1> QED  BY <1>1, <1>2, PTL DEF Spec


-----------------------------------------------------------------------------
\* The replies on their way to the store.

\* The oldest first, as lists of lists: the list the user interface is
\* running, those in the queues, and the one not submitted yet.
Flow == <<tick.cmds>> \o outQ \o inQ \o <<inPending>>

Items(L) == UNION {{L[i][j] : j \in DOMAIN L[i]} : i \in DOMAIN L}

\* Reply a may not come before reply b: confirmations come in the order of
\* their numbers, and nothing of a module comes after the end of its load.
Bad(a, b) ==
    \/ a.op = "confirm_valid_data" /\ b.op = "confirm_valid_data" /\ b.id <= a.id
    \/ /\ a.op \in {"import_finished", "import_error"}
       /\ b.op \in {"entry", "import_progress", "import_finished", "import_error"}

Ordered(L) ==
    \A i1, i2 \in DOMAIN L : \A j1 \in DOMAIN L[i1], j2 \in DOMAIN L[i2] :
        (i1 < i2 \/ (i1 = i2 /\ j1 < j2)) => ~Bad(L[i1][j1], L[i2][j2])

\* The request to halt is a list of its own, so that what halt_ui drops
\* holds nothing else.
HaltsAlone(L) ==
    \A i \in DOMAIN L : \A j \in DOMAIN L[i] :
        L[i][j].op = "halt" => i < Len(L) /\ Len(L[i]) = 1

Sound(L) == Ordered(L) /\ HaltsAlone(L)

Flows == Seq(Seq(Replies))

LEMMA ItemFacts ==
    ASSUME NEW L \in Flows
    PROVE  /\ Len(L) \in Nat /\ DOMAIN L = 1..Len(L)
           /\ \A i \in DOMAIN L : L[i] \in Seq(Replies) /\ Len(L[i]) \in Nat /\ DOMAIN L[i] = 1..Len(L[i])
           /\ \A i \in DOMAIN L : \A j \in DOMAIN L[i] : L[i][j] \in Items(L) /\ L[i][j] \in Replies
           /\ \A m \in Items(L) : \E i \in DOMAIN L : \E j \in DOMAIN L[i] : m = L[i][j]
BY IndexFacts DEF Flows, Items

\* The first list is empty, and the next one takes its place.
LEMMA FirstDropped ==
    ASSUME NEW L \in Flows, NEW M \in Flows, L # <<>>, L[1] = <<>>,
           Len(M) = Len(L) - 1, \A i \in 1..Len(M) : M[i] = L[i + 1]
    PROVE  Items(M) = Items(L) /\ (Sound(L) => Sound(M))
<1>1. /\ Len(L) \in Nat /\ DOMAIN L = 1..Len(L) /\ Len(L) # 0
      /\ Len(M) \in Nat /\ DOMAIN M = 1..Len(M)  BY ItemFacts DEF Flows
<1>2. \A i \in 1..Len(M) : i + 1 \in DOMAIN L /\ M[i] = L[i + 1]  BY <1>1
<1>3. \A i \in DOMAIN L : i # 1 => i - 1 \in 1..Len(M) /\ L[i] = M[i - 1]  BY <1>1, <1>2
<1>4. Items(M) \subseteq Items(L)
  <2> SUFFICES ASSUME NEW i \in DOMAIN M, NEW j \in DOMAIN M[i] PROVE M[i][j] \in Items(L)  BY DEF Items
  <2>1. i + 1 \in DOMAIN L /\ M[i] = L[i + 1]  BY <1>1, <1>2
  <2> QED  BY <2>1 DEF Items
<1>5. Items(L) \subseteq Items(M)  BY <1>1, <1>3 DEF Items
<1>6. ASSUME Ordered(L) PROVE Ordered(M)
  <2> SUFFICES ASSUME NEW i1 \in DOMAIN M, NEW i2 \in DOMAIN M, NEW j1 \in DOMAIN M[i1], NEW j2 \in DOMAIN M[i2],
                      i1 < i2 \/ (i1 = i2 /\ j1 < j2)
               PROVE  ~Bad(M[i1][j1], M[i2][j2])  BY DEF Ordered
  <2>1. /\ i1 + 1 \in DOMAIN L /\ M[i1] = L[i1 + 1] /\ i2 + 1 \in DOMAIN L /\ M[i2] = L[i2 + 1]
        /\ i1 + 1 < i2 + 1 \/ (i1 + 1 = i2 + 1 /\ j1 < j2)  BY <1>1, <1>2
  <2> QED  BY <1>6, <2>1 DEF Ordered
<1>7. HaltsAlone(L) => HaltsAlone(M)  BY <1>1, <1>2 DEF HaltsAlone
<1> QED  BY <1>4, <1>5, <1>6, <1>7 DEF Sound

\* The first reply is taken.
LEMMA FirstTaken ==
    ASSUME NEW L \in Flows, NEW M \in Flows, L # <<>>, L[1] # <<>>,
           Len(M) = Len(L), M[1] = Tail(L[1]), \A i \in 2..Len(M) : M[i] = L[i]
    PROVE  /\ L[1][1] \in Replies
           /\ Items(L) = Items(M) \union {L[1][1]}
           /\ Sound(L) => Sound(M)
           /\ Sound(L) => \A m \in Items(M) : ~Bad(L[1][1], m)
<1>1. /\ Len(L) \in Nat /\ DOMAIN L = 1..Len(L) /\ Len(L) # 0 /\ 1 \in DOMAIN L
      /\ Len(M) = Len(L) /\ DOMAIN M = DOMAIN L  BY ItemFacts DEF Flows
<1>2. /\ 1 \in DOMAIN L[1] /\ L[1][1] \in Replies
      /\ Len(L[1]) \in Nat \ {0} /\ DOMAIN L[1] = 1..Len(L[1])
      /\ Len(M[1]) = Len(L[1]) - 1 /\ DOMAIN M[1] = 1..Len(L[1]) - 1
      /\ \A j \in DOMAIN M[1] : M[1][j] = L[1][j + 1]  BY HeadFacts, <1>1, ItemFacts
<1>3. \A j \in DOMAIN M[1] : j + 1 \in DOMAIN L[1] /\ M[1][j] = L[1][j + 1]  BY <1>2
<1>4. \A j \in DOMAIN L[1] : j # 1 => j - 1 \in DOMAIN M[1] /\ L[1][j] = M[1][j - 1]  BY <1>2
<1>5. \A i \in DOMAIN L : i # 1 => M[i] = L[i]  BY <1>1
<1>6. \A i \in DOMAIN M : \A j \in DOMAIN M[i] :
        \E j1 \in DOMAIN L[i] : M[i][j] = L[i][j1]
  <2> SUFFICES ASSUME NEW i \in DOMAIN M, NEW j \in DOMAIN M[i] PROVE \E j1 \in DOMAIN L[i] : M[i][j] = L[i][j1]
    OBVIOUS
  <2>1. CASE i = 1  BY <1>3, <2>1
  <2>2. CASE i # 1  BY <1>1, <1>5, <2>2
  <2> QED  BY <2>1, <2>2
<1>7. Items(M) \subseteq Items(L)  BY <1>1, <1>6 DEF Items
<1>8. L[1][1] \in Items(L)  BY <1>1, <1>2 DEF Items
<1>9. \A i \in DOMAIN L : \A j \in DOMAIN L[i] : L[i][j] = L[1][1] \/ \E j1 \in DOMAIN M[i] : M[i][j1] = L[i][j]
  <2> SUFFICES ASSUME NEW i \in DOMAIN L, NEW j \in DOMAIN L[i], L[i][j] # L[1][1]
               PROVE  \E j1 \in DOMAIN M[i] : M[i][j1] = L[i][j]  OBVIOUS
  <2>1. CASE i = 1  BY <1>4, <2>1
  <2>2. CASE i # 1  BY <1>1, <1>5, <2>2
  <2> QED  BY <2>1, <2>2
<1>10. Items(L) \subseteq Items(M) \union {L[1][1]}  BY <1>1, <1>9 DEF Items
<1>11. ASSUME Sound(L) PROVE Ordered(M)
  <2> SUFFICES ASSUME NEW i1 \in DOMAIN M, NEW i2 \in DOMAIN M, NEW j1 \in DOMAIN M[i1], NEW j2 \in DOMAIN M[i2],
                      i1 < i2 \/ (i1 = i2 /\ j1 < j2)
               PROVE  ~Bad(M[i1][j1], M[i2][j2])  BY DEF Ordered
  <2>1. CASE i1 = 1 /\ i2 = 1
    <3>1. j1 + 1 < j2 + 1  BY <1>2, <2>1
    <3> QED  BY <1>1, <1>11, <2>1, <3>1, <1>3 DEF Sound, Ordered
  <2>2. CASE i1 = 1 /\ i2 # 1  BY <1>1, <1>3, <1>5, <2>2, <1>11 DEF Sound, Ordered
  <2>3. CASE i1 # 1  BY <1>1, <1>5, <2>3, <1>11 DEF Sound, Ordered
  <2> QED  BY <2>1, <2>2, <2>3
<1>12. ASSUME Sound(L) PROVE HaltsAlone(M)
  <2> SUFFICES ASSUME NEW i \in DOMAIN M, NEW j \in DOMAIN M[i], M[i][j].op = "halt"
               PROVE  i < Len(M) /\ Len(M[i]) = 1  BY DEF HaltsAlone
  <2>1. CASE i = 1  BY <1>2, <2>1, <1>1, <1>12, <1>3 DEF Sound, HaltsAlone
  <2>2. CASE i # 1  BY <1>1, <1>5, <1>12, <2>2 DEF Sound, HaltsAlone
  <2> QED  BY <2>1, <2>2
<1>13. ASSUME Sound(L), NEW m \in Items(M) PROVE ~Bad(L[1][1], m)
  <2>1. PICK i \in DOMAIN M : \E j \in DOMAIN M[i] : m = M[i][j]  BY DEF Items
  <2>2. PICK j \in DOMAIN M[i] : m = M[i][j]  BY <2>1
  <2>3. CASE i = 1  BY <1>1, <1>2, <1>13, <1>3, <2>2, <2>3 DEF Sound, Ordered
  <2>4. CASE i # 1  BY <1>1, <1>2, <1>13, <1>5, <2>2, <2>4 DEF Sound, Ordered
  <2> QED  BY <2>3, <2>4
<1> QED  BY <1>2, <1>7, <1>8, <1>10, <1>11, <1>12, <1>13 DEF Sound

\* A reply is appended to the last list.
LEMMA LastGrown ==
    ASSUME NEW L \in Flows, NEW M \in Flows, NEW a \in Replies, L # <<>>, a.op # "halt",
           Len(M) = Len(L), M[Len(L)] = Append(L[Len(L)], a), \A i \in 1..Len(L) - 1 : M[i] = L[i]
    PROVE  /\ Items(M) = Items(L) \union {a}
           /\ Sound(L) /\ (\A m \in Items(L) : ~Bad(m, a)) => Sound(M)
<1> DEFINE n == Len(L)
           e == Len(L[n]) + 1
<1>1. /\ n \in Nat /\ DOMAIN L = 1..n /\ n # 0 /\ n \in DOMAIN L
      /\ Len(M) = n /\ DOMAIN M = DOMAIN L  BY ItemFacts DEF Flows
<1>2. /\ Len(L[n]) \in Nat /\ DOMAIN L[n] = 1..Len(L[n])
      /\ DOMAIN M[n] = 1..e /\ M[n][e] = a
      /\ \A j \in DOMAIN L[n] : M[n][j] = L[n][j]  BY AppendFacts, <1>1, ItemFacts
<1>3. \A i \in DOMAIN L : i # n => M[i] = L[i]  BY <1>1
<1>4. \A i \in DOMAIN M : \A j \in DOMAIN M[i] :
        \/ j \in DOMAIN L[i] /\ M[i][j] = L[i][j]
        \/ i = n /\ j = e /\ M[i][j] = a  BY <1>1, <1>2, <1>3
<1> HIDE DEF n, e
<1>5. a \in Items(M)  BY <1>1, <1>2 DEF e, Items
<1>6. ASSUME Ordered(L), \A m \in Items(L) : ~Bad(m, a) PROVE Ordered(M)
  <2> SUFFICES ASSUME NEW i1 \in DOMAIN M, NEW i2 \in DOMAIN M, NEW j1 \in DOMAIN M[i1], NEW j2 \in DOMAIN M[i2],
                      i1 < i2 \/ (i1 = i2 /\ j1 < j2)
               PROVE  ~Bad(M[i1][j1], M[i2][j2])  BY DEF Ordered
  <2>1. j1 \in DOMAIN L[i1] /\ M[i1][j1] = L[i1][j1]  BY <1>1, <1>2, <1>4 DEF e
  <2>2. CASE j2 \in DOMAIN L[i2] /\ M[i2][j2] = L[i2][j2]  BY <1>1, <1>6, <2>1, <2>2 DEF Ordered
  <2>3. CASE M[i2][j2] = a  BY <1>1, <2>1, <1>6, <2>3 DEF Items
  <2> QED  BY <1>4, <2>2, <2>3
<1>7. ASSUME HaltsAlone(L) PROVE HaltsAlone(M)
  <2> SUFFICES ASSUME NEW i \in DOMAIN M, NEW j \in DOMAIN M[i], M[i][j].op = "halt"
               PROVE  i < Len(M) /\ Len(M[i]) = 1  BY DEF HaltsAlone
  <2> QED  BY <1>1, <1>3, <1>7, <1>4 DEF HaltsAlone, n
<1> QED  BY <1>5, <1>6, <1>7, <1>1, <1>4, <1>2, <1>3 DEF Sound, Items

\* A new, empty list follows the last one.
LEMMA LastClosed ==
    ASSUME NEW L \in Flows, NEW M \in Flows,
           Len(M) = Len(L) + 1, M[Len(L) + 1] = <<>>, \A i \in 1..Len(L) : M[i] = L[i]
    PROVE  Items(M) = Items(L) /\ (Sound(L) => Sound(M))
<1>1. /\ Len(L) \in Nat /\ DOMAIN L = 1..Len(L) /\ DOMAIN M = 1..Len(L) + 1
      /\ DOMAIN M[Len(L) + 1] = {}  BY ItemFacts
<1>2. \A i \in DOMAIN M : i = Len(L) + 1 \/ (i \in DOMAIN L /\ M[i] = L[i])  BY <1>1
<1> QED  BY <1>1, <1>2 DEF Sound, Items, Ordered, HaltsAlone

\* A request to halt is put before what is not submitted yet.
LEMMA HaltInserted ==
    ASSUME NEW L \in Flows, NEW M \in Flows, NEW a \in Replies, L # <<>>, a.op = "halt",
           Len(M) = Len(L) + 1, M[Len(L)] = <<a>>, M[Len(L) + 1] = L[Len(L)],
           \A i \in 1..Len(L) - 1 : M[i] = L[i]
    PROVE  Items(M) = Items(L) \union {a} /\ (Sound(L) => Sound(M))
<1> DEFINE n == Len(L)
           from(i) == IF i = n + 1 THEN n ELSE i
<1>1. /\ n \in Nat /\ DOMAIN L = 1..n /\ n # 0 /\ n \in DOMAIN L /\ DOMAIN M = 1..n + 1
      /\ DOMAIN M[n] = {1} /\ M[n][1] = a /\ Len(M[n]) = 1 /\ n < Len(M)  BY ItemFacts DEF Flows
<1>2. \A i \in DOMAIN M : i # n => from(i) \in DOMAIN L /\ M[i] = L[from(i)]  BY <1>1
<1> HIDE DEF n, from
<1>3. Items(M) \subseteq Items(L) \union {a}
  <2> SUFFICES ASSUME NEW i \in DOMAIN M, NEW j \in DOMAIN M[i] PROVE M[i][j] \in Items(L) \union {a}  BY DEF Items
  <2>1. CASE i = n  BY <1>1, <2>1
  <2>2. CASE i # n  BY <1>2, <2>2 DEF Items
  <2> QED  BY <2>1, <2>2
<1>4. ASSUME Ordered(L) PROVE Ordered(M)
  <2> SUFFICES ASSUME NEW i1 \in DOMAIN M, NEW i2 \in DOMAIN M, NEW j1 \in DOMAIN M[i1], NEW j2 \in DOMAIN M[i2],
                      i1 < i2 \/ (i1 = i2 /\ j1 < j2)
               PROVE  ~Bad(M[i1][j1], M[i2][j2])  BY DEF Ordered
  <2>1. CASE i1 = n  BY <1>1, <2>1 DEF Bad
  <2>2. CASE i2 = n  BY <1>1, <2>2 DEF Bad
  <2>3. CASE i1 # n /\ i2 # n  BY <1>2, <2>3, <1>4, <1>1 DEF Ordered
  <2> QED  BY <2>1, <2>2, <2>3
<1>5. ASSUME HaltsAlone(L) PROVE HaltsAlone(M)
  <2> SUFFICES ASSUME NEW i \in DOMAIN M, NEW j \in DOMAIN M[i], M[i][j].op = "halt"
               PROVE  i < Len(M) /\ Len(M[i]) = 1  BY DEF HaltsAlone
  <2>1. CASE i = n  BY <1>1, <2>1
  <2>2. CASE i # n  BY <1>2, <1>5, <2>2, <1>1 DEF HaltsAlone, n, from
  <2> QED  BY <2>1, <2>2
<1> QED  BY <1>3, <1>4, <1>5, <1>1 DEF Sound, Items

LEMMA FlowShape ==
    ASSUME NEW T, NEW c \in T, NEW o \in Seq(T), NEW q \in Seq(T), NEW p \in T,
           NEW F, F = <<c>> \o o \o q \o <<p>>
    PROVE  /\ F \in Seq(T) /\ Len(F) = Len(o) + Len(q) + 2 /\ Len(o) \in Nat /\ Len(q) \in Nat
           /\ F[1] = c /\ F[Len(o) + Len(q) + 2] = p
           /\ \A i \in 1..Len(o) : F[i + 1] = o[i]
           /\ \A i \in 1..Len(q) : F[i + Len(o) + 1] = q[i]
<1> DEFINE A == <<c>> \o o
           B == A \o q
<1>1. F = B \o <<p>>  OBVIOUS
<1>2. <<c>> \in Seq(T) /\ <<p>> \in Seq(T) /\ Len(<<c>>) = 1 /\ Len(<<p>>) = 1 /\ Len(o) \in Nat /\ Len(q) \in Nat
      /\ <<c>>[1] = c /\ <<p>>[1] = p  OBVIOUS
<1>3. /\ A \in Seq(T) /\ Len(A) = Len(o) + 1
      /\ A[1] = c /\ \A i \in 1..Len(o) : A[i + 1] = o[i]  BY <1>2, ConcatProperties
<1> HIDE DEF A
<1>4. /\ B \in Seq(T) /\ Len(B) = Len(o) + Len(q) + 1
      /\ \A i \in 1..Len(A) : B[i] = A[i]
      /\ \A i \in 1..Len(q) : B[i + Len(A)] = q[i]
  <2>1. /\ B \in Seq(T) /\ Len(B) = Len(A) + Len(q)
        /\ \A i \in 1..Len(A) + Len(q) : B[i] = IF i <= Len(A) THEN A[i] ELSE q[i - Len(A)]  BY <1>3, ConcatProperties
  <2> HIDE DEF B
  <2>2. Len(A) \in Nat /\ Len(B) = Len(o) + Len(q) + 1  BY <1>2, <1>3, <2>1
  <2>3. \A i \in 1..Len(q) : B[i + Len(A)] = q[i]
    <3> SUFFICES ASSUME NEW i \in 1..Len(q) PROVE B[i + Len(A)] = q[i]  OBVIOUS
    <3>1. i + Len(A) \in 1..Len(A) + Len(q) /\ ~(i + Len(A) <= Len(A)) /\ (i + Len(A)) - Len(A) = i  BY <1>2, <2>2
    <3> QED  BY <2>1, <3>1
  <2> QED  BY <2>1, <2>2, <2>3, <1>2
<1> HIDE DEF B
<1>5. /\ F \in Seq(T) /\ Len(F) = Len(o) + Len(q) + 2
      /\ \A i \in 1..Len(B) : F[i] = B[i]
      /\ F[1 + Len(B)] = p  BY <1>1, <1>2, <1>4, ConcatProperties
<1>6. \A i \in 1..Len(o) : F[i + 1] = o[i]
  <2> SUFFICES ASSUME NEW i \in 1..Len(o) PROVE F[i + 1] = o[i]  OBVIOUS
  <2> QED  BY <1>4, <1>5, <1>2, <1>3
<1>7. \A i \in 1..Len(q) : F[i + Len(o) + 1] = q[i]
  <2> SUFFICES ASSUME NEW i \in 1..Len(q) PROVE F[i + Len(o) + 1] = q[i]  OBVIOUS
  <2> QED  BY <1>5, <1>2, <1>3, <1>4
<1> QED  BY <1>2, <1>5, <1>6, <1>7, <1>3, <1>4

Lists == Seq(Replies)

\* The same of the state after a step.
LEMMA FlowPartsNext ==
    ASSUME TypeOK'
    PROVE  /\ tick'.cmds \in Lists /\ outQ' \in Seq(Lists) /\ inQ' \in Seq(Lists) /\ inPending' \in Lists
           /\ Flow' \in Flows /\ Flow' \in Seq(Lists) /\ Flow' # <<>>
           /\ Len(outQ') \in Nat /\ Len(inQ') \in Nat /\ Len(Flow') = Len(outQ') + Len(inQ') + 2
           /\ Flow'[1] = tick'.cmds /\ Flow'[Len(outQ') + Len(inQ') + 2] = inPending'
           /\ \A i \in 1..Len(outQ') : Flow'[i + 1] = outQ'[i]
           /\ \A i \in 1..Len(inQ') : Flow'[i + Len(outQ') + 1] = inQ'[i]
<1>1. tick'.cmds \in Lists /\ outQ' \in Seq(Lists) /\ inPending' \in Lists  BY DEF TypeOK, AudioTypeOK, Ticks, Lists
<1>2. inQ' \in Seq(Lists)  BY DEF TypeOK, AudioTypeOK, Lists
<1>3. /\ Flow' \in Seq(Lists) /\ Len(outQ') \in Nat /\ Len(inQ') \in Nat /\ Len(Flow') = Len(outQ') + Len(inQ') + 2
      /\ Flow'[1] = tick'.cmds /\ Flow'[Len(outQ') + Len(inQ') + 2] = inPending'
      /\ \A i \in 1..Len(outQ') : Flow'[i + 1] = outQ'[i]
      /\ \A i \in 1..Len(inQ') : Flow'[i + Len(outQ') + 1] = inQ'[i]  BY <1>1, <1>2, FlowShape DEF Flow
<1> QED  BY <1>1, <1>2, <1>3 DEF Flows, Lists

LEMMA FlowParts ==
    ASSUME TypeOK
    PROVE  /\ tick.cmds \in Lists /\ outQ \in Seq(Lists) /\ inQ \in Seq(Lists) /\ inPending \in Lists
           /\ Flow \in Flows /\ Flow \in Seq(Lists) /\ Flow # <<>>
           /\ Len(outQ) \in Nat /\ Len(inQ) \in Nat /\ Len(Flow) = Len(outQ) + Len(inQ) + 2
           /\ Flow[1] = tick.cmds /\ Flow[Len(outQ) + Len(inQ) + 2] = inPending
           /\ \A i \in 1..Len(outQ) : Flow[i + 1] = outQ[i]
           /\ \A i \in 1..Len(inQ) : Flow[i + Len(outQ) + 1] = inQ[i]
<1>1. tick.cmds \in Lists /\ outQ \in Seq(Lists) /\ inPending \in Lists  BY DEF TypeOK, AudioTypeOK, Ticks, Lists
<1>2. inQ \in Seq(Lists)
  <2>1. inQ \in Seq(Lists \ {<<>>})  BY DEF TypeOK, AudioTypeOK, Lists
  <2> QED  BY <2>1
<1>3. /\ Flow \in Seq(Lists) /\ Len(outQ) \in Nat /\ Len(inQ) \in Nat /\ Len(Flow) = Len(outQ) + Len(inQ) + 2
      /\ Flow[1] = tick.cmds /\ Flow[Len(outQ) + Len(inQ) + 2] = inPending
      /\ \A i \in 1..Len(outQ) : Flow[i + 1] = outQ[i]
      /\ \A i \in 1..Len(inQ) : Flow[i + Len(outQ) + 1] = inQ[i]  BY <1>1, <1>2, FlowShape DEF Flow
<1>4. Flow \in Flows /\ Flow # <<>>  BY <1>3 DEF Flows, Lists
<1> QED  BY <1>1, <1>2, <1>3, <1>4

\* What a step does to the replies on their way.
FlowKept == Items(Flow)' = Items(Flow) /\ (Sound(Flow) => Sound(Flow)')
FlowGrows(a) ==
    /\ Items(Flow)' = Items(Flow) \union {a}
    /\ Sound(Flow) /\ (\A m \in Items(Flow) : ~Bad(m, a)) => Sound(Flow)'
FlowGrowsBy(a, b) ==
    /\ Items(Flow)' = Items(Flow) \union {a, b}
    /\ Sound(Flow) /\ (\A m \in Items(Flow) : ~Bad(m, a) /\ ~Bad(m, b)) /\ ~Bad(a, b) => Sound(Flow)'
FlowTakes(a) ==
    /\ a \in Replies
    /\ Items(Flow) = Items(Flow)' \union {a}
    /\ Sound(Flow) => Sound(Flow)' /\ \A m \in Items(Flow)' : ~Bad(a, m)

LEMMA FlowUnchanged ==
    ASSUME tick'.cmds = tick.cmds, UNCHANGED <<outQ, inQ, inPending>>
    PROVE  FlowKept
<1>1. Flow' = Flow  BY DEF Flow
<1> QED  BY <1>1 DEF FlowKept, Items, Sound, Ordered, HaltsAlone, Bad

LEMMA FlowMoved ==
    ASSUME TypeOK, TypeOK', Tick
    PROVE  FlowKept
<1>1. PICK moved \in 0..Len(inQ) :
        /\ outQ' = outQ \o SubSeq(inQ, 1, moved)
        /\ inQ' = SubSeq(inQ, moved + 1, Len(inQ))
        /\ tick'.cmds = tick.cmds /\ inPending' = inPending
  <2>1. PICK moved \in 0..Len(inQ) : \E lists \in 0..(Len(outQ) + moved) : TickStart(moved, lists)  BY DEF Tick
  <2>2. PICK lists \in 0..(Len(outQ) + moved) : TickStart(moved, lists)  BY <2>1
  <2> QED  BY <2>2 DEF TickStart, Ticks, TypeOK
<1>2. outQ' \o inQ' = outQ \o inQ
  <2> DEFINE a == SubSeq(inQ, 1, moved)
             b == SubSeq(inQ, moved + 1, Len(inQ))
  <2>1. /\ outQ \in Seq(Lists) /\ inQ \in Seq(Lists) /\ Len(outQ) \in Nat  BY FlowParts
  <2>2. /\ a \in Seq(Lists) /\ Len(a) = moved /\ \A i \in 1..moved : a[i] = inQ[i]
        /\ b \in Seq(Lists) /\ Len(b) = Len(inQ) - moved /\ \A i \in 1..Len(inQ) - moved : b[i] = inQ[i + moved]
        /\ moved \in Nat /\ Len(inQ) \in Nat  BY <2>1, SplitFacts
  <2>3. outQ' = outQ \o a /\ inQ' = b  BY <1>1
  <2> HIDE DEF a, b
  <2>4. a \o b = inQ
    <3>1. /\ a \o b \in Seq(Lists) /\ Len(a \o b) = Len(inQ)
          /\ \A i \in 1..moved : (a \o b)[i] = a[i]
          /\ \A i \in 1..Len(inQ) - moved : (a \o b)[i + moved] = b[i]  BY <2>2, ConcatProperties
    <3>2. \A i \in 1..Len(inQ) : (a \o b)[i] = inQ[i]
      <4> SUFFICES ASSUME NEW i \in 1..Len(inQ) PROVE (a \o b)[i] = inQ[i]  OBVIOUS
      <4>1. CASE i <= moved  BY <2>2, <3>1, <4>1
      <4>2. CASE ~(i <= moved)
        <5>1. PICK j \in 1..Len(inQ) - moved : i = j + moved  BY <2>2, <4>2
        <5> QED  BY <5>1, <2>2, <3>1
      <4> QED  BY <4>1, <4>2
    <3> QED  BY <2>1, <3>1, <3>2, SeqEqual
  <2>5. (outQ \o a) \o b = outQ \o (a \o b)
    <3>1. outQ \in Seq(Lists) /\ a \in Seq(Lists) /\ b \in Seq(Lists)  BY <2>1, <2>2
    <3> QED  BY <3>1, ConcatAssociative
  <2> QED  BY <2>3, <2>4, <2>5
<1>3. Flow' = Flow
  <2>1. /\ outQ \in Seq(Lists) /\ inQ \in Seq(Lists) /\ outQ' \in Seq(Lists) /\ inQ' \in Seq(Lists)
        /\ <<tick.cmds>> \in Seq(Lists)  BY FlowParts, FlowPartsNext
  <2>2. (<<tick.cmds>> \o outQ) \o inQ = <<tick.cmds>> \o (outQ \o inQ)  BY <2>1, ConcatAssociative
  <2>3. (<<tick.cmds>> \o outQ') \o inQ' = <<tick.cmds>> \o (outQ' \o inQ')  BY <2>1, ConcatAssociative
  <2> QED  BY <1>1, <1>2, <2>2, <2>3 DEF Flow
<1> QED  BY <1>3 DEF FlowKept, Items, Sound, Ordered, HaltsAlone, Bad

LEMMA FlowListTaken ==
    ASSUME TypeOK, TypeOK', NextList
    PROVE  FlowKept
<1> DEFINE a == Len(outQ)
           b == Len(inQ)
<1>1. /\ Flow \in Flows /\ Flow # <<>> /\ a \in Nat /\ b \in Nat /\ Len(Flow) = a + b + 2
      /\ Flow[1] = tick.cmds /\ Flow[a + b + 2] = inPending
      /\ \A i \in 1..a : Flow[i + 1] = outQ[i]
      /\ \A i \in 1..b : Flow[i + a + 1] = inQ[i]
      /\ outQ \in Seq(Lists)  BY FlowParts
<1>2. tick \in Ticks /\ tick.lists \in Nat /\ tick.lists <= a /\ tick.lists > 0 /\ tick.cmds = <<>>
  BY DEF NextList, TypeOK, Ticks
<1>3. /\ Head(outQ) = outQ[1] /\ Len(Tail(outQ)) = a - 1
      /\ \A i \in 1..a - 1 : Tail(outQ)[i] = outQ[i + 1]  BY <1>1, HeadFacts, <1>2
<1>4. /\ outQ' = Tail(outQ) /\ tick'.cmds = Head(outQ)
      /\ inQ' = inQ /\ inPending' = inPending  BY <1>2 DEF NextList, audioVars, Ticks
<1>5. /\ Flow' \in Flows /\ Len(Flow') = a + b + 1
      /\ Flow'[1] = outQ[1] /\ Flow'[a + b + 1] = inPending
      /\ \A i \in 1..a - 1 : Flow'[i + 1] = outQ[i + 1]
      /\ \A i \in 1..b : Flow'[i + a] = inQ[i]
  <2> QED  BY <1>3, <1>4, FlowPartsNext, <1>1
<1> HIDE DEF a, b
<1>6. \A i \in 1..a + b + 1 : Flow'[i] = Flow[i + 1]
  <2> SUFFICES ASSUME NEW i \in 1..a + b + 1 PROVE Flow'[i] = Flow[i + 1]  OBVIOUS
  <2>1. CASE i = 1  BY <1>1, <1>5, <2>1, <1>2
  <2>2. CASE i > 1 /\ i <= a
    <3>1. i - 1 \in 1..a - 1 /\ (i - 1) + 1 = i /\ i \in 1..a  BY <1>1, <2>2
    <3> QED  BY <1>1, <1>5, <3>1
  <2>3. CASE i > a /\ i <= a + b
    <3>1. i - a \in 1..b /\ (i - a) + a = i /\ (i - a) + a + 1 = i + 1  BY <1>1, <2>3
    <3> QED  BY <1>1, <1>5, <3>1
  <2>4. CASE i = a + b + 1  BY <1>1, <2>4, <1>5
  <2> QED  BY <1>1, <2>1, <2>2, <2>3, <2>4
<1>7. Len(Flow') = Len(Flow) - 1 /\ \A i \in 1..Len(Flow') : Flow'[i] = Flow[i + 1]  BY <1>1, <1>5, <1>6
<1>8. Items(Flow)' = Items(Flow') /\ Sound(Flow)' = Sound(Flow')  BY DEF Items, Sound, Ordered, HaltsAlone, Bad
<1> QED  BY <1>8, <1>1, <1>2, <1>5, <1>7, FirstDropped DEF FlowKept

LEMMA FlowCommandTaken ==
    ASSUME TypeOK, TypeOK', tick.cmds # <<>>, tick'.cmds = Tail(tick.cmds), UNCHANGED <<outQ, inQ, inPending>>
    PROVE  FlowTakes(Command)
<1> DEFINE a == Len(outQ)
           b == Len(inQ)
<1>1. /\ Flow \in Flows /\ Flow # <<>> /\ a \in Nat /\ b \in Nat /\ Len(Flow) = a + b + 2
      /\ Flow[1] = tick.cmds /\ Flow[a + b + 2] = inPending
      /\ \A i \in 1..a : Flow[i + 1] = outQ[i]
      /\ \A i \in 1..b : Flow[i + a + 1] = inQ[i]
      /\ tick.cmds \in Seq(Replies)  BY FlowParts DEF Lists
<1>2. /\ Flow' \in Flows /\ Len(Flow') = a + b + 2
      /\ Flow'[1] = Tail(tick.cmds) /\ Flow'[a + b + 2] = inPending
      /\ \A i \in 1..a : Flow'[i + 1] = outQ[i]
      /\ \A i \in 1..b : Flow'[i + a + 1] = inQ[i]  BY FlowPartsNext
<1> HIDE DEF a, b
<1>3. \A i \in 2..a + b + 2 : Flow'[i] = Flow[i]
  <2> SUFFICES ASSUME NEW i \in 2..a + b + 2 PROVE Flow'[i] = Flow[i]  OBVIOUS
  <2>1. CASE i <= a + 1
    <3>1. i - 1 \in 1..a /\ (i - 1) + 1 = i  BY <1>1, <2>1
    <3> QED  BY <1>1, <1>2, <3>1
  <2>2. CASE i > a + 1 /\ i <= a + b + 1
    <3>1. i - a - 1 \in 1..b /\ (i - a - 1) + a + 1 = i  BY <1>1, <2>2
    <3> QED  BY <1>1, <1>2, <3>1
  <2>3. CASE i = a + b + 2  BY <1>1, <1>2, <2>3
  <2> QED  BY <1>1, <2>1, <2>2, <2>3
<1>4. Items(Flow)' = Items(Flow') /\ Sound(Flow)' = Sound(Flow')  BY DEF Items, Sound, Ordered, HaltsAlone, Bad
<1> QED  BY <1>4, <1>1, <1>2, FirstTaken, <1>3, HeadFacts DEF FlowTakes, Command

\* halt_ui: a halting command is alone in its list.
LEMMA FlowHalted ==
    ASSUME TypeOK, HaltsAlone(Flow), tick.cmds # <<>>, Command.op = "halt"
    PROVE  Tail(tick.cmds) = <<>>
<1>1. Flow[1] = tick.cmds /\ Flow \in Flows /\ Flow # <<>> /\ tick.cmds \in Seq(Replies)  BY FlowParts DEF Lists
<1> DEFINE rest == Tail(tick.cmds)
<1>2. rest \in Seq(Replies) /\ Len(rest) = 0  BY <1>1, HeadFacts DEF HaltsAlone, Flows, Command
<1> HIDE DEF rest
<1>3. rest = <<>>  BY <1>2
<1> QED  BY <1>3 DEF rest

\* A reply waits for the next list.
LEMMA FlowReplied ==
    ASSUME TypeOK, TypeOK', NEW a \in Replies, a.op # "halt", inPending' = Append(inPending, a),
           tick'.cmds = tick.cmds, UNCHANGED <<outQ, inQ>>
    PROVE  FlowGrows(a)
<1> DEFINE n == Len(outQ) + Len(inQ) + 2
<1>1. /\ Flow \in Flows /\ Flow # <<>> /\ Len(outQ) \in Nat /\ Len(inQ) \in Nat /\ Len(Flow) = n
      /\ Flow[1] = tick.cmds /\ Flow[n] = inPending
      /\ \A i \in 1..Len(outQ) : Flow[i + 1] = outQ[i]
      /\ \A i \in 1..Len(inQ) : Flow[i + Len(outQ) + 1] = inQ[i]  BY FlowParts
<1>2. /\ Flow' \in Flows /\ Len(Flow') = n
      /\ Flow'[1] = tick.cmds /\ Flow'[n] = Append(inPending, a)
      /\ \A i \in 1..Len(outQ) : Flow'[i + 1] = outQ[i]
      /\ \A i \in 1..Len(inQ) : Flow'[i + Len(outQ) + 1] = inQ[i]  BY FlowPartsNext
<1>3. \A i \in 1..n - 1 : Flow'[i] = Flow[i]
  <2> SUFFICES ASSUME NEW i \in 1..n - 1 PROVE Flow'[i] = Flow[i]  OBVIOUS
  <2>1. CASE i = 1  BY <1>1, <1>2, <2>1
  <2>2. CASE i > 1 /\ i <= Len(outQ) + 1
    <3>1. i - 1 \in 1..Len(outQ) /\ (i - 1) + 1 = i  BY <1>1, <2>2
    <3> QED  BY <1>1, <1>2, <3>1
  <2>3. CASE i > Len(outQ) + 1
    <3>1. i - Len(outQ) - 1 \in 1..Len(inQ) /\ (i - Len(outQ) - 1) + Len(outQ) + 1 = i  BY <1>1, <2>3
    <3> QED  BY <1>1, <1>2, <3>1
  <2> QED  BY <1>1, <2>1, <2>2, <2>3
<1> HIDE DEF n
<1>4. Items(Flow)' = Items(Flow') /\ Sound(Flow)' = Sound(Flow')  BY DEF Items, Sound, Ordered, HaltsAlone, Bad
<1> QED  BY <1>4, <1>1, <1>2, <1>3, LastGrown DEF FlowGrows

\* A list is put into the queue between the processes.
LEMMA FlowQueued ==
    ASSUME TypeOK, TypeOK', NEW r \in Lists, inQ' = Append(inQ, r),
           tick'.cmds = tick.cmds, outQ' = outQ
    PROVE  /\ Flow \in Flows /\ Flow' \in Flows /\ Flow # <<>>
           /\ Len(Flow') = Len(Flow) + 1
           /\ Flow[Len(Flow)] = inPending /\ inPending \in Seq(Replies)
           /\ Flow'[Len(Flow)] = r /\ Flow'[Len(Flow) + 1] = inPending'
           /\ \A i \in 1..Len(Flow) - 1 : Flow'[i] = Flow[i]
<1> DEFINE n == Len(outQ) + Len(inQ) + 2
<1>1. /\ Flow \in Flows /\ Flow # <<>> /\ Len(outQ) \in Nat /\ Len(inQ) \in Nat /\ Len(Flow) = n
      /\ Flow[1] = tick.cmds /\ Flow[n] = inPending /\ inPending \in Seq(Replies)
      /\ \A i \in 1..Len(outQ) : Flow[i + 1] = outQ[i]
      /\ \A i \in 1..Len(inQ) : Flow[i + Len(outQ) + 1] = inQ[i]
      /\ inQ \in Seq(Lists)  BY FlowParts DEF Lists
<1>2. /\ Len(inQ') = Len(inQ) + 1 /\ inQ'[Len(inQ) + 1] = r
      /\ \A i \in 1..Len(inQ) : inQ'[i] = inQ[i]  BY <1>1, AppendFacts
<1>3. /\ Flow' \in Flows /\ Len(Flow') = Len(outQ) + Len(inQ') + 2
      /\ Flow'[1] = tick.cmds /\ Flow'[Len(outQ) + Len(inQ') + 2] = inPending'
      /\ \A i \in 1..Len(outQ) : Flow'[i + 1] = outQ[i]
      /\ \A i \in 1..Len(inQ') : Flow'[i + Len(outQ) + 1] = inQ'[i]  BY FlowPartsNext
<1>4. Len(Flow') = n + 1 /\ Flow'[n + 1] = inPending'  BY <1>1, <1>2, <1>3
<1>5. \A i \in 1..Len(inQ) : Flow'[i + Len(outQ) + 1] = inQ[i]
  <2> SUFFICES ASSUME NEW i \in 1..Len(inQ) PROVE Flow'[i + Len(outQ) + 1] = inQ[i]  OBVIOUS
  <2>1. i \in 1..Len(inQ')  BY <1>1, <1>2
  <2> QED  BY <1>2, <1>3, <2>1
<1>6. Flow'[n] = r
  <2>1. Len(inQ) + 1 \in 1..Len(inQ') /\ (Len(inQ) + 1) + Len(outQ) + 1 = n  BY <1>1, <1>2
  <2> QED  BY <1>2, <1>3, <2>1
<1>7. \A i \in 1..n - 1 : Flow'[i] = Flow[i]
  <2> SUFFICES ASSUME NEW i \in 1..n - 1 PROVE Flow'[i] = Flow[i]  OBVIOUS
  <2>1. CASE i = 1  BY <1>1, <1>3, <2>1
  <2>2. CASE i > 1 /\ i <= Len(outQ) + 1
    <3>1. i - 1 \in 1..Len(outQ) /\ (i - 1) + 1 = i  BY <1>1, <2>2
    <3> QED  BY <1>1, <1>3, <3>1
  <2>3. CASE i > Len(outQ) + 1
    <3>1. i - Len(outQ) - 1 \in 1..Len(inQ) /\ (i - Len(outQ) - 1) + Len(outQ) + 1 = i  BY <1>1, <2>3
    <3> QED  BY <1>1, <1>5, <3>1
  <2> QED  BY <1>1, <2>1, <2>2, <2>3
<1> HIDE DEF n
<1> QED  BY <1>1, <1>3, <1>4, <1>6, <1>7

LEMMA FlowSubmitted ==
    ASSUME TypeOK, TypeOK', inPending # <<>>, Submit(inPending), tick'.cmds = tick.cmds, outQ' = outQ
    PROVE  FlowKept
<1>1. /\ Flow \in Flows /\ Flow' \in Flows /\ Len(Flow') = Len(Flow) + 1 /\ Flow # <<>>
      /\ Flow[Len(Flow)] = inPending /\ Flow'[Len(Flow)] = inPending /\ Flow'[Len(Flow) + 1] = <<>>
      /\ \A i \in 1..Len(Flow) - 1 : Flow'[i] = Flow[i]  BY FlowQueued, FlowParts DEF Submit
<1>2. \A i \in 1..Len(Flow) : Flow'[i] = Flow[i]  BY <1>1, ItemFacts
<1> QED  BY <1>1, <1>2, LastClosed DEF FlowKept, Items, Sound, Ordered, HaltsAlone, Bad

LEMMA LastReplaced ==
    ASSUME NEW S, NEW L \in Seq(S), L # <<>>, NEW r \in S
    PROVE  \E M \in Seq(S) : Len(M) = Len(L) /\ M[Len(L)] = r /\ \A i \in 1..Len(L) - 1 : M[i] = L[i]
<1> DEFINE M == [L EXCEPT ![Len(L)] = r]
<1>1. Len(L) \in 1..Len(L) /\ DOMAIN L = 1..Len(L) /\ Len(L) \in Nat  OBVIOUS
<1>2. /\ M \in Seq(S) /\ Len(M) = Len(L)
      /\ \A j \in 1..Len(L) : M[j] = IF j = Len(L) THEN r ELSE L[j]  BY <1>1, ExceptSeq
<1> HIDE DEF M
<1>3. \A i \in 1..Len(L) - 1 : i \in 1..Len(L) /\ i # Len(L)
  <2> DEFINE n == Len(L)
  <2>1. n \in Nat  BY <1>1
  <2> HIDE DEF n
  <2> QED  BY <2>1 DEF n
<1> QED  BY <1>2, <1>1, <1>3

LEMMA FlowSent ==
    ASSUME TypeOK, TypeOK', NEW a \in Replies, a.op # "halt", Submit(Append(inPending, a)),
           tick'.cmds = tick.cmds, outQ' = outQ
    PROVE  FlowGrows(a)
<1> DEFINE r == Append(inPending, a)
           n == Len(Flow)
<1>1. inPending \in Lists /\ Flow \in Flows /\ Flow # <<>>  BY FlowParts
<1>2. r \in Lists /\ r # <<>>  BY <1>1 DEF Lists
<1>3. inQ' = Append(inQ, r) /\ inPending' = <<>>  BY <1>2 DEF Submit
<1> HIDE DEF r
<1>4. /\ Flow' \in Flows /\ Len(Flow') = n + 1
      /\ Flow[n] = inPending /\ Flow'[n] = r /\ Flow'[n + 1] = <<>>
      /\ \A i \in 1..n - 1 : Flow'[i] = Flow[i]  BY <1>2, <1>3, FlowQueued
<1>5. n \in Nat \ {0} /\ Flow \in Seq(Lists)  BY <1>1 DEF Flows, Lists
<1>6. PICK M \in Seq(Lists) : Len(M) = n /\ M[n] = r /\ \A i \in 1..n - 1 : M[i] = Flow[i]
  BY <1>1, <1>2, <1>5, LastReplaced
<1>7. M \in Flows  BY <1>6 DEF Flows, Lists
<1> HIDE DEF n
<1>8. /\ Items(M) = Items(Flow) \union {a}
      /\ Sound(Flow) /\ (\A m \in Items(Flow) : ~Bad(m, a)) => Sound(M)  BY <1>4, <1>6, <1>1, <1>7, LastGrown DEF n, r
<1>9. Items(Flow') = Items(M) /\ (Sound(M) => Sound(Flow'))
  <2>1. \A i \in 1..n : Flow'[i] = M[i]  BY <1>4, <1>5, <1>6
  <2> QED  BY <1>4, <1>6, <1>7, <2>1, LastClosed
<1> QED  BY <1>9, <1>8 DEF FlowGrows, Items, Sound, Ordered, HaltsAlone, Bad

LEMMA FlowSentBoth ==
    ASSUME TypeOK, TypeOK', NEW a \in Replies, a.op # "halt", NEW b \in Replies, b.op # "halt",
           Submit(inPending \o <<a, b>>), tick'.cmds = tick.cmds, outQ' = outQ
    PROVE  FlowGrowsBy(a, b)
<1> DEFINE r == Append(inPending, a)
           s == Append(r, b)
           n == Len(Flow)
<1>1. inPending \in Lists /\ Flow \in Flows /\ Flow # <<>>  BY FlowParts
<1>2. r \in Lists /\ s \in Lists /\ s # <<>> /\ inPending \o <<a, b>> = s
  <2> DEFINE T == Replies
             p == inPending
  <2>1. p \in Seq(T) /\ a \in T /\ b \in T  BY <1>1 DEF Lists
  <2> HIDE DEF T, p
  <2>2. Append(p, a) \in Seq(T) /\ Append(Append(p, a), b) \in Seq(T) /\ Append(Append(p, a), b) # <<>>
        /\ p \o <<a, b>> = Append(Append(p, a), b)  BY <2>1
  <2> QED  BY <2>2 DEF T, p, Lists
<1>3. inQ' = Append(inQ, s) /\ inPending' = <<>>  BY <1>2 DEF Submit
<1> HIDE DEF r, s
<1>4. /\ Flow' \in Flows /\ Len(Flow') = n + 1
      /\ Flow[n] = inPending /\ Flow'[n] = s /\ Flow'[n + 1] = <<>>
      /\ \A i \in 1..n - 1 : Flow'[i] = Flow[i]  BY <1>2, <1>3, FlowQueued
<1>5. n \in Nat \ {0} /\ \A i \in 1..n : Flow[i] \in Lists  BY <1>1 DEF Flows, Lists
<1>6. PICK M \in Flows : Len(M) = n /\ M[n] = r /\ \A i \in 1..n - 1 : M[i] = Flow[i]
  BY <1>1, <1>2, LastReplaced DEF Flows, Lists
<1>7. PICK N \in Flows : Len(N) = n /\ N[n] = s /\ \A i \in 1..n - 1 : N[i] = Flow[i]
  BY <1>1, <1>2, LastReplaced DEF Flows, Lists
<1> HIDE DEF n
<1>8. /\ Items(M) = Items(Flow) \union {a}
      /\ Sound(Flow) /\ (\A m \in Items(Flow) : ~Bad(m, a)) => Sound(M)
  <2>1. Len(M) = Len(Flow) /\ M[Len(Flow)] = Append(Flow[Len(Flow)], a) /\ \A i \in 1..Len(Flow) - 1 : M[i] = Flow[i]
    BY <1>4, <1>6 DEF n, r
  <2> QED  BY <1>1, <1>6, <2>1, LastGrown
<1>9. /\ Items(N) = Items(M) \union {b}
      /\ Sound(M) /\ (\A m \in Items(M) : ~Bad(m, b)) => Sound(N)
  <2>1. M # <<>> /\ Len(N) = Len(M) /\ N[Len(M)] = Append(M[Len(M)], b) /\ \A i \in 1..Len(M) - 1 : N[i] = M[i]
    <3>1. M # <<>>  BY <1>5, <1>6
    <3> QED  BY <1>4, <1>6, <1>7, <3>1 DEF n, s
  <2> QED  BY <1>6, <1>7, <2>1, LastGrown
<1>10. Items(Flow') = Items(N) /\ (Sound(N) => Sound(Flow'))
  <2>1. \A i \in 1..n : Flow'[i] = N[i]  BY <1>4, <1>5, <1>7
  <2> QED  BY <1>4, <1>7, <2>1, LastClosed
<1>11. Items(Flow)' = Items(Flow') /\ Sound(Flow)' = Sound(Flow')  BY DEF Items, Sound, Ordered, HaltsAlone, Bad
<1>12. ASSUME Sound(Flow), \A m \in Items(Flow) : ~Bad(m, a) /\ ~Bad(m, b), ~Bad(a, b)
       PROVE  Sound(Flow')  BY <1>8, <1>9, <1>10, <1>12
<1> QED  BY <1>8, <1>9, <1>10, <1>11, <1>12 DEF FlowGrowsBy

LEMMA FlowHalts ==
    ASSUME TypeOK, TypeOK', NEW a \in Replies, a.op = "halt", inQ' = Append(inQ, <<a>>),
           tick'.cmds = tick.cmds, UNCHANGED <<outQ, inPending>>
    PROVE  FlowGrows(a)
<1>1. <<a>> \in Lists  BY DEF Lists
<1>2. Items(Flow)' = Items(Flow') /\ Sound(Flow)' = Sound(Flow')  BY DEF Items, Sound, Ordered, HaltsAlone, Bad
<1> QED  BY <1>2, HaltInserted, <1>1, FlowQueued DEF FlowGrows

-----------------------------------------------------------------------------
\* The inductive invariant of the protocol.

\* Numbers of transactions and flushes: those that are confirmed but whose
\* confirmation is on its way, the one the audio process works on, those
\* that wait for it, and all that the store waits for.
Confirming == {m.id : m \in {x \in Items(Flow) : x.op = "confirm_valid_data"}}
Handled == IF engine.doing.op = "set_data" THEN {engine.doing.id} ELSE {}
Waiting == {audioQ[i].id : i \in {j \in DOMAIN audioQ : audioQ[j].op = "set_data"}}
Outstanding ==
    {store.pending[p].id : p \in DOMAIN store.pending} \union {f.id : f \in store.flushes}

Below(S, T) == \A s \in S, t \in T : s < t

\* Every number that travels is outstanding, and the numbers are handled
\* in their order; while the audio process lives none of them is lost.
NumbersHold(C, H, W, all, alive) ==
    /\ C \union H \union W \subseteq all
    /\ Below(C, H) /\ Below(C, W) /\ Below(H, W)
    /\ \A c \in C, id \in all : id < c => id \in C
    /\ alive => all \subseteq C \union H \union W
NumbersInv == NumbersHold(Confirming, Handled, Waiting, Outstanding, engine.alive)

IsPending(st, id, data) ==
    \E p \in DOMAIN st.pending : st.pending[p].id = id /\ st.pending[p].data = data

\* A command carries what its number stands for in the store.
CommandsInv ==
    /\ engine.doing.op = "set_data" => IsPending(store, engine.doing.id, engine.doing.data)
    /\ \A i \in DOMAIN audioQ :
        audioQ[i].op = "set_data" =>
            IF audioQ[i].data = None THEN IsFlush(store, audioQ[i].id)
            ELSE IsPending(store, audioQ[i].id, audioQ[i].data)
    /\ \A i, j \in DOMAIN audioQ :
        (i < j /\ audioQ[i].op = "set_data" /\ audioQ[j].op = "set_data") => audioQ[i].id < audioQ[j].id

\* Until the module given on the command line is loaded.
Loading == confirmed = 0 /\ store.pending = <<>>
LoadReplies == {"import_progress", "import_error", "import_finished", "entry"}

\* Afterwards nothing of a load is left.
NothingToLoad ==
    /\ \A i \in DOMAIN audioQ : audioQ[i].op # "load_module"
    /\ \A i \in DOMAIN tasks : tasks[i].op # "load"
    /\ engine.doing.op \notin {"load", "entries"}
    /\ \A m \in Items(Flow) : m.op \notin LoadReplies

ViewIsUpcoming == (AudioFails => engine.alive) => View(store) = Upcoming

\* The log: what is confirmed, pending and validated of it.
LogInv ==
    /\ Len(log) = confirmed + Len(store.pending)
    /\ \A p \in DOMAIN store.pending : log[confirmed + p] = store.pending[p].data
    /\ engine.validated \in confirmed..Len(log)
    /\ \A p \in DOMAIN store.pending :
        store.pending[p].id \in Confirming <=> confirmed + p <= engine.validated
    /\ confirmed = 0 => store.content = NewStore.content

EditInv == NothingToLoad /\ ViewIsUpcoming /\ LogInv

Untouched ==
    /\ store = [NewStore EXCEPT !.content = store.content]
    /\ session = [saving |-> FALSE, importing |-> FALSE, exporting |-> FALSE, quitAfter |-> FALSE]
    /\ ~windows.enabled /\ windows.dialogs \subseteq {"load_error"}
    /\ Raised \subseteq {"progress_start", "progress_step", "progress_finished", "load_error",
                         "visibility"}
    /\ tasks \in {<<>>, <<[op |-> "load"]>>}

ToLoad == tasks # <<>> \/ \E i \in DOMAIN audioQ : audioQ[i].op = "load_module"
FinishSent == \E m \in Items(Flow) : m.op = "import_finished"
LoadedData == Overlay(NewStore.content, ModuleData)

\* The entries of the keys in S are in the store or on their way.
EntriesSent(S) == \A k \in S : store.content[k] = ModuleData[k] \/ Entry(k) \in Items(Flow)

CommandsToLoad ==
    /\ \A i \in DOMAIN audioQ : audioQ[i].op # "set_data"
    /\ \A i, j \in DOMAIN audioQ : audioQ[i].op = "load_module" /\ audioQ[j].op = "load_module" => i = j
    /\ tasks # <<>> => \A i \in DOMAIN audioQ : audioQ[i].op # "load_module"

RepliesOfLoad ==
    \A m \in Items(Flow) :
        /\ m.op \notin {"confirm_valid_data", "progress", "progress_done"}
        /\ m.op = "entry" => m.key \in DOMAIN ModuleData /\ m = Entry(m.key)

\* What is not loaded yet: the engine is as it was made.
NotBegun ==
    ToLoad =>
        /\ engine.doing = Idle /\ engine.validated = 0
        /\ engine.data = NewStore.content
        /\ \A m \in Items(Flow) : m.op \notin LoadReplies

\* The keys are read one after another.
Reading ==
    engine.doing.op = "load" =>
        /\ engine.validated = 0 /\ ~ToLoad
        /\ \A k \in Keys : engine.data[k] = IF k \in DOMAIN ModuleData \ engine.doing.todo
                                            THEN ModuleData[k] ELSE None
        /\ \A m \in Items(Flow) : m.op \notin LoadReplies \ {"import_progress"}

\* The module is validated, and its entries are sent.
Sending ==
    engine.doing.op = "entries" =>
        /\ engine.validated = 1 /\ ~ToLoad
        /\ engine.data = LoadedData
        /\ EntriesSent(DOMAIN ModuleData \ engine.doing.todo)
        /\ \A m \in Items(Flow) : m.op \notin {"import_finished", "import_error"}

Finished ==
    FinishSent =>
        /\ engine.validated = 1 /\ engine.doing = Idle /\ ~ToLoad
        /\ engine.data = LoadedData
        /\ EntriesSent(DOMAIN ModuleData)

LoadInv ==
    /\ Untouched
    /\ log = IF tasks = <<>> THEN <<ModuleData>> ELSE <<>>
    /\ CommandsToLoad /\ RepliesOfLoad
    /\ \A k \in Keys : store.content[k] \in {None, LoadedData[k]}
    /\ engine.doing.op \in {"idle", "load", "entries"} /\ engine.validated \in {0, 1}
    /\ NotBegun /\ Reading /\ Sending /\ Finished

IInv ==
    /\ Sound(Flow) /\ NumbersInv /\ CommandsInv
    /\ ~Loading => EditInv
    /\ Loading => LoadInv
    /\ failure \notin {"confirm", "put_raw"}

-----------------------------------------------------------------------------
\* What a step of the user interface or of the main process means for the
\* protocol.

StoreKept ==
    store'.pending = store.pending /\ store'.flushes = store.flushes /\ store'.content = store.content
AudioKept == UNCHANGED <<audioQ, engine>>
LogKept == UNCHANGED <<log, confirmed>>

QuietStep == FlowKept /\ StoreKept /\ AudioKept /\ LogKept

TakesReply(a) ==
    /\ FlowTakes(a) /\ a.op \notin {"confirm_valid_data", "entry", "import_finished"}
    /\ StoreKept /\ AudioKept /\ LogKept

PutsData(t) ==
    /\ t \in Transactions /\ FlowKept
    /\ store'.pending = Append(store.pending, [id |-> store.nextId, data |-> t])
    /\ store'.flushes = store.flushes /\ store'.content = store.content
    /\ audioQ' = Append(audioQ, SetDataCommand(store.nextId, t)) /\ engine' = engine
    /\ log' = Append(log, t) /\ confirmed' = confirmed

PutsFlush(call) ==
    /\ call \in {"save", "export"} /\ FlowKept
    /\ store'.pending = store.pending /\ store'.content = store.content
    /\ store'.flushes = store.flushes \union {[id |-> store.nextId, call |-> call]}
    /\ audioQ' = Append(audioQ, SetDataCommand(store.nextId, None)) /\ engine' = engine
    /\ LogKept

TakesFlush(a) ==
    /\ FlowTakes(a) /\ a.op = "confirm_valid_data" /\ IsFlush(store, a.id)
    /\ store'.pending = store.pending /\ store'.content = store.content
    /\ store'.flushes = {f \in store.flushes : f.id # a.id}
    /\ AudioKept /\ LogKept

TakesConfirm(a) ==
    /\ FlowTakes(a) /\ a.op = "confirm_valid_data" /\ ~IsFlush(store, a.id) /\ CanConfirm(store, a.id)
    /\ store'.pending = Tail(store.pending) /\ store'.flushes = store.flushes
    /\ store'.content = Overlay(store.content, Head(store.pending).data)
    /\ AudioKept /\ log' = log /\ confirmed' = confirmed + 1

TakesEntry(a) ==
    /\ FlowTakes(a) /\ a.op = "entry"
    /\ store'.pending = store.pending /\ store'.flushes = store.flushes
    /\ store'.content = Overlay(store.content, [k \in {a.key} |-> a.value])
    /\ AudioKept /\ LogKept

TakesFinish(a) ==
    /\ FlowTakes(a) /\ a.op = "import_finished" /\ engine' = engine
    /\ store'.flushes = store.flushes /\ store'.content = store.content
    /\ confirmed' = confirmed + 1
    /\ \/ store'.pending = store.pending /\ UNCHANGED <<audioQ, log>>
       \/ \E t \in Transactions :
            /\ store'.pending = Append(store.pending, [id |-> store.nextId, data |-> t])
            /\ audioQ' = Append(audioQ, SetDataCommand(store.nextId, t))
            /\ log' = Append(log, t)

PutsHalt ==
    /\ FlowGrows(Reply("halt")) /\ StoreKept /\ LogKept /\ engine' = engine
    /\ audioQ' = Append(audioQ, HaltCommand)

PutsLoad ==
    /\ FlowKept /\ StoreKept /\ engine' = engine
    /\ audioQ' = Append(audioQ, LoadCommand) /\ log' = Append(log, ModuleData) /\ confirmed' = confirmed
    /\ tasks # <<>> /\ Head(tasks) = [op |-> "load"] /\ tasks' = Tail(tasks)

UiKinds ==
    \/ QuietStep
    \/ \E a \in Replies : TakesReply(a)
    \/ \E t \in Transactions : PutsData(t)
    \/ \E call \in {"save", "export"} : PutsFlush(call)
    \/ \E a \in Replies : TakesFlush(a) \/ TakesConfirm(a) \/ TakesEntry(a) \/ TakesFinish(a)
    \/ PutsHalt \/ PutsLoad

LEMMA UnmarkedPut ==
    ASSUME NEW st \in Stores, NEW t \in Transactions
    PROVE  /\ Put(st, t, FALSE) \in Stores
           /\ Put(st, t, FALSE).pending = Append(st.pending, [id |-> st.nextId, data |-> t])
           /\ Put(st, t, FALSE).flushes = st.flushes /\ Put(st, t, FALSE).content = st.content
           /\ Put(st, t, FALSE).saving = st.saving /\ Put(st, t, FALSE).notifiers = st.notifiers
           /\ st.modified = FALSE => Put(st, t, FALSE).modified = FALSE
<1> DEFINE mark == FALSE
<1>1. mark \in BOOLEAN  OBVIOUS
<1> HIDE DEF mark
<1>2. /\ Put(st, t, mark) \in Stores
      /\ Put(st, t, mark).pending = Append(st.pending, [id |-> st.nextId, data |-> t])
      /\ Put(st, t, mark).flushes = st.flushes /\ Put(st, t, mark).content = st.content
      /\ Put(st, t, mark).saving = st.saving /\ Put(st, t, mark).notifiers = st.notifiers
      /\ Put(st, t, mark).modified = (st.modified \/ mark)  BY <1>1, PutType
<1> QED  BY <1>2 DEF mark

LEMMA PutKind ==
    ASSUME TypeOK, NEW t \in Transactions, NEW mark \in BOOLEAN, StorePut(t, mark),
           tick'.cmds = tick.cmds, UNCHANGED <<inPending, inQ, outQ, engine, confirmed>>
    PROVE  UiKinds
<1>1. PutsData(t)  BY PutType, FlowUnchanged DEF PutsData, StorePut, TypeOK
<1> QED  BY <1>1 DEF UiKinds

LEMMA SilentKind ==
    ASSUME tick'.cmds = tick.cmds, UNCHANGED <<audioVars, outQ, log, confirmed>>, StoreKept
    PROVE  UiKinds
BY FlowUnchanged DEF audioVars, QuietStep, UiKinds, AudioKept, LogKept

LEMMA CrashKind ==
    ASSUME TypeOK, NEW name, Crash(name)
    PROVE  UiKinds
BY SilentKind DEF Crash, TypeOK, Ticks, StoreKept, audioVars

LEMMA UserKinds ==
    ASSUME TypeOK, UserStep \/ CloseCrashDialog
    PROVE  UiKinds
<1>1. store \in Stores /\ tick \in Ticks  BY DEF TypeOK
<1>2. CASE \E t \in Edits : Edit(t)
  <2>1. PICK t \in Edits, mark \in BOOLEAN : Edit(t) /\ StorePut(t, mark)  BY <1>2 DEF Edit
  <2> QED  BY <2>1, PutKind, DataTypes DEF Edit
<1>3. CASE EditFails  BY <1>3, CrashKind DEF EditFails
<1>4. CASE Save  BY DataTypes, <1>4, PutKind DEF Save, StartSave
<1>5. CASE StartImport  BY <1>5, SilentKind DEF StartImport, StoreKept, audioVars
<1>6. CASE StartExport
  <2>1. Stamp \in Transactions /\ FALSE \in BOOLEAN /\ TRUE \in BOOLEAN  BY DataTypes
  <2> DEFINE st == Put(store, Stamp, FALSE)
  <2>2. /\ st \in Stores
        /\ st.pending = Append(store.pending, [id |-> store.nextId, data |-> Stamp])
        /\ st.flushes = store.flushes /\ st.content = store.content  BY <1>1, <2>1, UnmarkedPut
  <2>3. store' = SetSaving(st, TRUE)  BY <1>6 DEF StartExport
  <2> HIDE DEF st
  <2>4. store' = [st EXCEPT !.saving = TRUE]  BY <2>1, <2>2, <2>3, FlagType
  <2> QED  BY <2>1, <1>6, <2>2, <2>4, FlowUnchanged DEF UiKinds, PutsData, StartExport, Stores
<1>7. CASE StartFails  BY <1>7, CrashKind DEF StartFails
<1>8. CASE TryExit  BY <1>8, SilentKind DEF TryExit, StoreKept, audioVars, history
<1>9. CASE ExitCancel  BY <1>9, SilentKind DEF ExitCancel, StoreKept, audioVars, history
<1>10. CASE ExitDiscard  BY <1>10, SilentKind DEF ExitDiscard, StoreKept, audioVars, history
<1>11. CASE ExitSave  BY DataTypes, <1>11, PutKind DEF ExitSave, StartSave
<1>12. CASE ExitSaveFails  BY <1>12, CrashKind DEF ExitSaveFails
<1>13. CASE \E d \in windows.dialogs : CloseErrorDialog(d)
  <2>1. PICK d \in windows.dialogs : CloseErrorDialog(d)  BY <1>13
  <2>2. StoreKept
    <3>1. CASE store' = SetSaving(store, FALSE)
      <4>1. store' = [store EXCEPT !.saving = FALSE]  BY <1>1, <3>1, FlagType
      <4> QED  BY <1>1, <4>1 DEF StoreKept, Stores
    <3> QED  BY <3>1, <2>1 DEF StoreKept, CloseErrorDialog, TypeOK, Windows, ErrorSignals
  <2> QED  BY <2>2, SilentKind, <2>1 DEF CloseErrorDialog, history
<1>14. CASE CloseCrashDialog  BY <1>1, <1>14, SilentKind DEF CloseCrashDialog, Ticks, StoreKept, audioVars, history
<1> QED  BY <1>2, <1>3, <1>4, <1>5, <1>6, <1>7, <1>8, <1>9, <1>10, <1>11, <1>12, <1>13, <1>14 DEF UserStep

LEMMA TakenKind ==
    ASSUME TypeOK, TypeOK', tick.cmds # <<>>, CommandDone, UNCHANGED <<audioVars, outQ, log, confirmed>>, StoreKept,
           Command.op \notin {"confirm_valid_data", "entry", "import_finished"}
    PROVE  UiKinds
<1>1. FlowTakes(Command)  BY FlowCommandTaken DEF audioVars, CommandDone, TypeOK, Ticks
<1> QED  BY <1>1 DEF UiKinds, FlowTakes, TakesReply, AudioKept, LogKept, audioVars

LEMMA CommandKinds ==
    ASSUME TypeOK, TypeOK', HaltsAlone(Flow), CommandStep
    PROVE  UiKinds
<1>1. store \in Stores /\ tick \in Ticks  BY DEF TypeOK
<1>2. CASE NextList
  <2>1. FlowKept  BY <1>2, FlowListTaken
  <2> QED  BY <1>2, <2>1 DEF NextList, UiKinds, QuietStep, StoreKept, AudioKept, LogKept, audioVars, history
<1>3. CASE ConfirmFlush
  <2>1. tick.cmds # <<>> /\ Command.op = "confirm_valid_data" /\ tick'.cmds = Tail(tick.cmds)
        /\ IsFlush(store, Command.id)
        /\ UNCHANGED <<audioVars, outQ, history>>
    BY <1>1, <1>3 DEF ConfirmFlush, NextCommand, IsNext, CommandDone, Ticks
  <2>2. FlowTakes(Command)  BY <2>1, FlowCommandTaken DEF audioVars
  <2> DEFINE id == Command.id
             st == FlushDone(store, id)
  <2> HIDE DEF id
  <2>3. st \in Stores /\ st = [store EXCEPT !.flushes = {f \in @ : f.id # id}]  BY <1>1, FlushDoneType
  <2> HIDE DEF st
  <2>4. store' = st \/ store' = [st EXCEPT !.saving = TRUE]  BY <2>3, FlagType, <1>3 DEF st, id, ConfirmFlush
  <2>5. store'.pending = st.pending /\ store'.content = st.content /\ store'.flushes = st.flushes
    BY <2>3, <2>4 DEF Stores
  <2>6. st.pending = store.pending /\ st.content = store.content /\ st.flushes = {f \in store.flushes : f.id # id}
    BY <1>1, <2>3 DEF Stores
  <2>7. TakesFlush(Command)  BY <2>1, <2>2, <2>5, <2>6 DEF TakesFlush, id, AudioKept, LogKept, audioVars, history
  <2> QED  BY <2>7, <2>2 DEF UiKinds, FlowTakes
<1>4. CASE Confirm
  <2>1. CASE ~CanConfirm(store, Command.id)  BY <1>4, <2>1, CrashKind DEF Confirm
  <2>2. CASE CanConfirm(store, Command.id)
    <3>1. /\ tick.cmds # <<>> /\ Command.op = "confirm_valid_data" /\ tick'.cmds = Tail(tick.cmds)
          /\ ~IsFlush(store, Command.id)
          /\ store' = ConfirmValidData(store, Command.id) /\ confirmed' = confirmed + 1
          /\ UNCHANGED <<audioVars, outQ, log>>  BY <1>1, <1>4, <2>2 DEF Confirm, IsNext, CommandDone, Ticks
    <3>2. FlowTakes(Command)  BY <3>1, FlowCommandTaken DEF audioVars
    <3>3. store.pending # <<>>  BY <2>2 DEF CanConfirm
    <3>4. TakesConfirm(Command)
      BY <2>2, <3>1, <3>2, <1>1 DEF TakesConfirm, AudioKept, audioVars, ConfirmValidData, Stores
    <3> QED  BY <3>4, <3>2 DEF UiKinds, FlowTakes
  <2> QED  BY <2>1, <2>2
<1>5. CASE Progress  BY <1>5, TakenKind DEF Progress, NextCommand, IsNext, StoreKept, history
<1>6. CASE ProgressDone  BY <1>1, <1>6, TakenKind DEF ProgressDone, StoreKept, Stores, NextCommand, IsNext, history
<1>7. CASE ImportProgress  BY <1>7, TakenKind DEF ImportProgress, NextCommand, IsNext, StoreKept, history
<1>8. CASE ImportedEntry
  <2>1. CASE store.saving \/ store.pending # <<>>  BY <1>8, <2>1, CrashKind DEF ImportedEntry
  <2>2. CASE ~(store.saving \/ store.pending # <<>>)
    <3> DEFINE t == [k \in {Command.key} |-> Command.value]
    <3>1. /\ tick.cmds # <<>> /\ Command.op = "entry" /\ tick'.cmds = Tail(tick.cmds)
          /\ store' = PutRaw(store, t)
          /\ UNCHANGED <<audioVars, outQ, log, confirmed>>
      BY <1>1, <1>8, <2>2 DEF ImportedEntry, IsNext, CommandDone, Ticks, history
    <3>2. /\ store'.pending = store.pending /\ store'.flushes = store.flushes
          /\ store'.content = Overlay(store.content, t)  BY <1>1, <3>1 DEF PutRaw, Stores
    <3> QED  BY <3>1, <3>2, FlowCommandTaken DEF UiKinds, TakesEntry, AudioKept, LogKept, audioVars, FlowTakes
  <2> QED  BY <2>1, <2>2
<1>9. CASE ImportError  BY <1>9, TakenKind DEF ImportError, NextCommand, IsNext, StoreKept, history
<1>10. CASE ImportFinished
  <2> DEFINE cleared == ClearModified(store)
             hidden == [k \in {GridKey} |-> store.content[GridKey]]
  <2>1. /\ tick.cmds # <<>> /\ Command.op = "import_finished" /\ tick'.cmds = Tail(tick.cmds)
        /\ confirmed' = confirmed + 1
        /\ UNCHANGED <<inPending, inQ, outQ, engine>>
    BY <1>1, <1>10 DEF ImportFinished, NextCommand, IsNext, CommandDone, Ticks
  <2>2. FlowTakes(Command) /\ Command \in Replies  BY <2>1, FlowCommandTaken DEF FlowTakes
  <2>3. \/ store' = cleared /\ log' = log /\ audioQ' = audioQ
        \/ /\ store' = Put(cleared, hidden, FALSE)
           /\ audioQ' = Append(audioQ, SetDataCommand(store.nextId, hidden))
           /\ log' = Append(log, hidden)  BY <1>10 DEF ImportFinished
  <2>4. hidden \in Transactions
    <3>1. hidden \in [{GridKey} -> Values \union {None}] /\ {GridKey} \in SUBSET Keys
      BY StampAssumption, <1>1 DEF Stores, Contents
    <3> QED  BY <3>1 DEF Transactions
  <2>5. /\ cleared \in Stores /\ cleared.pending = store.pending /\ cleared.flushes = store.flushes
        /\ cleared.content = store.content /\ cleared.nextId = store.nextId
    <3>1. cleared \in Stores /\ cleared = [store EXCEPT !.modified = FALSE]  BY <1>1, FlagType
    <3> HIDE DEF cleared
    <3> QED  BY <1>1, <3>1 DEF Stores
  <2> HIDE DEF cleared, hidden
  <2>6. CASE store' = cleared /\ log' = log /\ audioQ' = audioQ  BY <2>1, <2>2, <2>5, <2>6 DEF TakesFinish, UiKinds
  <2>7. CASE /\ store' = Put(cleared, hidden, FALSE)
             /\ audioQ' = Append(audioQ, SetDataCommand(store.nextId, hidden))
             /\ log' = Append(log, hidden)
    <3>1. /\ store'.pending = Append(store.pending, [id |-> store.nextId, data |-> hidden])
          /\ store'.flushes = store.flushes /\ store'.content = store.content
      <4>1. /\ Put(cleared, hidden, FALSE).pending = Append(cleared.pending, [id |-> cleared.nextId, data |-> hidden])
            /\ Put(cleared, hidden, FALSE).flushes = cleared.flushes
            /\ Put(cleared, hidden, FALSE).content = cleared.content  BY UnmarkedPut, <2>4, <2>5
      <4> QED  BY <4>1, <2>5, <2>7
    <3> QED  BY <2>2, <2>1, <2>4, <2>7, <3>1 DEF UiKinds, TakesFinish
  <2> QED  BY <2>3, <2>6, <2>7
<1>11. CASE ExceptionShown  BY <1>11, CrashKind DEF ExceptionShown
<1>12. CASE HaltUi
  <2>1. /\ tick.cmds # <<>> /\ Command.op = "halt" /\ tick'.cmds = <<>>
        /\ UNCHANGED <<audioVars, store, outQ, log, confirmed>>  BY <1>1, <1>12 DEF HaltUi, Ticks, history
  <2>2. FlowTakes(Command)  BY <2>1, FlowCommandTaken, FlowHalted DEF audioVars
  <2> QED  BY <2>2, <2>1 DEF UiKinds, FlowTakes, TakesReply, StoreKept, AudioKept, LogKept, audioVars
<1> QED  BY <1>2, <1>3, <1>4, <1>5, <1>6, <1>7, <1>8, <1>9, <1>10, <1>11, <1>12 DEF CommandStep

LEMMA SignalKinds ==
    ASSUME TypeOK, SignalStep
    PROVE  UiKinds
<1>1. store \in Stores /\ tick \in Ticks  BY DEF TypeOK
<1>2. SignalDone => tick'.cmds = tick.cmds  BY <1>1 DEF SignalDone, Ticks
<1>3. CASE StartUpdates  BY <1>1, <1>3, SilentKind DEF StartUpdates, Ticks, StoreKept, history
<1>4. ASSUME NEW name, NEW call \in {"save", "export"}, OnStart(name, call)
      PROVE  UiKinds
  <2>1. /\ tick'.cmds = tick.cmds /\ UNCHANGED <<inPending, inQ, engine, outQ, log, confirmed>>
        /\ store' = Flush(store, call) /\ audioQ' = Append(audioQ, SetDataCommand(store.nextId, None))
    BY <1>2, <1>4 DEF OnStart, FlushStore, history
  <2> QED  BY <1>1, <2>1, FlushType, FlowUnchanged DEF UiKinds, PutsFlush, LogKept
<1>5. CASE OnStartSave  BY <1>4, <1>5 DEF OnStartSave
<1>6. CASE OnStartExport  BY <1>4, <1>6 DEF OnStartExport
<1>7. CASE OnStartImport  BY <1>2, <1>7, SilentKind DEF OnStartImport, StoreKept, history
<1>8. CASE OnSaveFinished
  <2> DEFINE cleared == ClearModified(store)
  <2>1. FALSE \in BOOLEAN  OBVIOUS
  <2>2. cleared \in Stores /\ cleared = [store EXCEPT !.modified = FALSE]  BY <1>1, <2>1, FlagType
  <2>3. store' = SetSaving(cleared, FALSE)  BY <1>8 DEF OnSaveFinished
  <2> HIDE DEF cleared
  <2>4. store' = [cleared EXCEPT !.saving = FALSE]  BY <2>1, <2>2, <2>3, FlagType
  <2>5. StoreKept  BY <1>1, <2>2, <2>4 DEF StoreKept, Stores
  <2> QED  BY <1>2, <1>8, <2>5, SilentKind DEF OnSaveFinished, history
<1>9. CASE OnExportFinished
  <2>1. store' = [store EXCEPT !.saving = FALSE]  BY <1>1, <1>9, FlagType DEF OnExportFinished
  <2> QED  BY <1>2, <1>9, SilentKind, <1>1, <2>1 DEF OnExportFinished, history, StoreKept, Stores
<1>10. CASE OnImportFinished  BY <1>2, <1>10, SilentKind DEF OnImportFinished, StoreKept, history
<1>11. CASE OnError  BY <1>2, <1>11, SilentKind DEF OnError, StoreKept, history
<1>12. CASE OnModule  BY <1>2, <1>12, SilentKind DEF OnModule, StoreKept, history
<1>13. CASE OnProgress  BY CrashKind, <1>2, <1>13, SilentKind DEF OnProgress, StoreKept, history
<1>14. CASE OnVisibility  BY <1>1, <1>2, <1>14, SilentKind DEF OnVisibility, Ticks, StoreKept, history
<1>15. CASE EndTick  BY <1>1, <1>15, SilentKind DEF EndTick, Ticks, StoreKept, history
<1> QED  BY <1>3, <1>5, <1>6, <1>7, <1>8, <1>9, <1>10, <1>11, <1>12, <1>13, <1>14, <1>15 DEF SignalStep

LEMMA LoadTaskPuts ==
    ASSUME TypeOK, LoadTask
    PROVE  PutsLoad
BY FlowUnchanged, TaskQueueTypes DEF LoadTask, TaskUnchanged, TaskTurn, Tasks, PutsLoad, TaskDone, StoreKept

LEMMA TaskKinds ==
    ASSUME TypeOK, TaskStep
    PROVE  UiKinds
<1>1. store \in Stores  BY DEF TypeOK
<1>2. CASE LoadTask  BY <1>2, LoadTaskPuts DEF UiKinds
<1>3. CASE SandboxTask
  <2>1. store' = [store EXCEPT !.modified = FALSE]  BY <1>1, <1>3, FlagType DEF SandboxTask
  <2> QED  BY <1>3, SilentKind, <1>1, <2>1 DEF SandboxTask, TaskUnchanged, audioVars, StoreKept, Stores
<1>4. CASE StartWriting  BY <1>4, SilentKind DEF StartWriting, TaskUnchanged, audioVars, StoreKept
<1>5. CASE WriteError  BY <1>5, SilentKind DEF WriteError, TaskUnchanged, audioVars, StoreKept
<1>6. CASE WriteKey  BY CrashKind, <1>6, SilentKind DEF WriteKey, TaskUnchanged, audioVars, StoreKept
<1>7. CASE FinishWriting  BY <1>7, SilentKind DEF FinishWriting, TaskUnchanged, audioVars, StoreKept
<1>8. CASE StartImportTask  BY <1>8, SilentKind DEF StartImportTask, TaskUnchanged, audioVars, StoreKept
<1>9. CASE ImportTaskError  BY <1>9, SilentKind DEF ImportTaskError, TaskUnchanged, audioVars, StoreKept
<1>10. CASE ImportTaskPut
  <2>1. PICK t \in Imports :
          /\ store' = PutNotify(store, t)
          /\ audioQ' = Append(audioQ, SetDataCommand(store.nextId, t))
          /\ log' = Append(log, t)  BY <1>10 DEF ImportTaskPut
  <2>2. t \in Transactions  BY DataTypes
  <2>3. PutsData(t)
    BY <1>10, <2>1, <2>2, <1>1, PutNotifyType, FlowUnchanged DEF PutsData, ImportTaskPut, TaskUnchanged
  <2> QED  BY <2>2, <2>3 DEF UiKinds
<1> QED  BY <1>2, <1>3, <1>4, <1>5, <1>6, <1>7, <1>8, <1>9, <1>10 DEF TaskStep

LEMMA UiStepKinds ==
    ASSUME TypeOK, TypeOK', HaltsAlone(Flow), [Next]_vars
    PROVE  UiKinds \/ AudioStep
<1>1. CASE Tick
  <2>1. UNCHANGED <<audioQ, engine, store, log, confirmed>>  BY <1>1 DEF Tick, TickStart, history
  <2> QED  BY <2>1, <1>1, FlowMoved DEF UiKinds, QuietStep, StoreKept, AudioKept, LogKept
<1>2. CASE MainHalts
  <2>1. FlowGrows(Reply("halt"))  BY <1>2, FlowHalts, ReplyTypes DEF MainHalts, MainUnchanged, uiVars, Reply
  <2> QED  BY <1>2, <2>1 DEF MainHalts, MainUnchanged, uiVars, PutsHalt, UiKinds, StoreKept, LogKept
<1>3. CASE MainDone  BY <1>3, SilentKind DEF MainDone, MainUnchanged, uiVars, audioVars, StoreKept
<1>4. CASE UNCHANGED vars  BY <1>4, SilentKind DEF vars, uiVars, history, StoreKept
<1>5. CASE Stopped  BY <1>4, <1>5 DEF Stopped
<1> QED  BY <1>1, <1>2, <1>3, <1>4, <1>5, UserKinds, CommandKinds, SignalKinds, TaskKinds DEF Next

-----------------------------------------------------------------------------
\* What a step of the audio process means for the protocol.

EngineBecomes(doing, data, validated) ==
    /\ engine'.doing = doing /\ engine'.data = data /\ engine'.validated = validated
    /\ engine'.alive = engine.alive
TakesHead == audioQ # <<>> /\ audioQ' = Tail(audioQ) /\ engine.doing = Idle
Confirmation(id) == ReplyId("confirm_valid_data", id)

TakesHalt ==
    /\ TakesHead /\ audioQ[1].op = "halt"
    /\ FlowKept /\ EngineBecomes(Idle, engine.data, engine.validated)
TakesToken ==
    /\ TakesHead /\ audioQ[1].op = "set_data" /\ audioQ[1].data = None
    /\ FlowGrows(Confirmation(audioQ[1].id)) /\ EngineBecomes(Idle, engine.data, engine.validated)
TakesData ==
    /\ TakesHead /\ audioQ[1].op = "set_data" /\ audioQ[1].data # None
    /\ FlowKept
    /\ EngineBecomes([op |-> "set_data", id |-> audioQ[1].id, data |-> audioQ[1].data,
                      todo |-> DOMAIN audioQ[1].data], engine.data, engine.validated)
TakesLoad ==
    /\ TakesHead /\ audioQ[1].op = "load_module"
    /\ FlowKept
    /\ EngineBecomes([op |-> "load", todo |-> DOMAIN ModuleData], engine.data, engine.validated)

SetsKey(k) ==
    /\ audioQ' = audioQ /\ engine.doing.op = "set_data" /\ k \in engine.doing.todo
    /\ FlowGrows(ReplyId("progress", engine.doing.id))
    /\ EngineBecomes([engine.doing EXCEPT !.todo = engine.doing.todo \ {k}],
                     [engine.data EXCEPT ![k] = engine.doing.data[k]], engine.validated)
SetsAll ==
    /\ audioQ' = audioQ /\ engine.doing.op = "set_data" /\ engine.doing.todo = {}
    /\ FlowGrowsBy(Confirmation(engine.doing.id), ReplyId("progress_done", engine.doing.id))
    /\ EngineBecomes(Idle, engine.data, engine.validated + 1)

LoadsKey(k) ==
    /\ audioQ' = audioQ /\ engine.doing.op = "load" /\ k \in engine.doing.todo
    /\ FlowGrows(Reply("import_progress"))
    /\ EngineBecomes([op |-> "load", todo |-> engine.doing.todo \ {k}],
                     [engine.data EXCEPT ![k] = ModuleData[k]], engine.validated)
LoadFails ==
    /\ audioQ' = audioQ /\ engine.doing.op = "load"
    /\ FlowGrows(Reply("import_error")) /\ EngineBecomes(Idle, engine.data, engine.validated)
Validates ==
    /\ audioQ' = audioQ /\ engine.doing.op = "load" /\ engine.doing.todo = {}
    /\ FlowKept
    /\ EngineBecomes([op |-> "entries", todo |-> DOMAIN ModuleData], engine.data, engine.validated + 1)
SendsEntry(k) ==
    /\ audioQ' = audioQ /\ engine.doing.op = "entries" /\ k \in engine.doing.todo
    /\ FlowGrowsBy(Entry(k), Reply("import_progress"))
    /\ EngineBecomes([op |-> "entries", todo |-> engine.doing.todo \ {k}], engine.data, engine.validated)
LoadEnds ==
    /\ audioQ' = audioQ /\ engine.doing.op = "entries" /\ engine.doing.todo = {}
    /\ FlowGrows(Reply("import_finished")) /\ EngineBecomes(Idle, engine.data, engine.validated)

EngineEnds ==
    /\ audioQ' = audioQ /\ engine.doing = Idle /\ FlowKept
    /\ engine'.doing = Idle /\ engine'.data = engine.data /\ engine'.validated = engine.validated
    /\ ~engine'.alive
EngineDies ==
    /\ AudioFails
    /\ audioQ' = audioQ /\ FlowGrows(Reply("exception"))
    /\ engine'.doing = Idle /\ engine'.data = engine.data /\ engine'.validated = engine.validated
    /\ ~engine'.alive

SetDataKinds == TakesData \/ (\E k \in Keys : SetsKey(k)) \/ SetsAll
LoadKinds ==
    \/ TakesLoad \/ (\E k \in Keys : LoadsKey(k)) \/ LoadFails \/ Validates
    \/ (\E k \in Keys : SendsEntry(k)) \/ LoadEnds
AudioKinds ==
    \/ FlowKept /\ AudioKept
    \/ TakesHalt \/ TakesToken \/ SetDataKinds \/ LoadKinds \/ EngineEnds \/ EngineDies

LEMMA AudioStepKinds ==
    ASSUME TypeOK, TypeOK', AudioStep
    PROVE  engine.alive /\ StoreKept /\ LogKept /\ tasks' = tasks /\ AudioKinds
<1>1. /\ AudioNext /\ UNCHANGED <<uiVars, main, history>>
      /\ tick'.cmds = tick.cmds /\ outQ' = outQ  BY DEF AudioStep, uiVars
<1>2. /\ engine \in Engines /\ engine.doing \in Doings /\ engine.data \in Contents /\ engine.validated \in Nat
  BY EngineFacts
<1>3. engine.alive
  BY <1>1 DEF AudioNext, AudioWork, TakeHalt, TakeToken, TakeSetData, TakeLoad, TakeCommand, SetDataKey, SetDataDone,
     LoadStep, LoadValidated, SendEntry, LoadFinished, ProduceSound, LoadError, EndAudio, AudioException
<1> SUFFICES AudioKinds  BY <1>3, <1>1 DEF StoreKept, LogKept, uiVars, history
<1>4. UNCHANGED <<inQ, inPending>> => FlowKept  BY <1>1, FlowUnchanged
<1>5. ASSUME NEW a \in Replies, a.op # "halt", Submit(Append(inPending, a)) PROVE FlowGrows(a)
  BY <1>1, <1>5, FlowSent
<1>6. ASSUME NEW a \in Replies, a.op # "halt", NEW b \in Replies, b.op # "halt", Submit(inPending \o <<a, b>>)
      PROVE FlowGrowsBy(a, b)  BY <1>1, <1>6, FlowSentBoth
<1>7. ASSUME TakeCommand
      PROVE  /\ TakesHead /\ Head(audioQ) = audioQ[1] /\ audioQ[1] \in Commands
             /\ audioQ[1].op = "set_data" => audioQ[1].id \in Nat
  BY <1>7, TakeFacts, CommandShapes DEF TakeCommand, TakesHead, Busy
<1>8. CASE TakeHalt
  <2>1. EngineBecomes(Idle, engine.data, engine.validated)
    BY <1>2, <1>7, <1>8 DEF TakeHalt, EngineBecomes, Engines, TakesHead
  <2> QED  BY <1>4, <1>7, <1>8, <2>1, CommandShapes DEF AudioKinds, TakeHalt, TakesHalt
<1>9. CASE TakeToken
  <2>1. audioQ[1].op = "set_data" /\ audioQ[1].data = None /\ audioQ[1].id \in Nat  BY <1>7, <1>9 DEF TakeToken
  <2>2. inPending' = Append(inPending, Confirmation(audioQ[1].id)) /\ inQ' = inQ /\ engine' = engine
    BY <1>7, <1>9 DEF TakeToken, Confirmation
  <2>3. FlowGrows(Confirmation(audioQ[1].id))  BY <1>1, <2>2, FlowReplied, <2>1, ReplyTypes DEF Confirmation, ReplyId
  <2>4. TakesToken  BY <1>7, <1>9, <2>1, <2>2, <2>3 DEF TakeToken, TakesToken, EngineBecomes, TakesHead
  <2> QED  BY <2>4 DEF AudioKinds
<1>10. CASE TakeSetData
  <2> DEFINE job == [op |-> "set_data", id |-> audioQ[1].id, data |-> audioQ[1].data,
                     todo |-> DOMAIN audioQ[1].data]
  <2>1. /\ audioQ[1].op = "set_data" /\ audioQ[1].data # None
        /\ engine' = [engine EXCEPT !.doing = job]  BY <1>7, <1>10 DEF TakeSetData
  <2> HIDE DEF job
  <2>2. EngineBecomes(job, engine.data, engine.validated)  BY <1>2, <2>1 DEF EngineBecomes, Engines
  <2>3. TakesData  BY <1>4, <1>7, <1>10, <2>1, <2>2 DEF TakeSetData, TakesData, job
  <2> QED  BY <2>3 DEF AudioKinds, SetDataKinds
<1>11. CASE SetDataKey
  <2> DEFINE k == FirstKey(engine.doing.todo)
             job == [engine.doing EXCEPT !.todo = engine.doing.todo \ {k}]
             data == [engine.data EXCEPT ![k] = engine.doing.data[k]]
  <2>1. /\ engine.doing.op = "set_data" /\ engine.doing.id \in Nat /\ engine.doing.data \in Transactions
        /\ engine.doing.todo \in SUBSET DOMAIN engine.doing.data /\ engine.doing.todo # {}
    BY <1>2, <1>11, DoingFacts DEF SetDataKey
  <2>2. k \in engine.doing.todo /\ k \in Keys  BY <2>1, TransactionType, FirstKeyIn
  <2>3. engine' = [engine EXCEPT !.data = data, !.doing = job]  BY <1>2, <1>11 DEF SetDataKey, Engines
  <2> HIDE DEF k
  <2>4. EngineBecomes(job, data, engine.validated)  BY <1>2, <2>3 DEF EngineBecomes, Engines
  <2>5. SetsKey(k)  BY <2>1, <2>2, <2>4, <1>11, <1>5, ReplyTypes DEF SetsKey, SetDataKey, ReplyId
  <2> QED  BY <2>2, <2>5 DEF AudioKinds, SetDataKinds
<1>12. CASE SetDataDone
  <2> DEFINE a == Confirmation(engine.doing.id)
             b == ReplyId("progress_done", engine.doing.id)
  <2>1. a \in Replies /\ a.op # "halt" /\ b \in Replies /\ b.op # "halt"
    BY ReplyTypes, <1>2, <1>12, DoingFacts DEF Confirmation, ReplyId, SetDataDone
  <2>2. SetsAll  BY <1>12, <1>6, <2>1, <1>2 DEF SetDataDone, SetsAll, Confirmation, EngineBecomes, Engines
  <2> QED  BY <2>2 DEF AudioKinds, SetDataKinds
<1>13. CASE TakeLoad
  <2> DEFINE job == [op |-> "load", todo |-> DOMAIN ModuleData]
  <2>1. EngineBecomes(job, engine.data, engine.validated)  BY <1>13, <1>2 DEF TakeLoad, EngineBecomes, Engines
  <2> QED  BY <1>4, <1>7, <1>13, <2>1, CommandShapes DEF AudioKinds, LoadKinds, TakeLoad, TakesLoad
<1>14. CASE LoadStep
  <2> DEFINE k == FirstKey(engine.doing.todo)
             rest == engine.doing.todo \ {k}
             job == [engine.doing EXCEPT !.todo = rest]
             data == [engine.data EXCEPT ![k] = ModuleData[k]]
  <2>1. /\ engine.doing.op = "load" /\ engine.doing = [op |-> "load", todo |-> engine.doing.todo]
        /\ engine.doing.todo \in SUBSET DOMAIN ModuleData /\ engine.doing.todo # {}
    BY <1>2, <1>14, DoingFacts DEF LoadStep
  <2>2. k \in engine.doing.todo /\ k \in Keys  BY <2>1, ModuleDataTypes, FirstKeyIn
  <2>3. engine' = [engine EXCEPT !.data = data, !.doing = job]  BY <1>2, <1>14 DEF LoadStep, Engines
  <2>4. FlowGrows(Reply("import_progress"))  BY <1>5, <1>14, ReplyTypes DEF LoadStep, Reply
  <2>5. job = [op |-> "load", todo |-> rest]  BY <2>1
  <2> HIDE DEF k
  <2>6. EngineBecomes(job, data, engine.validated)  BY <1>2, <2>3 DEF EngineBecomes, Engines
  <2>7. LoadsKey(k)  BY <2>1, <2>2, <2>4, <2>5, <2>6, <1>14 DEF LoadsKey, LoadStep
  <2> QED  BY <2>2, <2>7 DEF AudioKinds, LoadKinds
<1>15. CASE LoadError
  <2>1. LoadFails  BY <1>15, <1>5, ReplyTypes, <1>2 DEF LoadError, LoadFails, Reply, EngineBecomes, Engines
  <2> QED  BY <2>1 DEF AudioKinds, LoadKinds
<1>16. CASE LoadValidated
  <2> QED  BY <1>4, <1>16, <1>2 DEF AudioKinds, LoadKinds, LoadValidated, Validates, EngineBecomes, Engines
<1>17. CASE SendEntry
  <2> DEFINE k == FirstKey(engine.doing.todo)
             rest == engine.doing.todo \ {k}
             job == [engine.doing EXCEPT !.todo = rest]
  <2>1. /\ engine.doing.op = "entries" /\ engine.doing = [op |-> "entries", todo |-> engine.doing.todo]
        /\ engine.doing.todo \in SUBSET DOMAIN ModuleData /\ engine.doing.todo # {}
    BY <1>2, <1>17, DoingFacts DEF SendEntry
  <2>2. k \in engine.doing.todo /\ k \in DOMAIN ModuleData /\ k \in Keys  BY <2>1, ModuleDataTypes, FirstKeyIn
  <2>3. engine' = [engine EXCEPT !.doing = job]  BY <1>2, <1>17 DEF SendEntry, Engines
  <2>4. FlowGrowsBy(Entry(k), Reply("import_progress"))  BY <1>6, <1>17, <2>2, ReplyTypes DEF SendEntry, Reply, Entry
  <2>5. job = [op |-> "entries", todo |-> rest]  BY <2>1
  <2> HIDE DEF k
  <2>6. EngineBecomes(job, engine.data, engine.validated)  BY <1>2, <2>3 DEF EngineBecomes, Engines
  <2>7. SendsEntry(k)  BY <2>1, <2>2, <2>4, <2>5, <2>6, <1>17 DEF SendsEntry, SendEntry
  <2> QED  BY <2>2, <2>7 DEF AudioKinds, LoadKinds
<1>18. CASE LoadFinished
  <2>1. LoadEnds  BY <1>18, <1>5, ReplyTypes, <1>2 DEF LoadFinished, LoadEnds, Reply, EngineBecomes, Engines
  <2> QED  BY <2>1 DEF AudioKinds, LoadKinds
<1>19. CASE ProduceSound  BY <1>1, <1>19, FlowSubmitted DEF ProduceSound, AudioKinds, AudioKept
<1>20. CASE EndAudio  BY <1>2, <1>4, <1>20 DEF EndAudio, EngineEnds, AudioKinds, Engines, Busy
<1>21. CASE AudioException
  BY ReplyTypes, <1>5, <1>21, <1>2 DEF Reply, AudioException, EngineDies, AudioKinds, Engines
<1> QED
  BY <1>1, <1>8, <1>9, <1>10, <1>11, <1>12, <1>13, <1>14, <1>15, <1>16, <1>17, <1>18, <1>19, <1>20, <1>21 DEF
     AudioNext, AudioWork

-----------------------------------------------------------------------------
\* The numbers.

LEMMA NumbersAdded ==
    ASSUME NEW C \in SUBSET Nat, NEW H \in SUBSET Nat, NEW W \in SUBSET Nat, NEW all \in SUBSET Nat, NEW alive,
           NEW n \in Nat, \A id \in all : id < n, NumbersHold(C, H, W, all, alive)
    PROVE  NumbersHold(C, H, W \union {n}, all \union {n}, alive)
    BY DEF NumbersHold, Below

LEMMA NumbersRemoved ==
    ASSUME NEW C \in SUBSET Nat, NEW H \in SUBSET Nat, NEW W \in SUBSET Nat, NEW all \in SUBSET Nat, NEW alive,
           NEW n \in Nat, \A id \in C : n < id, NumbersHold(C \union {n}, H, W, all, alive)
    PROVE  NumbersHold(C, H, W, all \ {n}, alive)
    BY DEF NumbersHold, Below

LEMMA NumbersTaken ==
    ASSUME NEW C \in SUBSET Nat, NEW W \in SUBSET Nat, NEW all \in SUBSET Nat, NEW alive,
           NEW n \in Nat, \A id \in W : n < id, NumbersHold(C, {}, W \union {n}, all, alive)
    PROVE  NumbersHold(C, {n}, W, all, alive)
    BY DEF NumbersHold, Below

LEMMA NumbersDone ==
    ASSUME NEW C \in SUBSET Nat, NEW W \in SUBSET Nat, NEW all \in SUBSET Nat,
           NEW n \in Nat, NumbersHold(C, {n}, W, all, TRUE)
    PROVE  NumbersHold(C \union {n}, {}, W, all, TRUE)
    BY DEF NumbersHold, Below

LEMMA NumbersLost ==
    ASSUME NEW C \in SUBSET Nat, NEW H \in SUBSET Nat, NEW W \in SUBSET Nat, NEW all \in SUBSET Nat, NEW alive,
           NumbersHold(C, H, W, all, alive)
    PROVE  NumbersHold(C, {}, W, all, FALSE) /\ NumbersHold(C, H, W, all, FALSE)
    BY DEF NumbersHold, Below

\* The replies that confirm.
LEMMA ItemTypes ==
    ASSUME TypeOK
    PROVE  Items(Flow) \subseteq Replies
    BY FlowParts, ItemFacts

LEMMA NumberTypes ==
    ASSUME TypeOK
    PROVE  /\ Confirming \in SUBSET Nat /\ Handled \in SUBSET Nat /\ Waiting \in SUBSET Nat
           /\ Outstanding \in SUBSET Nat
           /\ \A id \in Outstanding : id < store.nextId
           /\ store.nextId \in Nat
           /\ \A i \in DOMAIN audioQ : audioQ[i] \in Commands
           /\ \A i \in DOMAIN audioQ : audioQ[i].op = "set_data" => audioQ[i].id \in Nat
<1>1. Handled \in SUBSET Nat  BY EngineFacts, DoingFacts DEF Handled
<1>2. /\ \A i \in DOMAIN audioQ : audioQ[i] \in Commands
      /\ \A i \in DOMAIN audioQ : audioQ[i].op = "set_data" => audioQ[i].id \in Nat
  BY IndexFacts, CommandShapes DEF TypeOK, AudioTypeOK
<1>3. /\ store.nextId \in Nat
      /\ \A p \in DOMAIN store.pending : store.pending[p].id \in Nat /\ store.pending[p].id < store.nextId
      /\ \A f \in store.flushes : f.id \in Nat /\ f.id < store.nextId  BY PendingFacts DEF NumbersAreNew, TypeOK
<1> QED  BY <1>1, <1>2, <1>3, ItemTypes, ReplyShapes DEF Outstanding, Confirming, Waiting

LEMMA ConfirmingKept ==
    ASSUME \/ FlowKept
           \/ \E a : a.op # "confirm_valid_data" /\ (FlowGrows(a) \/ FlowTakes(a))
           \/ \E a, b : a.op # "confirm_valid_data" /\ b.op # "confirm_valid_data" /\ FlowGrowsBy(a, b)
    PROVE  Confirming' = Confirming
    BY DEF Confirming, FlowKept, FlowGrows, FlowGrowsBy, FlowTakes

LEMMA ConfirmingGrows ==
    ASSUME NEW id,
           \/ FlowGrows(Confirmation(id))
           \/ \E b : b.op # "confirm_valid_data" /\ FlowGrowsBy(Confirmation(id), b)
    PROVE  Confirming' = Confirming \union {id}
BY DEF Confirmation, ReplyId, Confirming, FlowGrows, FlowGrowsBy

LEMMA ConfirmingTaken ==
    ASSUME TypeOK, TypeOK', Sound(Flow), NEW a, FlowTakes(a), a.op = "confirm_valid_data"
    PROVE  /\ Confirming = Confirming' \union {a.id} /\ a.id \in Nat
           /\ \A id \in Confirming' : a.id < id
<1>1. a \in Replies /\ a.id \in Nat  BY ReplyShapes DEF FlowTakes
<1>2. Confirming = Confirming' \union {a.id}  BY DEF Confirming, FlowTakes
<1>3. ASSUME NEW id \in Confirming' PROVE a.id < id
  <2>1. PICK m \in Items(Flow)' : m.op = "confirm_valid_data" /\ m.id = id  BY DEF Confirming
  <2> QED  BY <1>1, <2>1, <1>2, NumberTypes DEF Bad, FlowTakes
<1> QED  BY <1>1, <1>2, <1>3

\* The queue of commands.
LEMMA WaitingSent ==
    ASSUME TypeOK, NEW c \in Commands, audioQ' = Append(audioQ, c)
    PROVE  /\ c.op = "set_data" => Waiting' = Waiting \union {c.id}
           /\ c.op # "set_data" => Waiting' = Waiting
           /\ Len(audioQ) \in Nat /\ DOMAIN audioQ = 1..Len(audioQ) /\ DOMAIN audioQ' = 1..Len(audioQ) + 1
           /\ \A i \in DOMAIN audioQ : audioQ'[i] = audioQ[i]
           /\ audioQ'[Len(audioQ) + 1] = c
<1> DEFINE n == Len(audioQ)
<1>1. /\ n \in Nat /\ DOMAIN audioQ = 1..n /\ DOMAIN audioQ' = 1..n + 1
      /\ \A i \in DOMAIN audioQ : audioQ'[i] = audioQ[i]
      /\ audioQ'[n + 1] = c  BY AppendFacts DEF TypeOK, AudioTypeOK
<1> HIDE DEF n
<1> QED  BY <1>1 DEF n, Waiting

LEMMA WaitingTaken ==
    ASSUME TypeOK, CommandsInv, audioQ # <<>>, audioQ' = Tail(audioQ)
    PROVE  /\ audioQ[1].op = "set_data" =>
                /\ Waiting = Waiting' \union {audioQ[1].id} /\ audioQ[1].id \in Nat
                /\ \A id \in Waiting' : audioQ[1].id < id
           /\ audioQ[1].op # "set_data" => Waiting' = Waiting
           /\ 1 \in DOMAIN audioQ /\ audioQ[1] \in Commands
           /\ \A i \in DOMAIN audioQ' : i + 1 \in DOMAIN audioQ /\ audioQ'[i] = audioQ[i + 1]
           /\ \A i \in DOMAIN audioQ : i # 1 => i - 1 \in DOMAIN audioQ' /\ audioQ'[i - 1] = audioQ[i]
           /\ DOMAIN audioQ \subseteq Nat /\ DOMAIN audioQ' \subseteq Nat \ {0}
<1>1. /\ audioQ[1] \in Commands /\ Len(audioQ) \in Nat \ {0} /\ DOMAIN audioQ = 1..Len(audioQ)
      /\ DOMAIN audioQ' = 1..Len(audioQ) - 1
      /\ \A i \in 1..Len(audioQ) - 1 : audioQ'[i] = audioQ[i + 1]  BY TakeFacts
<1>2. /\ 1 \in DOMAIN audioQ
      /\ \A i \in DOMAIN audioQ' : i + 1 \in DOMAIN audioQ /\ 1 < i + 1 /\ audioQ'[i] = audioQ[i + 1]
      /\ \A i \in DOMAIN audioQ : i # 1 => i - 1 \in DOMAIN audioQ' /\ (i - 1) + 1 = i
      /\ DOMAIN audioQ \subseteq Nat /\ DOMAIN audioQ' \subseteq Nat \ {0}  BY <1>1
<1>3. \A i \in DOMAIN audioQ : i # 1 => i - 1 \in DOMAIN audioQ' /\ audioQ'[i - 1] = audioQ[i]  BY <1>2
<1>4. Waiting' \subseteq Waiting  BY <1>2 DEF Waiting
<1>5. \A id \in Waiting : id \in Waiting' \/ (audioQ[1].op = "set_data" /\ id = audioQ[1].id)  BY <1>3 DEF Waiting
<1>6. ASSUME audioQ[1].op = "set_data"
      PROVE  audioQ[1].id \in Nat /\ audioQ[1].id \in Waiting /\ \A id \in Waiting' : audioQ[1].id < id
  <2>1. audioQ[1].id \in Nat /\ audioQ[1].id \in Waiting  BY <1>2, <1>6, NumberTypes DEF Waiting
  <2>2. ASSUME NEW id \in Waiting' PROVE audioQ[1].id < id
    <3>1. PICK i \in DOMAIN audioQ' : audioQ'[i].op = "set_data" /\ audioQ'[i].id = id  BY DEF Waiting
    <3> QED  BY <1>2, <1>6, <3>1 DEF CommandsInv
  <2> QED  BY <2>1, <2>2
<1> QED  BY <1>1, <1>2, <1>3, <1>4, <1>5, <1>6

-----------------------------------------------------------------------------
\* The transactions and flushes the store waits for.
LEMMA OutstandingPut ==
    ASSUME TypeOK, NEW t \in Transactions, store'.flushes = store.flushes,
           store'.pending = Append(store.pending, [id |-> store.nextId, data |-> t])
    PROVE  /\ Outstanding' = Outstanding \union {store.nextId}
           /\ Len(store.pending) \in Nat /\ DOMAIN store.pending = 1..Len(store.pending)
           /\ DOMAIN store'.pending = 1..Len(store.pending) + 1
           /\ Len(store'.pending) = Len(store.pending) + 1
           /\ \A p \in DOMAIN store.pending : store'.pending[p] = store.pending[p]
           /\ store'.pending[Len(store.pending) + 1].id = store.nextId
           /\ store'.pending[Len(store.pending) + 1].data = t
<1> DEFINE n == Len(store.pending)
           e == [id |-> store.nextId, data |-> t]
<1> HIDE DEF e
<1>1. /\ n \in Nat /\ DOMAIN store.pending = 1..n /\ DOMAIN store'.pending = 1..n + 1
      /\ Len(store'.pending) = n + 1
      /\ \A p \in DOMAIN store.pending : store'.pending[p] = store.pending[p]
      /\ store'.pending[n + 1] = e  BY AppendFacts, PendingFacts DEF e, Entries, TypeOK
<1> HIDE DEF n
<1> QED  BY <1>1 DEF n, Outstanding

LEMMA OutstandingFlush ==
    ASSUME NEW call, store'.pending = store.pending,
           store'.flushes = store.flushes \union {[id |-> store.nextId, call |-> call]}
    PROVE  Outstanding' = Outstanding \union {store.nextId}
<1> DEFINE e == [id |-> store.nextId, call |-> call]
<1>1. e.id = store.nextId  OBVIOUS
<1> HIDE DEF e
<1> QED  BY <1>1 DEF Outstanding, e

LEMMA OutstandingFlushed ==
    ASSUME TypeOK, NEW n, IsFlush(store, n), store'.pending = store.pending,
           store'.flushes = {f \in store.flushes : f.id # n}
    PROVE  /\ Outstanding' = Outstanding \ {n}
           /\ \A p \in DOMAIN store.pending : store.pending[p].id # n
BY DEF TypeOK, NumbersAreNew, Outstanding

LEMMA OutstandingConfirmed ==
    ASSUME TypeOK, store.pending # <<>>, store'.pending = Tail(store.pending), store'.flushes = store.flushes
    PROVE  /\ 1 \in DOMAIN store.pending /\ Head(store.pending) = store.pending[1]
           /\ Outstanding' = Outstanding \ {store.pending[1].id}
           /\ Len(store.pending) \in Nat \ {0} /\ DOMAIN store.pending = 1..Len(store.pending)
           /\ DOMAIN store'.pending = 1..Len(store.pending) - 1 /\ Len(store'.pending) = Len(store.pending) - 1
           /\ \A p \in DOMAIN store'.pending : p + 1 \in DOMAIN store.pending /\ p + 1 # 1 /\ store'.pending[p] = store.pending[p + 1]
           /\ \A p \in DOMAIN store.pending : p # 1 => p - 1 \in DOMAIN store'.pending /\ store'.pending[p - 1] = store.pending[p]
           /\ \A p \in DOMAIN store.pending : p # 1 => store.pending[1].id < store.pending[p].id
<1> DEFINE n == Len(store.pending)
<1>1. store \in Stores /\ NumbersAreNew(store)  BY DEF TypeOK
<1>2. store.pending \in Seq(Entries) /\ \A p \in DOMAIN store.pending : store.pending[p].id \in Nat
  BY <1>1, PendingFacts
<1>3. /\ n \in Nat \ {0} /\ DOMAIN store.pending = 1..n /\ DOMAIN store'.pending = 1..n - 1
      /\ Len(store'.pending) = n - 1 /\ Head(store.pending) = store.pending[1]
      /\ \A p \in 1..n - 1 : store'.pending[p] = store.pending[p + 1]  BY <1>2, HeadFacts
<1> HIDE DEF n
<1>4. /\ 1 \in DOMAIN store.pending
      /\ \A p \in DOMAIN store'.pending : p + 1 \in DOMAIN store.pending /\ p + 1 # 1 /\ store'.pending[p] = store.pending[p + 1]
  BY <1>3
<1>5. \A p \in DOMAIN store.pending : p # 1 => p - 1 \in DOMAIN store'.pending /\ (p - 1) + 1 = p /\ 1 < p  BY <1>3
<1>6. \A p \in DOMAIN store.pending : p # 1 => store'.pending[p - 1] = store.pending[p]  BY <1>4, <1>5
<1>7. \A p \in DOMAIN store.pending : p # 1 => store.pending[1].id < store.pending[p].id
  BY <1>1, <1>4, <1>5 DEF NumbersAreNew
<1>8. \A f \in store.flushes : f.id # store.pending[1].id  BY <1>1, <1>4 DEF NumbersAreNew, IsFlush
<1>9. {store'.pending[p].id : p \in DOMAIN store'.pending}
        = {store.pending[p].id : p \in DOMAIN store.pending} \ {store.pending[1].id}
  <2>1. \A p \in DOMAIN store'.pending :
          /\ store'.pending[p].id \in {store.pending[q].id : q \in DOMAIN store.pending}
          /\ store'.pending[p].id # store.pending[1].id  BY <1>2, <1>4, <1>7
  <2> QED  BY <2>1, <1>5, <1>6
<1>10. Outstanding' = Outstanding \ {store.pending[1].id}  BY <1>8, <1>9 DEF Outstanding
<1> QED  BY <1>3, <1>4, <1>5, <1>6, <1>7, <1>10 DEF n

LEMMA Same ==
    ASSUME NumbersInv, Confirming' = Confirming, Handled' = Handled, Waiting' = Waiting, Outstanding' = Outstanding,
           engine'.alive = engine.alive
    PROVE  NumbersInv'
    BY DEF NumbersInv, NumbersHold, Below

\* The user interface and the numbers.
LEMMA UiNumbers ==
    ASSUME TypeOK, TypeOK', Sound(Flow), NumbersInv, UiKinds
    PROVE  NumbersInv'
<1>1. /\ Confirming \in SUBSET Nat /\ Handled \in SUBSET Nat /\ Waiting \in SUBSET Nat /\ Outstanding \in SUBSET Nat
      /\ store.nextId \in Nat /\ \A id \in Outstanding : id < store.nextId  BY NumberTypes
<1>2. StoreKept => Outstanding' = Outstanding  BY DEF StoreKept, Outstanding
<1>3. engine' = engine => Handled' = Handled /\ engine'.alive = engine.alive  BY DEF Handled
<1>4. audioQ' = audioQ => Waiting' = Waiting  BY DEF Waiting
<1>5. CASE QuietStep  BY <1>2, <1>3, <1>4, <1>5, ConfirmingKept, Same DEF QuietStep, AudioKept
<1>6. CASE \E a \in Replies : TakesReply(a)  BY <1>2, <1>3, <1>4, <1>6, ConfirmingKept, Same DEF TakesReply, AudioKept
<1>7. ASSUME NEW c \in Commands, c.op = "set_data", c.id = store.nextId, audioQ' = Append(audioQ, c),
             Outstanding' = Outstanding \union {store.nextId}, engine' = engine, Confirming' = Confirming
      PROVE  NumbersInv'  BY <1>1, <1>3, <1>7, NumbersAdded, WaitingSent DEF NumbersInv
<1>8. ASSUME NEW t \in Transactions \union {None}
      PROVE  SetDataCommand(store.nextId, t) \in Commands /\ SetDataCommand(store.nextId, t).op = "set_data"
             /\ SetDataCommand(store.nextId, t).id = store.nextId  BY SentTypes DEF SetDataCommand
<1>9. CASE \E t \in Transactions : PutsData(t)
  <2>1. PICK t \in Transactions : PutsData(t)  BY <1>9
  <2> QED  BY <1>7, <1>8, <2>1, OutstandingPut, ConfirmingKept DEF PutsData
<1>10. CASE \E call \in {"save", "export"} : PutsFlush(call)
  <2>1. PICK call \in {"save", "export"} : PutsFlush(call)  BY <1>10
  <2> QED  BY <1>7, <1>8, <2>1, OutstandingFlush, ConfirmingKept DEF PutsFlush
<1>11. ASSUME NEW n \in Nat, Confirming = Confirming' \union {n}, \A id \in Confirming' : n < id,
              Outstanding' = Outstanding \ {n}, AudioKept
       PROVE  NumbersInv'  BY <1>1, <1>11, NumbersRemoved, <1>3, <1>4 DEF NumbersInv, AudioKept
<1>12. CASE \E a \in Replies : TakesFlush(a)
  <2>1. PICK a \in Replies : TakesFlush(a)  BY <1>12
  <2> QED  BY <1>11, <2>1, ConfirmingTaken, OutstandingFlushed DEF TakesFlush
<1>13. CASE \E a \in Replies : TakesConfirm(a)
  <2>1. PICK a \in Replies : TakesConfirm(a)  BY <1>13
  <2>2. Outstanding' = Outstanding \ {a.id}  BY <2>1, OutstandingConfirmed DEF TakesConfirm, CanConfirm
  <2> QED  BY <1>11, <2>1, <2>2, ConfirmingTaken DEF TakesConfirm
<1>14. CASE \E a \in Replies : TakesEntry(a)
  <2>1. PICK a \in Replies : TakesEntry(a)  BY <1>14
  <2> QED  BY <1>3, <1>4, <2>1, Same, ConfirmingKept DEF TakesEntry, AudioKept, Outstanding
<1>15. CASE \E a \in Replies : TakesFinish(a)
  <2>1. PICK a \in Replies : TakesFinish(a)  BY <1>15
  <2>2. Confirming' = Confirming  BY <2>1, ConfirmingKept DEF TakesFinish
  <2>3. CASE store'.pending = store.pending /\ UNCHANGED <<audioQ, log>>
    BY <2>1, <2>3, <1>3, <1>4, <2>2, Same DEF TakesFinish, Outstanding
  <2>4. CASE \E t \in Transactions :
              /\ store'.pending = Append(store.pending, [id |-> store.nextId, data |-> t])
              /\ audioQ' = Append(audioQ, SetDataCommand(store.nextId, t))
              /\ log' = Append(log, t)
    <3>1. PICK t \in Transactions :
            /\ store'.pending = Append(store.pending, [id |-> store.nextId, data |-> t])
            /\ audioQ' = Append(audioQ, SetDataCommand(store.nextId, t))  BY <2>4
    <3> QED  BY <1>7, <1>8, <2>1, <2>2, <3>1, OutstandingPut DEF TakesFinish
  <2> QED  BY <2>1, <2>3, <2>4 DEF TakesFinish
<1>16. ASSUME NEW c \in Commands, c.op # "set_data", audioQ' = Append(audioQ, c), StoreKept, engine' = engine,
              Confirming' = Confirming
       PROVE  NumbersInv'  BY <1>2, <1>3, <1>16, WaitingSent, Same
<1>17. CASE PutsHalt  BY <1>17, ConfirmingKept, <1>16 DEF HaltCommand, Commands, Reply, PutsHalt
<1>18. CASE PutsLoad  BY <1>16, <1>18, ConfirmingKept DEF LoadCommand, Commands, PutsLoad
<1> QED  BY <1>5, <1>6, <1>9, <1>10, <1>12, <1>13, <1>14, <1>15, <1>17, <1>18 DEF UiKinds

\* The audio process and the numbers.
LEMMA AudioNumbers ==
    ASSUME TypeOK, TypeOK', Sound(Flow), NumbersInv, CommandsInv, engine.alive, StoreKept, AudioKinds
    PROVE  NumbersInv'
<1>1. /\ Confirming \in SUBSET Nat /\ Handled \in SUBSET Nat /\ Waiting \in SUBSET Nat /\ Outstanding \in SUBSET Nat
  BY NumberTypes
<1>2. Outstanding' = Outstanding  BY DEF StoreKept, Outstanding
<1>3. audioQ' = audioQ => Waiting' = Waiting  BY DEF Waiting
<1>4. Handled = {} <=> engine.doing.op # "set_data"  BY DEF Handled
<1>5. Idle.op = "idle"  BY DEF Idle
<1>6. CASE FlowKept /\ AudioKept  BY <1>2, <1>3, <1>6, ConfirmingKept, Same DEF AudioKept, Handled
<1>7. CASE TakesHalt
  <2>1. Waiting' = Waiting /\ Handled' = Handled
    BY <1>5, <1>7, WaitingTaken DEF TakesHalt, TakesHead, EngineBecomes, Handled
  <2> QED  BY <1>2, <1>7, <2>1, ConfirmingKept, Same DEF TakesHalt, EngineBecomes
<1>8. CASE TakesToken
  <2> DEFINE n == audioQ[1].id
  <2>1. Handled = {} /\ Handled' = {} /\ engine'.alive = TRUE /\ engine.alive = TRUE
    BY <1>5, <1>8, EngineFacts DEF TakesToken, TakesHead, EngineBecomes, Handled
  <2>2. Waiting = Waiting' \union {n} /\ n \in Nat /\ \A id \in Waiting' : n < id
    BY <1>8, WaitingTaken DEF TakesToken, TakesHead
  <2>3. Confirming' = Confirming \union {n}  BY <1>8, ConfirmingGrows DEF TakesToken
  <2> HIDE DEF n
  <2> QED  BY <1>2, <2>1, <2>3, <1>1, <2>2, NumbersDone, NumbersTaken DEF NumbersInv
<1>9. CASE TakesData
  <2> DEFINE n == audioQ[1].id
  <2>1. Handled = {} /\ Handled' = {n} /\ engine'.alive = TRUE /\ engine.alive = TRUE
    BY <1>5, <1>9, EngineFacts DEF TakesData, TakesHead, EngineBecomes, Handled
  <2>2. Waiting = Waiting' \union {n} /\ n \in Nat /\ \A id \in Waiting' : n < id
    BY <1>9, WaitingTaken DEF TakesData, TakesHead
  <2> HIDE DEF n
  <2> QED  BY <1>2, <2>1, <1>9, ConfirmingKept, <1>1, <2>2, NumbersTaken DEF NumbersInv, TakesData
<1>10. CASE \E k \in Keys : SetsKey(k)
  <2>1. PICK k \in Keys : SetsKey(k)  BY <1>10
  <2>2. Handled' = Handled  BY <2>1, EngineFacts, DoingFacts, DoingWork DEF SetsKey, EngineBecomes, Handled
  <2> QED  BY <1>2, <1>3, <2>1, <2>2, Same, ConfirmingKept DEF SetsKey, EngineBecomes, ReplyId
<1>11. CASE SetsAll
  <2> DEFINE n == engine.doing.id
  <2>1. Handled = {n} /\ Handled' = {} /\ engine'.alive = TRUE /\ engine.alive = TRUE /\ n \in Nat
    BY <1>5, <1>11, EngineFacts, DoingFacts DEF SetsAll, EngineBecomes, Handled
  <2>2. Confirming' = Confirming \union {n}  BY <1>11, ConfirmingGrows DEF SetsAll, ReplyId
  <2> HIDE DEF n
  <2> QED  BY <1>2, <1>3, <1>11, <2>1, <2>2, <1>1, NumbersDone DEF NumbersInv, SetsAll
<1>12. ASSUME engine.doing.op # "set_data", engine'.doing.op # "set_data", audioQ' = audioQ, Confirming' = Confirming,
              engine'.alive = engine.alive
       PROVE  NumbersInv'  BY <1>2, <1>3, <1>12, Same DEF Handled
<1>13. CASE TakesLoad
  <2>1. Handled' = Handled  BY <1>5, <1>13 DEF TakesLoad, TakesHead, EngineBecomes, Handled
  <2> QED  BY <1>2, <1>13, <2>1, ConfirmingKept, Same, WaitingTaken DEF TakesLoad, EngineBecomes, TakesHead
<1>14. CASE \E k \in Keys : LoadsKey(k)  BY <1>12, <1>14, ConfirmingKept DEF Reply, LoadsKey, EngineBecomes
<1>15. CASE LoadFails  BY <1>5, <1>12, <1>15, ConfirmingKept DEF Reply, LoadFails, EngineBecomes
<1>16. CASE Validates  BY <1>12, <1>16, ConfirmingKept DEF Validates, EngineBecomes
<1>17. CASE \E k \in Keys : SendsEntry(k)  BY <1>12, <1>17, ConfirmingKept DEF Reply, Entry, SendsEntry, EngineBecomes
<1>18. CASE LoadEnds  BY <1>5, <1>12, <1>18, ConfirmingKept DEF Reply, LoadEnds, EngineBecomes
<1>19. ASSUME Handled' = {}, Confirming' = Confirming, audioQ' = audioQ, ~engine'.alive
       PROVE  NumbersInv'
  <2>1. NumbersHold(Confirming', Handled', Waiting', Outstanding', FALSE)
    BY <1>2, <1>3, <1>19, <1>1, NumbersLost DEF NumbersInv
  <2> QED  BY <1>19, <2>1 DEF NumbersInv, NumbersHold
<1>20. CASE EngineEnds  BY <1>5, <1>19, <1>20, ConfirmingKept DEF EngineEnds, Handled
<1>21. CASE EngineDies  BY <1>5, <1>19, <1>21, ConfirmingKept DEF Reply, EngineDies, Handled
<1> QED
  BY <1>6, <1>7, <1>8, <1>9, <1>10, <1>11, <1>13, <1>14, <1>15, <1>16, <1>17, <1>18, <1>20, <1>21 DEF AudioKinds,
     SetDataKinds, LoadKinds

-----------------------------------------------------------------------------
\* What the commands carry.

LEMMA CommandsKept ==
    ASSUME CommandsInv, audioQ' = audioQ, engine'.doing = engine.doing,
           \A id \in Handled \union Waiting : \A d : IsPending(store, id, d) => IsPending(store', id, d),
           \A id \in Waiting : IsFlush(store, id) => IsFlush(store', id)
    PROVE  CommandsInv'
BY DEF Handled, Waiting, CommandsInv

LEMMA CommandsSent ==
    ASSUME TypeOK, CommandsInv, NEW c \in Commands, audioQ' = Append(audioQ, c), engine'.doing = engine.doing,
           \A id, d : IsPending(store, id, d) => IsPending(store', id, d),
           \A id : IsFlush(store, id) => IsFlush(store', id),
           c.op = "set_data" =>
                /\ \A id \in Waiting : id < c.id
                /\ IF c.data = None THEN IsFlush(store', c.id) ELSE IsPending(store', c.id, c.data)
    PROVE  CommandsInv'
<1> DEFINE n == Len(audioQ)
<1>1. /\ n \in Nat /\ DOMAIN audioQ = 1..n /\ DOMAIN audioQ' = 1..n + 1
      /\ \A i \in DOMAIN audioQ : audioQ'[i] = audioQ[i]
      /\ audioQ'[n + 1] = c  BY WaitingSent
<1> HIDE DEF n
<1>2. \A i \in DOMAIN audioQ' : i = n + 1 \/ i \in DOMAIN audioQ  BY <1>1
<1>3. ASSUME NEW i \in DOMAIN audioQ', audioQ'[i].op = "set_data"
      PROVE  IF audioQ'[i].data = None THEN IsFlush(store', audioQ'[i].id)
             ELSE IsPending(store', audioQ'[i].id, audioQ'[i].data)  BY <1>1, <1>3, <1>2 DEF CommandsInv
<1>4. ASSUME NEW i \in DOMAIN audioQ', NEW j \in DOMAIN audioQ', i < j,
             audioQ'[i].op = "set_data", audioQ'[j].op = "set_data"
      PROVE  audioQ'[i].id < audioQ'[j].id  BY <1>1, <1>4, <1>2 DEF CommandsInv, Waiting
<1> QED  BY <1>3, <1>4 DEF CommandsInv

LEMMA StillPending ==
    ASSUME TypeOK, NEW t \in Transactions, store'.flushes = store.flushes,
           store'.pending = Append(store.pending, [id |-> store.nextId, data |-> t])
    PROVE  /\ \A id, d : IsPending(store, id, d) => IsPending(store', id, d)
           /\ \A id : IsFlush(store, id) => IsFlush(store', id)
           /\ IsPending(store', store.nextId, t)
BY OutstandingPut DEF IsPending, IsFlush

LEMMA UiCommands ==
    ASSUME TypeOK, TypeOK', NumbersInv, CommandsInv, UiKinds
    PROVE  CommandsInv'
<1>1. /\ Confirming \in SUBSET Nat /\ Handled \in SUBSET Nat /\ Waiting \in SUBSET Nat /\ Outstanding \in SUBSET Nat
      /\ store.nextId \in Nat /\ \A id \in Outstanding : id < store.nextId  BY NumberTypes
<1>2. \A id \in Waiting : id < store.nextId  BY <1>1 DEF NumbersInv, NumbersHold
<1>3. StoreKept => /\ \A id, d : IsPending(store, id, d) => IsPending(store', id, d)
                   /\ \A id : IsFlush(store, id) => IsFlush(store', id)  BY DEF StoreKept, IsPending, IsFlush
<1>4. ASSUME NEW t \in Transactions \union {None}
      PROVE  SetDataCommand(store.nextId, t) \in Commands /\ SetDataCommand(store.nextId, t).op = "set_data"
             /\ SetDataCommand(store.nextId, t).id = store.nextId /\ SetDataCommand(store.nextId, t).data = t
  BY SentTypes DEF SetDataCommand
<1>5. CASE QuietStep  BY <1>3, <1>5, CommandsKept DEF QuietStep, AudioKept
<1>6. CASE \E a \in Replies : TakesReply(a)  BY <1>3, <1>6, CommandsKept DEF TakesReply, AudioKept
<1>7. ASSUME NEW t \in Transactions, store'.flushes = store.flushes, engine' = engine,
             store'.pending = Append(store.pending, [id |-> store.nextId, data |-> t]),
             audioQ' = Append(audioQ, SetDataCommand(store.nextId, t))
      PROVE  CommandsInv'  BY <1>2, <1>7, CommandsSent, <1>4, NoneAssumption, StillPending
<1>8. CASE \E t \in Transactions : PutsData(t)  BY <1>7, <1>8 DEF PutsData
<1>9. CASE \E call \in {"save", "export"} : PutsFlush(call)
  <2>1. PICK call \in {"save", "export"} : PutsFlush(call)  BY <1>9
  <2> DEFINE c == SetDataCommand(store.nextId, None)
             e == [id |-> store.nextId, call |-> call]
  <2>2. c \in Commands /\ c.op = "set_data" /\ c.id = store.nextId /\ c.data = None /\ e.id = store.nextId  BY <1>4
  <2>3. audioQ' = Append(audioQ, c) /\ engine' = engine /\ store'.pending = store.pending
        /\ store'.flushes = store.flushes \union {e}  BY <2>1 DEF PutsFlush
  <2> HIDE DEF c, e
  <2> QED  BY <1>2, <2>2, <2>3, CommandsSent DEF IsPending, IsFlush
<1>10. ASSUME NEW n \in Confirming, NEW id \in Handled \union Waiting PROVE id # n
  BY <1>1, <1>10 DEF NumbersInv, NumbersHold, Below
<1>11. CASE \E a \in Replies : TakesFlush(a)
  <2>1. PICK a \in Replies : TakesFlush(a)  BY <1>11
  <2> QED  BY <2>1, CommandsKept, <1>10 DEF TakesFlush, AudioKept, IsPending, IsFlush, FlowTakes, Confirming
<1>12. CASE \E a \in Replies : TakesConfirm(a)
  <2>1. PICK a \in Replies : TakesConfirm(a)  BY <1>12
  <2>2. a.id \in Confirming /\ store.pending # <<>> /\ Head(store.pending).id = a.id
    BY <2>1 DEF TakesConfirm, FlowTakes, Confirming, CanConfirm
  <2>3. /\ Head(store.pending) = store.pending[1]
        /\ \A p \in DOMAIN store.pending : p # 1 => p - 1 \in DOMAIN store'.pending /\ store'.pending[p - 1] = store.pending[p]
    BY <2>1, <2>2, OutstandingConfirmed DEF TakesConfirm
  <2>4. \A id : IsFlush(store, id) => IsFlush(store', id)  BY <2>1 DEF TakesConfirm, IsFlush
  <2> QED  BY <2>1, <2>4, CommandsKept, <1>10, <2>2, <2>3 DEF TakesConfirm, AudioKept, IsPending
<1>13. CASE \E a \in Replies : TakesEntry(a)  BY <1>13, CommandsKept DEF TakesEntry, AudioKept, IsPending, IsFlush
<1>14. CASE \E a \in Replies : TakesFinish(a)
  <2>1. PICK a \in Replies : TakesFinish(a)  BY <1>14
  <2>2. CASE store'.pending = store.pending /\ UNCHANGED <<audioQ, log>>
    BY <2>1, <2>2, CommandsKept DEF TakesFinish, IsPending, IsFlush
  <2>3. CASE ~(store'.pending = store.pending /\ UNCHANGED <<audioQ, log>>)  BY <1>7, <2>1, <2>3 DEF TakesFinish
  <2> QED  BY <2>2, <2>3
<1>15. CASE PutsHalt  BY <1>3, <1>15, CommandsSent DEF HaltCommand, Commands, PutsHalt
<1>16. CASE PutsLoad  BY <1>3, <1>16, CommandsSent DEF LoadCommand, Commands, PutsLoad
<1> QED  BY <1>5, <1>6, <1>8, <1>9, <1>11, <1>12, <1>13, <1>14, <1>15, <1>16 DEF UiKinds

LEMMA AudioCommands ==
    ASSUME TypeOK, CommandsInv, StoreKept, AudioKinds
    PROVE  CommandsInv'
<1>1. /\ \A id, d : IsPending(store, id, d) => IsPending(store', id, d)
      /\ \A id : IsFlush(store, id) => IsFlush(store', id)  BY DEF StoreKept, IsPending, IsFlush
<1>2. Idle.op = "idle"  BY DEF Idle
<1>3. ASSUME audioQ' = audioQ,
             engine'.doing.op = "set_data" =>
                engine.doing.op = "set_data" /\ engine'.doing.id = engine.doing.id /\ engine'.doing.data = engine.doing.data
      PROVE  CommandsInv'  BY <1>1, <1>3 DEF CommandsInv
<1>4. ASSUME audioQ # <<>>, audioQ' = Tail(audioQ),
             engine'.doing.op = "set_data" => IsPending(store, engine'.doing.id, engine'.doing.data)
      PROVE  CommandsInv'  BY <1>4, WaitingTaken, <1>1 DEF CommandsInv
<1>5. CASE FlowKept /\ AudioKept  BY <1>3, <1>5 DEF AudioKept
<1>6. CASE TakesHalt  BY <1>2, <1>4, <1>6 DEF TakesHalt, TakesHead, EngineBecomes
<1>7. CASE TakesToken  BY <1>2, <1>4, <1>7 DEF TakesToken, TakesHead, EngineBecomes
<1>8. CASE TakesData  BY <1>8, WaitingTaken, <1>4 DEF TakesData, TakesHead, CommandsInv, EngineBecomes
<1>9. CASE \E k \in Keys : SetsKey(k)  BY <1>3, <1>9, EngineFacts, DoingFacts, DoingWork DEF SetsKey, EngineBecomes
<1>10. CASE SetsAll  BY <1>2, <1>3, <1>10 DEF SetsAll, EngineBecomes
<1>11. CASE TakesLoad  BY <1>4, <1>11 DEF TakesLoad, TakesHead, EngineBecomes
<1>12. CASE \E k \in Keys : LoadsKey(k)  BY <1>3, <1>12 DEF LoadsKey, EngineBecomes
<1>13. CASE LoadFails  BY <1>2, <1>3, <1>13 DEF LoadFails, EngineBecomes
<1>14. CASE Validates  BY <1>3, <1>14 DEF Validates, EngineBecomes
<1>15. CASE \E k \in Keys : SendsEntry(k)  BY <1>3, <1>15 DEF SendsEntry, EngineBecomes
<1>16. CASE LoadEnds  BY <1>2, <1>3, <1>16 DEF LoadEnds, EngineBecomes
<1>17. CASE EngineEnds  BY <1>2, <1>3, <1>17 DEF EngineEnds
<1>18. CASE EngineDies  BY <1>2, <1>3, <1>18 DEF EngineDies
<1> QED
  BY <1>5, <1>6, <1>7, <1>8, <1>9, <1>10, <1>11, <1>12, <1>13, <1>14, <1>15, <1>16, <1>17, <1>18 DEF AudioKinds,
     SetDataKinds, LoadKinds

-----------------------------------------------------------------------------
\* The order of the replies.

LEMMA UiSound ==
    ASSUME Sound(Flow), UiKinds
    PROVE  Sound(Flow)'
<1>1. \A m : ~Bad(m, Reply("halt"))  BY DEF Bad, Reply
<1> QED
  BY <1>1 DEF UiKinds, QuietStep, TakesReply, PutsData, PutsFlush, TakesFlush, TakesConfirm, TakesEntry, TakesFinish,
     PutsHalt, PutsLoad, FlowKept, FlowTakes, FlowGrows

LEMMA NothingAfter ==
    ASSUME NEW a, a.op \notin {"confirm_valid_data", "entry", "import_progress", "import_finished", "import_error"}
    PROVE  \A m : ~Bad(m, a)
    BY DEF Bad

LEMMA ConfirmedLast ==
    ASSUME TypeOK, NumbersInv, NEW id \in Handled \union Waiting
    PROVE  \A m \in Items(Flow) : ~Bad(m, Confirmation(id))
<1>1. ASSUME NEW m \in Items(Flow) PROVE ~Bad(m, Confirmation(id))
  BY NumberTypes DEF Confirming, Bad, Confirmation, ReplyId, NumbersInv, NumbersHold, Below
<1> QED  BY <1>1

LEMMA AudioSound ==
    ASSUME TypeOK, IInv, AudioKinds
    PROVE  Sound(Flow)'
<1>1. Sound(Flow) /\ NumbersInv  BY DEF IInv
<1>2. \A id : ReplyId("progress", id).op = "progress" /\ ReplyId("progress_done", id).op = "progress_done"
  BY DEF ReplyId
<1>3. \A op : Reply(op).op = op  BY DEF Reply
<1>4. CASE FlowKept  BY <1>1, <1>4 DEF FlowKept
<1>5. CASE TakesToken  BY <1>5, TakeFacts, <1>1, ConfirmedLast DEF TakesToken, TakesHead, Waiting, FlowGrows
<1>6. CASE \E k \in Keys : SetsKey(k)  BY <1>1, <1>2, <1>6, NothingAfter DEF SetsKey, FlowGrows
<1>7. CASE SetsAll  BY <1>7, <1>2, NothingAfter, <1>1, ConfirmedLast DEF SetsAll, Handled, FlowGrowsBy
<1>8. ASSUME engine.doing.op \in {"load", "entries"},
             NEW a, a.op \in {"import_progress", "import_finished", "import_error", "entry"}, NEW m \in Items(Flow)
      PROVE  ~Bad(m, a)  BY <1>8 DEF LoadInv, Reading, Sending, LoadReplies, Bad, IInv, EditInv, NothingToLoad
<1>9. CASE \E k \in Keys : LoadsKey(k)  BY <1>1, <1>3, <1>8, <1>9 DEF LoadsKey, FlowGrows
<1>10. CASE LoadFails  BY <1>1, <1>3, <1>8, <1>10 DEF LoadFails, FlowGrows
<1>11. CASE \E k \in Keys : SendsEntry(k)
  <2>1. PICK k \in Keys : SendsEntry(k)  BY <1>11
  <2> QED  BY <1>1, <1>3, <1>8, <2>1 DEF SendsEntry, FlowGrowsBy, Bad, Entry
<1>12. CASE LoadEnds  BY <1>1, <1>3, <1>8, <1>12 DEF LoadEnds, FlowGrows
<1>13. CASE EngineDies  BY <1>1, <1>3, <1>13, NothingAfter DEF EngineDies, FlowGrows
<1> QED
  BY <1>4, <1>5, <1>6, <1>7, <1>9, <1>10, <1>11, <1>12, <1>13 DEF AudioKinds, SetDataKinds, LoadKinds, TakesHalt,
     TakesData, TakesLoad, Validates, EngineEnds

-----------------------------------------------------------------------------
\* The loading is over.

LEMMA NoLoadTask ==
    ASSUME TypeOK, [Next]_vars, \A i \in DOMAIN tasks : tasks[i].op # "load"
    PROVE  \A i \in DOMAIN tasks' : tasks'[i].op # "load"
<1> DEFINE Clean(q) == \A i \in DOMAIN q : q[i].op # "load"
<1>1. tasks \in Seq(Tasks)  BY DEF TypeOK
<1>2. ASSUME NEW op \in {"save", "export", "import"}, tasks' = Append(tasks, [op |-> op]) PROVE Clean(tasks')
  <2> DEFINE e == [op |-> op]
  <2> HIDE DEF e
  <2> QED  BY <1>2, <1>1, AppendFacts, TaskShapes DEF e
<1>3. ASSUME tasks # <<>>, tasks' = Tail(tasks) PROVE Clean(tasks')  BY <1>1, <1>3, HeadFacts
<1>4. ASSUME tasks # <<>>, NEW task \in Tasks, task.op # "load", tasks' = <<task>> \o Tail(tasks) PROVE Clean(tasks')
  <2> DEFINE s == Tail(tasks)
  <2>1. /\ s \in Seq(Tasks) /\ DOMAIN s = 1..Len(s) /\ Len(s) \in Nat
        /\ \A i \in DOMAIN s : s[i].op # "load"  BY <1>1, <1>4, HeadFacts, IndexFacts
  <2> HIDE DEF s
  <2>2. ASSUME NEW i \in DOMAIN (<<task>> \o s) PROVE (<<task>> \o s)[i] = task \/ (i - 1 \in DOMAIN s /\ (<<task>> \o s)[i] = s[i - 1])
    BY <2>1, <2>2
  <2> QED  BY <1>4, <2>1, <2>2 DEF s
<1>5. tasks' = tasks => Clean(tasks')  OBVIOUS
<1>6. \A name : Crash(name) => tasks' = tasks  BY DEF Crash
<1>7. CASE UserStep
  BY <1>5, <1>6, <1>7 DEF UserStep, Edit, EditFails, Save, StartImport, StartExport, StartFails, TryExit, ExitCancel,
     ExitDiscard, ExitSave, ExitSaveFails, CloseErrorDialog
<1>8. CASE CommandStep
  <2>1. CASE ConfirmFlush  BY <1>2, <2>1 DEF ConfirmFlush
  <2> QED
    BY <1>5, <1>6, <1>8, <2>1 DEF CommandStep, NextList, Confirm, Progress, ProgressDone, ImportProgress,
       ImportedEntry, ImportError, ImportFinished, ExceptionShown, HaltUi
<1>9. CASE SignalStep
  <2>1. CASE OnStartImport  BY <1>2, <2>1 DEF OnStartImport
  <2> QED
    BY <1>5, <1>6, <1>9, <2>1 DEF SignalStep, StartUpdates, OnStartSave, OnStartExport, OnStart, OnSaveFinished,
       OnExportFinished, OnImportFinished, OnError, OnModule, OnProgress, OnVisibility, EndTick
<1>10. CASE TaskStep
  <2> USE DEF TaskTurn, WriteTask, TaskDone, TaskYields
  <2>1. CASE StartWriting
    <3> DEFINE task == [op |-> Writing.op, todo |-> Written(Writing.op), got |-> [k \in {} |-> None]]
    <3>1. task \in Tasks
      <4>1. [k \in {} |-> None] \in Transactions  BY DEF Transactions
      <4> QED  BY <4>1, TaskShapes, <2>1 DEF StartWriting, Written, ListedKeys, Writing
    <3> HIDE DEF task
    <3> QED  BY <1>4, <3>1, <2>1 DEF StartWriting, Writing
  <2>2. CASE WriteKey
    <3>1. PICK k \in Writing.todo :
            \/ Crash("key")
            \/ TaskYields([Writing EXCEPT !.todo = @ \ {k},
                                       !.got = [j \in DOMAIN @ \union {k} |->
                                                 IF j = k THEN View(store)[k] ELSE @[j]]])  BY <2>2 DEF WriteKey
    <3> DEFINE got == [j \in DOMAIN Writing.got \union {k} |->
                        IF j = k THEN View(store)[k] ELSE Writing.got[j]]
               todo == Writing.todo \ {k}
               task == [Writing EXCEPT !.todo = todo, !.got = got]
    <3>2. /\ Writing \in [op : {"save", "export"}, todo : SUBSET Keys, got : Transactions]
          /\ tasks # <<>> /\ Writing.op \in {"save", "export"}
      BY <2>2, TaskShapes, TaskQueueTypes DEF WriteKey, Writing
    <3>3. task.op = Writing.op  BY <3>2
    <3>4. task \in Tasks
      <4>1. k \in Keys /\ todo \in SUBSET Keys  BY <3>2
      <4>2. got \in Transactions
        <5>1. got \in [DOMAIN Writing.got \union {k} -> Values \union {None}] /\ DOMAIN Writing.got \union {k} \in SUBSET Keys
          BY <4>1, ViewType, <3>2, TransactionType DEF TypeOK
        <5> QED  BY <5>1 DEF Transactions
      <4> HIDE DEF got, todo
      <4> QED  BY <3>2, <4>1, <4>2 DEF Tasks
    <3>5. Crash("key") \/ TaskYields(task)  BY <3>1
    <3> HIDE DEF task
    <3> QED  BY <1>4, <1>5, <3>2, <3>3, <3>4, <1>6, <3>5
  <2>3. CASE StartImportTask  BY <1>4, <2>3, TaskShapes DEF StartImportTask
  <2> QED
    BY <1>3, <1>10, <2>1, <2>2, <2>3 DEF TaskStep, LoadTask, SandboxTask, WriteError, FinishWriting, ImportTaskError,
       ImportTaskPut
<1> QED
  BY <1>5, <1>7, <1>8, <1>9, <1>10 DEF Next, vars, AudioStep, uiVars, CloseCrashDialog, Tick, TickStart, MainHalts,
     MainDone, MainUnchanged, Stopped

-----------------------------------------------------------------------------
\* What the store answers and what the engine will hold, key by key.

Carries(c, k) == c.op = "set_data" /\ c.data # None /\ k \in DOMAIN c.data
CarriedIn(q, k) == {i \in DOMAIN q : Carries(q[i], k)}
\* What the engine holds when it has done what it is doing.
Base(e, k) ==
    IF e.doing.op = "set_data" /\ k \in e.doing.todo THEN e.doing.data[k] ELSE e.data[k]
Foreseen(q, e, k) ==
    IF CarriedIn(q, k) # {}
    THEN q[CHOOSE i \in CarriedIn(q, k) : \A j \in CarriedIn(q, k) : j <= i].data[k]
    ELSE Base(e, k)

LEMMA UpcomingIs ==
    Upcoming = [k \in Keys |-> Foreseen(audioQ, engine, k)]
    BY DEF Upcoming, WaitingFor, Foreseen, Base, CarriedIn, Carries

LEMMA UpcomingNext ==
    Upcoming' = [k \in Keys |-> Foreseen(audioQ', engine', k)]
    BY DEF Upcoming, WaitingFor, Foreseen, Base, CarriedIn, Carries

\* The last command that carries a key decides.
LEMMA ForeseenFacts ==
    ASSUME NEW q, NEW n \in Nat, DOMAIN q = 1..n, NEW e, NEW k
    PROVE  /\ CarriedIn(q, k) = {} => Foreseen(q, e, k) = Base(e, k)
           /\ \A i \in CarriedIn(q, k) :
                (\A j \in CarriedIn(q, k) : j <= i) => Foreseen(q, e, k) = q[i].data[k]
           /\ CarriedIn(q, k) # {} => \E i \in CarriedIn(q, k) : \A j \in CarriedIn(q, k) : j <= i
<1> DEFINE I == CarriedIn(q, k)
<1>1. I \in SUBSET (1..n)  BY DEF CarriedIn
<1>2. ASSUME NEW i \in I, \A j \in I : j <= i PROVE Foreseen(q, e, k) = q[i].data[k]  BY <1>1, <1>2 DEF Foreseen
<1> QED  BY <1>2, <1>1, GreatestOf DEF Foreseen

LEMMA ForeseenSent ==
    ASSUME NEW q \in Seq(Commands), NEW c \in Commands, NEW e, NEW k
    PROVE  Foreseen(Append(q, c), e, k) = IF Carries(c, k) THEN c.data[k] ELSE Foreseen(q, e, k)
<1> DEFINE n == Len(q)
           r == Append(q, c)
<1>1. /\ n \in Nat /\ DOMAIN q = 1..n /\ DOMAIN r = 1..n + 1
      /\ \A i \in 1..n : r[i] = q[i]
      /\ r[n + 1] = c  BY AppendFacts
<1> HIDE DEF n, r
<1>2. n + 1 \in Nat  BY <1>1
<1>3. CASE Carries(c, k)
  <2>1. Foreseen(r, e, k) = r[n + 1].data[k]  BY <1>1, <1>2, ForeseenFacts, <1>3 DEF CarriedIn
  <2> QED  BY <1>1, <1>3, <2>1 DEF r
<1>4. CASE ~Carries(c, k)
  <2>1. CarriedIn(r, k) = CarriedIn(q, k)  BY <1>1, <1>4 DEF CarriedIn
  <2>2. CASE CarriedIn(q, k) = {}
    <3>1. Foreseen(r, e, k) = Base(e, k)  BY <1>1, <1>2, <2>1, <2>2, ForeseenFacts
    <3> QED  BY <1>4, <3>1, <1>1, <2>2, ForeseenFacts DEF r
  <2>3. CASE CarriedIn(q, k) # {}
    <3>1. PICK i \in CarriedIn(q, k) : \A j \in CarriedIn(q, k) : j <= i  BY <1>1, <2>3, ForeseenFacts
    <3>2. Foreseen(r, e, k) = r[i].data[k]  BY <1>1, <1>2, <2>1, <3>1, ForeseenFacts
    <3> QED  BY <1>4, <3>2, <1>1, <3>1, ForeseenFacts DEF r, CarriedIn
  <2> QED  BY <2>2, <2>3
<1> QED  BY <1>3, <1>4

LEMMA ForeseenTaken ==
    ASSUME NEW q \in Seq(Commands), q # <<>>, NEW e, NEW e2, NEW k,
           Base(e2, k) = IF Carries(q[1], k) THEN q[1].data[k] ELSE Base(e, k)
    PROVE  Foreseen(Tail(q), e2, k) = Foreseen(q, e, k)
<1> DEFINE n == Len(q)
           r == Tail(q)
<1>1. /\ n \in Nat \ {0} /\ DOMAIN q = 1..n /\ 1 \in DOMAIN q /\ DOMAIN r = 1..n - 1
      /\ \A i \in 1..n - 1 : r[i] = q[i + 1]  BY HeadFacts
<1> HIDE DEF n, r
<1>2. n - 1 \in Nat /\ n \in Nat  BY <1>1
<1>3. \A i \in DOMAIN r : i + 1 \in DOMAIN q /\ r[i] = q[i + 1] /\ i \in Nat  BY <1>1
<1>4. \A i \in DOMAIN q : i \in Nat /\ (i # 1 => i - 1 \in DOMAIN r /\ (i - 1) + 1 = i)  BY <1>1
<1>5. CASE CarriedIn(r, k) = {}
  <2>1. \A i \in CarriedIn(q, k) : i = 1
    <3> SUFFICES ASSUME NEW i \in CarriedIn(q, k), i # 1 PROVE FALSE  OBVIOUS
    <3> QED  BY <1>5, <1>3, <1>4 DEF CarriedIn
  <2>2. Foreseen(r, e2, k) = Base(e2, k)  BY <1>1, <1>2, <1>5, ForeseenFacts
  <2>3. CASE Carries(q[1], k)  BY <1>1, <2>1, <2>3, <1>2, ForeseenFacts, <2>2 DEF CarriedIn, r
  <2>4. CASE ~Carries(q[1], k)  BY <2>1, <2>4, <1>1, <1>2, ForeseenFacts, <2>2 DEF CarriedIn, r
  <2> QED  BY <2>3, <2>4
<1>6. CASE CarriedIn(r, k) # {}
  <2>1. PICK i \in CarriedIn(r, k) : \A j \in CarriedIn(r, k) : j <= i  BY <1>1, <1>2, <1>6, ForeseenFacts
  <2>2. Foreseen(r, e2, k) = r[i].data[k]  BY <1>1, <1>2, <2>1, ForeseenFacts
  <2>3. i \in DOMAIN r /\ Carries(r[i], k) /\ i \in Nat /\ i >= 1  BY <1>1 DEF CarriedIn
  <2>4. i + 1 \in CarriedIn(q, k) /\ r[i] = q[i + 1]  BY <1>3, <2>3 DEF CarriedIn
  <2>5. ASSUME NEW j \in CarriedIn(q, k) PROVE j <= i + 1  BY <1>4, <2>3, <1>3, <2>1 DEF CarriedIn
  <2>6. Foreseen(q, e, k) = q[i + 1].data[k]  BY <1>1, <1>2, <2>4, <2>5, ForeseenFacts
  <2> QED  BY <2>2, <2>4, <2>6 DEF r
<1> QED  BY <1>5, <1>6

LEMMA ForeseenKept ==
    ASSUME NEW q, NEW e, NEW e2, NEW k, Base(e2, k) = Base(e, k)
    PROVE  Foreseen(q, e2, k) = Foreseen(q, e, k)
    BY DEF Foreseen

\* The last transaction that has a key decides.
LEMMA ViewOf ==
    ASSUME NEW st, NEW n \in Nat, DOMAIN st.pending = 1..n, NEW k \in Keys
    PROVE  /\ Touching(st, k) = {} => View(st)[k] = st.content[k]
           /\ \A i \in Touching(st, k) :
                (\A j \in Touching(st, k) : j <= i) => View(st)[k] = st.pending[i].data[k]
           /\ Touching(st, k) # {} => \E i \in Touching(st, k) : \A j \in Touching(st, k) : j <= i
<1> DEFINE I == Touching(st, k)
<1>1. I \in SUBSET (1..n)  BY DEF Touching
<1>2. ASSUME NEW i \in I, \A j \in I : j <= i PROVE View(st)[k] = st.pending[i].data[k]  BY <1>1, <1>2 DEF View
<1> QED  BY <1>2, <1>1, GreatestOf DEF View

LEMMA ViewPut ==
    ASSUME TypeOK, NEW t \in Transactions, store'.flushes = store.flushes, store'.content = store.content,
           store'.pending = Append(store.pending, [id |-> store.nextId, data |-> t]), NEW k \in Keys
    PROVE  View(store')[k] = IF k \in DOMAIN t THEN t[k] ELSE View(store)[k]
<1> DEFINE n == Len(store.pending)
<1>1. /\ n \in Nat /\ DOMAIN store.pending = 1..n /\ DOMAIN store'.pending = 1..n + 1
      /\ \A p \in DOMAIN store.pending : store'.pending[p] = store.pending[p]
      /\ store'.pending[n + 1].data = t  BY OutstandingPut
<1> HIDE DEF n
<1>2. n + 1 \in Nat  BY <1>1
<1>3. CASE k \in DOMAIN t
  <2>1. n + 1 \in Touching(store', k) /\ \A j \in Touching(store', k) : j <= n + 1  BY <1>1, <1>3 DEF Touching
  <2> QED  BY <1>1, <1>2, <1>3, <2>1, ViewOf
<1>4. CASE k \notin DOMAIN t
  <2>1. Touching(store', k) = Touching(store, k)  BY <1>1, <1>4 DEF Touching
  <2>2. CASE Touching(store, k) = {}  BY <1>1, <1>2, <1>4, <2>1, <2>2, ViewOf
  <2>3. CASE Touching(store, k) # {}
    <3>1. PICK i \in Touching(store, k) : \A j \in Touching(store, k) : j <= i  BY <1>1, <2>3, ViewOf
    <3>2. View(store)[k] = store.pending[i].data[k]  BY <1>1, <3>1, ViewOf
    <3>3. View(store')[k] = store'.pending[i].data[k]
      <4>1. i \in Touching(store', k) /\ \A j \in Touching(store', k) : j <= i  BY <2>1, <3>1
      <4>2. DOMAIN store'.pending = 1..n + 1  BY <1>1
      <4> QED  BY <1>2, <4>1, <4>2, ViewOf
    <3>4. store'.pending[i] = store.pending[i]  BY <1>1 DEF Touching
    <3> QED  BY <1>4, <3>2, <3>3, <3>4
  <2> QED  BY <2>2, <2>3
<1> QED  BY <1>3, <1>4

LEMMA ViewConfirm ==
    ASSUME TypeOK, store.pending # <<>>, store'.pending = Tail(store.pending), store'.flushes = store.flushes,
           store'.content = Overlay(store.content, Head(store.pending).data), NEW k \in Keys
    PROVE  View(store')[k] = View(store)[k]
<1> DEFINE n == Len(store.pending)
           t == store.pending[1].data
<1>1. /\ 1 \in DOMAIN store.pending /\ Head(store.pending) = store.pending[1]
      /\ n \in Nat \ {0} /\ DOMAIN store.pending = 1..n
      /\ DOMAIN store'.pending = 1..n - 1
      /\ \A p \in DOMAIN store'.pending : p + 1 \in DOMAIN store.pending /\ p + 1 # 1 /\ store'.pending[p] = store.pending[p + 1]
      /\ \A p \in DOMAIN store.pending : p # 1 => p - 1 \in DOMAIN store'.pending /\ store'.pending[p - 1] = store.pending[p]
  BY OutstandingConfirmed
<1> HIDE DEF n
<1>2. n - 1 \in Nat /\ n \in Nat /\ \A p \in DOMAIN store.pending : p \in Nat /\ p >= 1 /\ (p - 1) + 1 = p  BY <1>1
<1>3. store \in Stores /\ t \in Transactions  BY <1>1, PendingFacts DEF TypeOK
<1>4. store'.content[k] = IF k \in DOMAIN t THEN t[k] ELSE store.content[k]  BY <1>1, <1>3, OverlayType DEF Stores
<1>5. CASE Touching(store', k) = {}
  <2>1. \A p \in Touching(store, k) : p = 1  BY <1>1, <1>5 DEF Touching
  <2>2. View(store')[k] = store'.content[k]  BY <1>1, <1>2, <1>5, ViewOf
  <2>3. CASE k \in DOMAIN t  BY <1>1, <2>1, <2>3, <1>2, ViewOf, <1>4, <2>2 DEF Touching
  <2>4. CASE k \notin DOMAIN t  BY <2>1, <2>4, <1>1, <1>2, ViewOf, <1>4, <2>2 DEF Touching
  <2> QED  BY <2>3, <2>4
<1>6. CASE Touching(store', k) # {}
  <2>1. PICK i \in Touching(store', k) : \A j \in Touching(store', k) : j <= i  BY <1>1, <1>2, <1>6, ViewOf
  <2>2. View(store')[k] = store'.pending[i].data[k]
    <3> DEFINE m == n - 1
    <3>1. m \in Nat /\ DOMAIN store'.pending = 1..m  BY <1>1, <1>2
    <3> HIDE DEF m
    <3> QED  BY <2>1, <3>1, ViewOf
  <2>3. i \in DOMAIN store'.pending /\ i \in Nat /\ i >= 1  BY <1>1 DEF Touching
  <2>4. i + 1 \in Touching(store, k) /\ store'.pending[i] = store.pending[i + 1]  BY <1>1, <2>3 DEF Touching
  <2>5. ASSUME NEW j \in Touching(store, k) PROVE j <= i + 1
    <3>1. j \in DOMAIN store.pending /\ j \in Nat  BY <1>2 DEF Touching
    <3>2. CASE j = 1  BY <2>3, <3>2
    <3>3. CASE j # 1
      <4>1. j - 1 <= i  BY <2>1, <1>1, <3>1, <3>3 DEF Touching
      <4> QED  BY <2>3, <3>1, <4>1
    <3> QED  BY <3>2, <3>3
  <2>6. View(store)[k] = store.pending[i + 1].data[k]  BY <1>1, <1>2, <2>4, <2>5, ViewOf
  <2> QED  BY <2>2, <2>4, <2>6
<1> QED  BY <1>5, <1>6

LEMMA ViewKept ==
    ASSUME NEW st, NEW nx, nx.pending = st.pending, nx.content = st.content
    PROVE  View(nx) = View(st)
    BY DEF View, Touching

-----------------------------------------------------------------------------
\* While the user may edit: the store answers what the engine will hold.

LEMMA ViewsByKey ==
    /\ View(store) = Upcoming <=> \A k \in Keys : View(store)[k] = Foreseen(audioQ, engine, k)
    /\ View(store') = Upcoming' <=> \A k \in Keys : View(store')[k] = Foreseen(audioQ', engine', k)
BY UpcomingIs, UpcomingNext DEF View

LEMMA QueueTypes ==
    ASSUME TypeOK
    PROVE  audioQ \in Seq(Commands) /\ \A t \in Transactions \union {None} : SetDataCommand(store.nextId, t) \in Commands
    BY SentTypes DEF TypeOK, AudioTypeOK

LEMMA UiView ==
    ASSUME TypeOK, View(store) = Upcoming,
           \/ QuietStep \/ \E a \in Replies : TakesReply(a) \/ TakesFlush(a) \/ TakesConfirm(a)
           \/ (\E t \in Transactions : PutsData(t)) \/ (\E call \in {"save", "export"} : PutsFlush(call))
           \/ PutsHalt
    PROVE  View(store') = Upcoming'
<1>1. \A k \in Keys : View(store)[k] = Foreseen(audioQ, engine, k)  BY ViewsByKey
<1>2. StoreKept => View(store') = View(store)  BY ViewKept DEF StoreKept
<1>3. ASSUME View(store') = View(store), AudioKept PROVE View(store') = Upcoming'
  BY <1>1, <1>3, ViewsByKey DEF AudioKept
<1>4. audioQ \in Seq(Commands)  BY QueueTypes
<1>5. CASE \E t \in Transactions : PutsData(t)
  <2>1. PICK t \in Transactions : PutsData(t)  BY <1>5
  <2> DEFINE c == SetDataCommand(store.nextId, t)
  <2>2. c \in Commands  BY QueueTypes
  <2>3. \A k : Carries(c, k) <=> k \in DOMAIN t  BY NoneAssumption DEF Carries, SetDataCommand
  <2>4. c.data = t /\ audioQ' = Append(audioQ, c) /\ engine' = engine  BY <2>1 DEF SetDataCommand, PutsData
  <2> HIDE DEF c
  <2>5. ASSUME NEW k \in Keys PROVE View(store')[k] = Foreseen(audioQ', engine', k)
    <3>1. Foreseen(audioQ', engine', k) = IF k \in DOMAIN t THEN t[k] ELSE Foreseen(audioQ, engine, k)
      BY <1>4, <2>2, <2>3, <2>4, ForeseenSent
    <3> QED  BY <1>1, <3>1, <2>1, ViewPut DEF PutsData
  <2> QED  BY <2>5, ViewsByKey
<1>6. ASSUME View(store') = View(store), engine' = engine, NEW c \in Commands, \A k : ~Carries(c, k),
             audioQ' = Append(audioQ, c)
      PROVE  View(store') = Upcoming'  BY <1>1, <1>4, <1>6, ForeseenSent, ViewsByKey
<1>7. CASE \E call \in {"save", "export"} : PutsFlush(call)
  <2>1. PICK call \in {"save", "export"} : PutsFlush(call)  BY <1>7
  <2> DEFINE c == SetDataCommand(store.nextId, None)
  <2> HIDE DEF c
  <2> QED  BY <1>6, <2>1, QueueTypes, ViewKept DEF PutsFlush, c, Carries, SetDataCommand
<1>8. CASE PutsHalt  BY <1>2, <1>6, <1>8 DEF HaltCommand, Commands, Carries, PutsHalt
<1>9. CASE \E a \in Replies : TakesConfirm(a)
  <2>1. PICK a \in Replies : TakesConfirm(a)  BY <1>9
  <2> QED  BY <1>1, <2>1, ViewsByKey, ViewConfirm DEF TakesConfirm, AudioKept, CanConfirm
<1>10. CASE \E a \in Replies : TakesFlush(a)  BY <1>3, <1>10, ViewKept DEF TakesFlush
<1> QED  BY <1>2, <1>3, <1>5, <1>7, <1>8, <1>9, <1>10 DEF QuietStep, TakesReply

LEMMA AudioView ==
    ASSUME TypeOK, View(store) = Upcoming, StoreKept, AudioKinds, engine.doing.op \notin {"load", "entries"},
           \A i \in DOMAIN audioQ : audioQ[i].op # "load_module",
           AudioFails => engine'.alive
    PROVE  View(store') = Upcoming'
<1>1. \A k \in Keys : View(store)[k] = Foreseen(audioQ, engine, k)  BY ViewsByKey
<1>2. View(store') = View(store)  BY ViewKept DEF StoreKept
<1>3. Idle.op = "idle"  BY DEF Idle
<1>4. ASSUME audioQ' = audioQ, \A k \in Keys : Base(engine', k) = Base(engine, k)
      PROVE  View(store') = Upcoming'  BY <1>1, <1>2, <1>4, ForeseenKept, ViewsByKey
<1>5. ASSUME TakesHead,
             \A k \in Keys : Base(engine', k) = IF Carries(audioQ[1], k) THEN audioQ[1].data[k] ELSE Base(engine, k)
      PROVE  View(store') = Upcoming'  BY <1>1, <1>2, <1>5, ForeseenTaken, ViewsByKey, QueueTypes DEF TakesHead
<1>6. CASE FlowKept /\ AudioKept  BY <1>4, <1>6 DEF AudioKept
<1>7. CASE TakesHalt  BY <1>3, <1>5, <1>7 DEF TakesHalt, TakesHead, EngineBecomes, Base, Carries
<1>8. CASE TakesToken  BY <1>3, <1>5, <1>8 DEF TakesToken, TakesHead, EngineBecomes, Base, Carries
<1>9. CASE TakesData  BY <1>3, <1>5, <1>9 DEF TakesData, TakesHead, EngineBecomes, Base, Carries
<1>10. CASE \E k \in Keys : SetsKey(k)
  <2>1. PICK k \in Keys : SetsKey(k)  BY <1>10
  <2> QED  BY <1>4, <2>1, DoingWork, EngineFacts, DoingFacts DEF SetsKey, Base, EngineBecomes, Contents
<1>11. CASE SetsAll  BY <1>3, <1>4, <1>11 DEF SetsAll, EngineBecomes, Base
<1>12. CASE LoadKinds
  <2>1. TakesLoad  BY <1>12 DEF LoadKinds, LoadsKey, LoadFails, Validates, SendsEntry, LoadEnds
  <2> QED  BY <2>1, TakeFacts DEF TakesLoad, TakesHead
<1>13. CASE EngineEnds  BY <1>3, <1>4, <1>13 DEF EngineEnds, Base
<1>14. CASE EngineDies  BY <1>14 DEF EngineDies
<1> QED  BY <1>6, <1>7, <1>8, <1>9, <1>10, <1>11, <1>12, <1>13, <1>14 DEF AudioKinds, SetDataKinds

-----------------------------------------------------------------------------
\* The log of what was put.

LEMMA LogFacts ==
    ASSUME TypeOK
    PROVE  /\ Len(log) \in Nat /\ confirmed \in Nat /\ engine.validated \in Nat
           /\ Len(store.pending) \in Nat /\ DOMAIN store.pending = 1..Len(store.pending)
           /\ \A p \in DOMAIN store.pending : store.pending[p].id \in Nat /\ ~IsFlush(store, store.pending[p].id)
           /\ \A p, q \in DOMAIN store.pending : p < q => store.pending[p].id < store.pending[q].id
           /\ \A t \in Transactions :
                /\ Len(Append(log, t)) = Len(log) + 1
                /\ \A i \in 1..Len(log) : Append(log, t)[i] = log[i]
                /\ Append(log, t)[Len(log) + 1] = t
BY EngineFacts, PendingFacts, AppendFacts DEF TypeOK, NumbersAreNew

\* The log is the same but for confirmations that are no transactions'.
LEMMA LogKeeps ==
    ASSUME LogInv, store'.pending = store.pending, log' = log, confirmed' = confirmed,
           engine'.validated = engine.validated, confirmed = 0 => store'.content = store.content,
           \A p \in DOMAIN store.pending : store.pending[p].id \in Confirming' <=> store.pending[p].id \in Confirming
    PROVE  LogInv'
    BY DEF LogInv

LEMMA LogPut ==
    ASSUME TypeOK, LogInv, NEW t \in Transactions, Confirming \subseteq Outstanding, Confirming' = Confirming,
           store'.pending = Append(store.pending, [id |-> store.nextId, data |-> t]),
           store'.flushes = store.flushes, store'.content = store.content,
           engine' = engine, log' = Append(log, t), confirmed' = confirmed
    PROVE  LogInv'
<1> DEFINE n == Len(store.pending)
           m == Len(log)
<1>1. /\ n \in Nat /\ DOMAIN store.pending = 1..n /\ DOMAIN store'.pending = 1..n + 1
      /\ Len(store'.pending) = n + 1
      /\ \A p \in DOMAIN store.pending : store'.pending[p] = store.pending[p]
      /\ store'.pending[n + 1].id = store.nextId
      /\ store'.pending[n + 1].data = t  BY OutstandingPut
<1>2. /\ m \in Nat /\ confirmed \in Nat /\ engine.validated \in Nat
      /\ Len(log') = m + 1 /\ \A i \in 1..m : log'[i] = log[i]
      /\ log'[m + 1] = t  BY LogFacts
<1>3. m = confirmed + n /\ engine.validated <= m /\ confirmed <= engine.validated  BY <1>2 DEF LogInv
<1> HIDE DEF n, m
<1>4. \A p \in DOMAIN store'.pending : p = n + 1 \/ (p \in DOMAIN store.pending /\ confirmed + p \in 1..m)
  BY <1>1, <1>2, <1>3
<1>5. /\ Len(log') = confirmed' + Len(store'.pending)
      /\ engine'.validated \in confirmed'..Len(log')  BY <1>1, <1>2, <1>3
<1>6. ASSUME NEW p \in DOMAIN store'.pending
      PROVE  /\ log'[confirmed + p] = store'.pending[p].data
             /\ store'.pending[p].id \in Confirming <=> confirmed + p <= engine.validated
  <2>1. CASE p = n + 1  BY <1>1, <1>2, <1>3, <2>1, NumberTypes
  <2>2. CASE p # n + 1  BY <1>1, <1>2, <1>4, <2>2 DEF LogInv
  <2> QED  BY <2>1, <2>2
<1> QED  BY <1>5, <1>6 DEF LogInv

LEMMA LogConfirm ==
    ASSUME TypeOK, TypeOK', LogInv, Sound(Flow), NEW a \in Replies, TakesConfirm(a)
    PROVE  LogInv'
<1> DEFINE n == Len(store.pending)
           m == Len(log)
<1>1. store.pending # <<>> /\ a.id = Head(store.pending).id  BY DEF TakesConfirm, CanConfirm
<1>2. /\ 1 \in DOMAIN store.pending /\ Head(store.pending) = store.pending[1]
      /\ n \in Nat \ {0} /\ DOMAIN store.pending = 1..n
      /\ DOMAIN store'.pending = 1..n - 1 /\ Len(store'.pending) = n - 1
      /\ \A p \in DOMAIN store'.pending : p + 1 \in DOMAIN store.pending /\ p + 1 # 1 /\ store'.pending[p] = store.pending[p + 1]
      /\ \A p \in DOMAIN store.pending : p # 1 => store.pending[1].id < store.pending[p].id
  BY <1>1, OutstandingConfirmed DEF TakesConfirm
<1>3. m \in Nat /\ confirmed \in Nat /\ engine.validated \in Nat /\ \A p \in DOMAIN store.pending : store.pending[p].id \in Nat
  BY LogFacts
<1>4. Confirming = Confirming' \union {a.id}  BY ConfirmingTaken DEF TakesConfirm
<1>5. m = confirmed + n /\ engine.validated <= m /\ confirmed + 1 <= engine.validated
  <2>1. confirmed + 1 <= engine.validated  BY <1>1, <1>2, <1>4 DEF LogInv
  <2> QED  BY <1>2, <1>3, <2>1 DEF LogInv
<1> HIDE DEF n, m
<1>6. confirmed' = confirmed + 1 /\ Len(log') = m /\ engine'.validated = engine.validated
  BY DEF TakesConfirm, AudioKept, m
<1>7. Len(log') = confirmed' + Len(store'.pending) /\ engine'.validated \in confirmed'..Len(log') /\ confirmed' # 0
  BY <1>6, <1>2, <1>3, <1>5
<1>8. ASSUME NEW p \in DOMAIN store'.pending
      PROVE  /\ log'[confirmed' + p] = store'.pending[p].data
             /\ store'.pending[p].id \in Confirming' <=> confirmed' + p <= engine'.validated
  <2>1. p \in Nat  BY <1>2
  <2>2. p + 1 \in DOMAIN store.pending /\ store'.pending[p] = store.pending[p + 1] /\ confirmed' + p = confirmed + (p + 1)
    BY <1>6, <1>2, <1>3, <2>1
  <2>3. store.pending[p + 1].id # a.id
    <3> DEFINE x == store.pending[1].id
               y == store.pending[p + 1].id
    <3>1. x \in Nat /\ y \in Nat /\ x < y  BY <1>2, <1>3, <2>2
    <3>2. a.id = x  BY <1>1, <1>2
    <3> HIDE DEF x, y
    <3>3. y # a.id  BY <3>1, <3>2
    <3> QED  BY <3>3 DEF y
  <2>4. store.pending[p + 1].id \in Confirming' <=> store.pending[p + 1].id \in Confirming  BY <1>4, <2>3
  <2>5. /\ log[confirmed + (p + 1)] = store.pending[p + 1].data
        /\ store.pending[p + 1].id \in Confirming <=> confirmed + (p + 1) <= engine.validated  BY <2>2 DEF LogInv
  <2> QED  BY <2>2, <2>4, <2>5 DEF TakesConfirm, AudioKept
<1> QED  BY <1>7, <1>8 DEF LogInv

LEMMA LogValidate ==
    ASSUME TypeOK, LogInv, NumbersInv, CommandsInv, engine.alive, StoreKept, LogKept, SetsAll
    PROVE  LogInv'
<1> DEFINE n == Len(store.pending)
           d == engine.doing.id
           v == engine.validated
<1>1. /\ n \in Nat /\ DOMAIN store.pending = 1..n /\ Len(log) \in Nat /\ confirmed \in Nat /\ v \in Nat
      /\ \A p \in DOMAIN store.pending : store.pending[p].id \in Nat
      /\ \A p, q \in DOMAIN store.pending : p < q => store.pending[p].id < store.pending[q].id  BY LogFacts
<1>2. PICK p \in DOMAIN store.pending : store.pending[p].id = d  BY DEF SetsAll, CommandsInv, IsPending
<1>3. Handled = {d}  BY DEF Handled, SetsAll
<1>4. Confirming \in SUBSET Nat /\ Waiting \in SUBSET Nat /\ d \in Nat  BY <1>3, NumberTypes
<1>5. /\ \A c \in Confirming : c < d
      /\ \A w \in Waiting : d < w
      /\ Outstanding \subseteq Confirming \union {d} \union Waiting  BY <1>3 DEF NumbersInv, NumbersHold, Below
<1>6. ASSUME NEW q \in DOMAIN store.pending PROVE store.pending[q].id \in Confirming <=> q < p
  <2>1. CASE q < p
    <3>1. store.pending[q].id < d /\ store.pending[q].id \in Outstanding  BY <1>1, <1>2, <2>1 DEF Outstanding
    <3>2. store.pending[q].id \in Nat  BY <1>1
    <3> QED  BY <1>4, <1>5, <2>1, <3>1, <3>2
  <2>2. CASE ~(q < p)
    <3>1. q = p \/ p < q  BY <1>1, <2>2
    <3>2. d <= store.pending[q].id /\ store.pending[q].id \in Nat  BY <1>1, <1>2, <1>4, <3>1
    <3>3. store.pending[q].id \notin Confirming  BY <1>4, <1>5, <3>2
    <3> QED  BY <2>2, <3>3
  <2> QED  BY <2>1, <2>2
<1>7. Len(log) = confirmed + n /\ confirmed <= v /\ v <= Len(log)  BY <1>1 DEF LogInv
<1>8. confirmed + p = v + 1
  <2>1. ~(confirmed + p <= v)
    <3>1. ~(p < p)  BY <1>1
    <3>2. store.pending[p].id \notin Confirming  BY <1>6, <3>1
    <3> QED  BY <3>2 DEF LogInv
  <2>2. CASE p = 1  BY <1>1, <1>7, <2>1, <2>2
  <2>3. CASE p # 1
    <3>1. p - 1 \in DOMAIN store.pending /\ p - 1 < p  BY <1>1, <2>3
    <3>2. store.pending[p - 1].id \in Confirming  BY <1>6, <3>1
    <3>3. confirmed + (p - 1) <= v  BY <3>1, <3>2 DEF LogInv
    <3>4. p \in Nat /\ confirmed \in Nat /\ v \in Nat  BY <1>1
    <3> HIDE DEF v
    <3> QED  BY <2>1, <3>3, <3>4
  <2> QED  BY <2>2, <2>3
<1>9. Confirming' = Confirming \union {d}  BY ConfirmingGrows DEF SetsAll, ReplyId
<1>10. engine'.validated = v + 1  BY DEF SetsAll, EngineBecomes
<1>11. v + 1 \in confirmed..Len(log)  BY <1>1, <1>2, <1>7, <1>8
<1>12. ASSUME NEW q \in DOMAIN store.pending
       PROVE  store.pending[q].id \in Confirming \union {d} <=> confirmed + q <= v + 1
  <2>1. store.pending[q].id = d <=> q = p
    <3>1. q < p \/ q = p \/ p < q  BY <1>1
    <3>2. q < p => store.pending[q].id < store.pending[p].id  BY <1>1
    <3>3. p < q => store.pending[p].id < store.pending[q].id  BY <1>1
    <3> QED  BY <1>1, <1>2, <1>4, <3>1, <3>2, <3>3
  <2>2. store.pending[q].id \in Confirming <=> confirmed + q <= v  BY DEF LogInv
  <2>3. q = p <=> confirmed + q = v + 1  BY <1>1, <1>8
  <2>4. confirmed + q \in Nat  BY <1>1
  <2> QED  BY <1>1, <2>1, <2>2, <2>3, <2>4
<1> HIDE DEF n, d, v
<1>13. store'.pending = store.pending /\ store'.content = store.content /\ log' = log /\ confirmed' = confirmed
  BY DEF StoreKept, LogKept
<1> QED  BY <1>9, <1>10, <1>11, <1>12, <1>13 DEF LogInv, v

-----------------------------------------------------------------------------
\* Steps while the user may edit.

LEMMA NumbersOut ==
    ASSUME NumbersInv
    PROVE  Confirming \subseteq Outstanding
    BY DEF NumbersInv, NumbersHold

LEMMA UiLog ==
    ASSUME TypeOK, TypeOK', Sound(Flow), NumbersInv, LogInv,
           \/ QuietStep \/ \E a \in Replies : TakesReply(a) \/ TakesFlush(a) \/ TakesConfirm(a)
           \/ (\E t \in Transactions : PutsData(t)) \/ (\E call \in {"save", "export"} : PutsFlush(call))
           \/ PutsHalt
    PROVE  LogInv'
<1>1. engine' = engine => engine'.validated = engine.validated  OBVIOUS
<1>2. ASSUME StoreKept, LogKept, engine' = engine, Confirming' = Confirming PROVE LogInv'
  BY <1>1, <1>2, LogKeeps DEF StoreKept, LogKept
<1>3. CASE QuietStep  BY <1>2, <1>3, ConfirmingKept DEF QuietStep, AudioKept
<1>4. CASE \E a \in Replies : TakesReply(a)  BY <1>2, <1>4, ConfirmingKept DEF TakesReply, AudioKept
<1>5. CASE \E t \in Transactions : PutsData(t)  BY <1>5, ConfirmingKept, NumbersOut, LogPut DEF PutsData
<1>6. CASE \E call \in {"save", "export"} : PutsFlush(call)
  BY <1>1, <1>6, ConfirmingKept, LogKeeps DEF PutsFlush, LogKept
<1>7. CASE PutsHalt  BY <1>2, <1>7, ConfirmingKept DEF Reply, PutsHalt
<1>8. CASE \E a \in Replies : TakesFlush(a)
  <2>1. PICK a \in Replies : TakesFlush(a)  BY <1>8
  <2> QED  BY <1>1, <2>1, LogKeeps, OutstandingFlushed, ConfirmingTaken DEF TakesFlush, AudioKept, LogKept
<1>9. CASE \E a \in Replies : TakesConfirm(a)  BY <1>9, LogConfirm
<1> QED  BY <1>3, <1>4, <1>5, <1>6, <1>7, <1>8, <1>9

LEMMA UiEdit ==
    ASSUME TypeOK, TypeOK', Sound(Flow), NumbersInv, EditInv, UiKinds,
           \A i \in DOMAIN tasks' : tasks'[i].op # "load"
    PROVE  EditInv'
<1>1. /\ NothingToLoad /\ ViewIsUpcoming /\ LogInv  BY DEF EditInv
<1>2. \/ QuietStep \/ \E a \in Replies : TakesReply(a) \/ TakesFlush(a) \/ TakesConfirm(a)
      \/ (\E t \in Transactions : PutsData(t)) \/ (\E call \in {"save", "export"} : PutsFlush(call))
      \/ PutsHalt
  <2>1. ASSUME NEW a \in Replies, TakesEntry(a) \/ TakesFinish(a) PROVE FALSE
    BY <1>1, <2>1 DEF TakesEntry, TakesFinish, FlowTakes, NothingToLoad, LoadReplies
  <2>2. ASSUME PutsLoad PROVE FALSE  BY <2>2, HeadFacts, <1>1 DEF PutsLoad, TypeOK, NothingToLoad
  <2> QED  BY <2>1, <2>2 DEF UiKinds
<1>3. engine' = engine
  BY <1>2 DEF QuietStep, TakesReply, TakesFlush, TakesConfirm, PutsData, PutsFlush, PutsHalt, AudioKept
<1>4. \A i \in DOMAIN audioQ' : audioQ'[i].op # "load_module"
  <2>1. ASSUME NEW c \in Commands, c.op # "load_module", audioQ' = Append(audioQ, c)
        PROVE  \A i \in DOMAIN audioQ' : audioQ'[i].op # "load_module"  BY <1>1, <2>1, WaitingSent DEF NothingToLoad
  <2>2. audioQ' = audioQ \/ \E c \in Commands : c.op # "load_module" /\ audioQ' = Append(audioQ, c)
    <3>1. HaltCommand \in Commands /\ HaltCommand.op # "load_module"  BY DEF HaltCommand, Commands
    <3>2. \A t \in Transactions \union {None} :
            SetDataCommand(store.nextId, t) \in Commands /\ SetDataCommand(store.nextId, t).op # "load_module"
      BY QueueTypes DEF SetDataCommand
    <3> QED
      BY <1>2, <3>1, <3>2 DEF QuietStep, TakesReply, TakesFlush, TakesConfirm, PutsData, PutsFlush, PutsHalt,
         AudioKept
  <2> QED  BY <1>1, <2>1, <2>2 DEF NothingToLoad
<1>5. \A m \in Items(Flow)' : m.op \notin LoadReplies
  <2>1. Items(Flow)' \subseteq Items(Flow) \union {Reply("halt")}
    BY <1>2 DEF QuietStep, TakesReply, TakesFlush, TakesConfirm, PutsData, PutsFlush, PutsHalt, FlowKept, FlowTakes,
       FlowGrows
  <2> QED  BY <1>1, <2>1 DEF NothingToLoad, Reply, LoadReplies
<1>6. NothingToLoad'  BY <1>1, <1>3, <1>4, <1>5 DEF NothingToLoad, LoadReplies
<1> QED  BY <1>6, <1>1, <1>2, UiLog, UiView, <1>3 DEF EditInv, ViewIsUpcoming

LEMMA AudioEdit ==
    ASSUME TypeOK, TypeOK', Sound(Flow), NumbersInv, CommandsInv, EditInv,
           engine.alive, StoreKept, LogKept, tasks' = tasks, AudioKinds
    PROVE  EditInv'
<1>1. /\ NothingToLoad /\ ViewIsUpcoming /\ LogInv  BY DEF EditInv
<1>2. ~LoadKinds
  <2>1. TakesLoad => 1 \in DOMAIN audioQ  BY TakeFacts DEF TakesLoad, TakesHead
  <2> QED  BY <1>1, <2>1 DEF NothingToLoad, LoadKinds, TakesLoad, LoadsKey, LoadFails, Validates, SendsEntry, LoadEnds
<1>3. View(store) = Upcoming  BY <1>1 DEF ViewIsUpcoming
<1>4. ViewIsUpcoming'
  <2>1. (AudioFails => engine'.alive) => View(store') = Upcoming'  BY <1>1, <1>3, AudioView DEF NothingToLoad
  <2> QED  BY <2>1 DEF ViewIsUpcoming
<1>5. Idle.op = "idle" /\ \A op : Reply(op).op = op /\ \A id : ReplyId(op, id).op = op  BY DEF Idle, Reply, ReplyId
<1>6. LogInv'
  <2>1. CASE SetsAll  BY <1>1, <2>1, LogValidate
  <2>2. ASSUME engine'.validated = engine.validated, Confirming' = Confirming PROVE LogInv'
    BY <1>1, <2>2, LogKeeps DEF StoreKept, LogKept
  <2>3. CASE TakesToken
    <3> DEFINE id == audioQ[1].id
    <3>1. Confirming' = Confirming \union {id}  BY <2>3, ConfirmingGrows DEF TakesToken
    <3>2. IsFlush(store, id)
      <4>1. 1 \in DOMAIN audioQ  BY <2>3, TakeFacts DEF TakesToken, TakesHead
      <4> QED  BY <2>3, <4>1 DEF TakesToken, CommandsInv
    <3>3. \A p \in DOMAIN store.pending : store.pending[p].id # id  BY <3>2, LogFacts
    <3> HIDE DEF id
    <3>4. engine'.validated = engine.validated  BY <2>3 DEF TakesToken, EngineBecomes
    <3>5. \A p \in DOMAIN store.pending : store.pending[p].id \in Confirming' <=> store.pending[p].id \in Confirming
      BY <3>1, <3>3
    <3> QED  BY <1>1, <3>4, <3>5, LogKeeps DEF StoreKept, LogKept
  <2>4. CASE ~SetsAll /\ ~TakesToken
    <3>1. engine'.validated = engine.validated
      BY <1>2, <2>4 DEF AudioKinds, SetDataKinds, TakesHalt, TakesData, SetsKey, EngineEnds, EngineDies,
         EngineBecomes, AudioKept
    <3>2. Confirming' = Confirming
      <4>1. FlowKept \/ FlowGrows(Reply("exception")) \/ FlowGrows(ReplyId("progress", engine.doing.id))
        BY <1>2, <2>4 DEF AudioKinds, SetDataKinds, TakesHalt, TakesData, SetsKey, EngineEnds, EngineDies
      <4>2. Reply("exception").op # "confirm_valid_data" /\ ReplyId("progress", engine.doing.id).op # "confirm_valid_data"
        BY <1>5
      <4> QED  BY <4>1, <4>2, ConfirmingKept
    <3> QED  BY <2>2, <3>1, <3>2
  <2> QED  BY <2>1, <2>3, <2>4
<1>7. \A i \in DOMAIN audioQ' : audioQ'[i].op # "load_module"
  <2>1. CASE audioQ' = audioQ  BY <1>1, <2>1 DEF NothingToLoad
  <2>2. CASE TakesHead
    <3>1. \A i \in DOMAIN audioQ' : i + 1 \in DOMAIN audioQ /\ audioQ'[i] = audioQ[i + 1]
      BY <2>2, WaitingTaken DEF TakesHead
    <3> QED  BY <1>1, <3>1 DEF NothingToLoad
  <2> QED
    BY <1>2, <2>1, <2>2 DEF AudioKinds, SetDataKinds, TakesHalt, TakesToken, TakesData, SetsKey, SetsAll, EngineEnds,
       EngineDies, AudioKept
<1>8. engine'.doing.op \notin {"load", "entries"}
  <2>1. CASE \E k \in Keys : SetsKey(k)
    <3>1. engine'.doing.op = "set_data"  BY <2>1, EngineFacts, DoingFacts, DoingWork DEF SetsKey, EngineBecomes
    <3> QED  BY <3>1
  <2>2. CASE AudioKept  BY <1>1, <2>2 DEF NothingToLoad, AudioKept
  <2>3. CASE TakesData  BY <2>3 DEF TakesData, EngineBecomes
  <2>4. CASE TakesHalt \/ TakesToken \/ SetsAll \/ EngineEnds \/ EngineDies
    <3>1. engine'.doing = Idle  BY <2>4 DEF TakesHalt, TakesToken, SetsAll, EngineEnds, EngineDies, EngineBecomes
    <3> QED  BY <1>5, <3>1
  <2> QED  BY <1>2, <2>1, <2>2, <2>3, <2>4 DEF AudioKinds, SetDataKinds
<1>9. \A m \in Items(Flow)' : m.op \notin LoadReplies
  <2>1. ASSUME NEW m \in Items(Flow)', m \notin Items(Flow)
        PROVE  m.op \in {"confirm_valid_data", "progress", "progress_done", "exception"}
    <3>1. CASE FlowKept  BY <2>1, <3>1 DEF FlowKept
    <3>2. CASE TakesToken  BY <1>5, <2>1, <3>2 DEF TakesToken, FlowGrows, Confirmation
    <3>3. ASSUME NEW k \in Keys, SetsKey(k) PROVE m.op = "progress"  BY <1>5, <2>1, <3>3 DEF SetsKey, FlowGrows
    <3>4. CASE SetsAll
      <4>1. m \in {Confirmation(engine.doing.id), ReplyId("progress_done", engine.doing.id)}
        BY <2>1, <3>4 DEF SetsAll, FlowGrowsBy
      <4> QED  BY <1>5, <4>1 DEF Confirmation
    <3>5. CASE EngineDies  BY <1>5, <2>1, <3>5 DEF EngineDies, FlowGrows
    <3> QED  BY <1>2, <3>1, <3>2, <3>3, <3>4, <3>5 DEF AudioKinds, SetDataKinds, TakesHalt, TakesData, EngineEnds
  <2> QED  BY <1>1, <2>1 DEF NothingToLoad, LoadReplies
<1>10. NothingToLoad'  BY <1>1, <1>7, <1>8, <1>9 DEF NothingToLoad, LoadReplies
<1> QED  BY <1>4, <1>6, <1>10 DEF EditInv

LEMMA StillEditing ==
    ASSUME TypeOK, ~Loading,
           \/ StoreKept /\ LogKept
           \/ UiKinds
    PROVE  ~Loading'
<1>1. ASSUME confirmed' = confirmed + 1 PROVE ~Loading'  BY <1>1 DEF Loading, TypeOK
<1>2. ASSUME confirmed' = confirmed, store'.pending = store.pending PROVE ~Loading'  BY <1>2 DEF Loading
<1>3. ASSUME NEW t \in Transactions, store'.flushes = store.flushes,
             store'.pending = Append(store.pending, [id |-> store.nextId, data |-> t])
      PROVE  ~Loading'
  <2>1. store'.pending # <<>>  BY <1>3, OutstandingPut
  <2> QED  BY <2>1 DEF Loading
<1> QED
  BY <1>1, <1>2, <1>3 DEF UiKinds, QuietStep, TakesReply, PutsData, PutsFlush, TakesFlush, TakesConfirm, TakesEntry,
     TakesFinish, PutsHalt, PutsLoad, StoreKept, LogKept

-----------------------------------------------------------------------------
\* While the module is loaded the user can do nothing but close the main
\* window, and no job runs.

LoadSignals == {"progress_start", "progress_step", "progress_finished", "load_error", "visibility"}

LEMMA FreshStore ==
    ASSUME NEW st \in Stores
    PROVE  st = [NewStore EXCEPT !.content = st.content] <=>
             (/\ st.pending = <<>> /\ st.nextId = 0 /\ st.notifiers = {} /\ st.flushes = {}
              /\ st.saving = FALSE /\ st.modified = FALSE)
<1> DEFINE c == st.content
           none == [k \in Keys |-> None]
<1>1. NewStore = [content |-> none, pending |-> <<>>, nextId |-> 0,
                  notifiers |-> {}, flushes |-> {}, saving |-> FALSE, modified |-> FALSE]  BY DEF NewStore
<1>2. st = [content |-> c, pending |-> st.pending, nextId |-> st.nextId, notifiers |-> st.notifiers,
            flushes |-> st.flushes, saving |-> st.saving, modified |-> st.modified]  BY DEF Stores
<1> HIDE DEF c, none
<1>3. [NewStore EXCEPT !.content = c] =
        [content |-> c, pending |-> <<>>, nextId |-> 0,
         notifiers |-> {}, flushes |-> {}, saving |-> FALSE, modified |-> FALSE]  BY <1>1
<1>4. ASSUME st = [NewStore EXCEPT !.content = c]
      PROVE  /\ st.pending = <<>> /\ st.nextId = 0 /\ st.notifiers = {} /\ st.flushes = {}
             /\ st.saving = FALSE /\ st.modified = FALSE  BY <1>3, <1>4
<1>5. ASSUME /\ st.pending = <<>> /\ st.nextId = 0 /\ st.notifiers = {} /\ st.flushes = {}
             /\ st.saving = FALSE /\ st.modified = FALSE
      PROVE  st = [NewStore EXCEPT !.content = c]  BY <1>2, <1>3, <1>5
<1> QED  BY <1>4, <1>5 DEF c

LEMMA UntouchedFacts ==
    ASSUME TypeOK, Untouched
    PROVE  /\ store.pending = <<>> /\ store.nextId = 0 /\ store.notifiers = {} /\ store.flushes = {}
           /\ store.saving = FALSE /\ store.modified = FALSE
           /\ ~session.saving /\ ~session.importing /\ ~windows.enabled
           /\ windows.dialogs \subseteq {"load_error"}
           /\ Raised \subseteq LoadSignals
           /\ \A i \in DOMAIN tasks : tasks[i].op = "load"
           /\ tasks # <<>> => Head(tasks).op = "load" /\ Tail(tasks) = <<>>
<1>1. /\ \A i \in DOMAIN tasks : tasks[i].op = "load"
      /\ tasks # <<>> => Head(tasks).op = "load" /\ Tail(tasks) = <<>>
  <2>1. CASE tasks = <<>>  BY <2>1
  <2>2. CASE tasks = <<[op |-> "load"]>>  BY <2>2
  <2> QED  BY <2>1, <2>2 DEF Untouched
<1> QED  BY <1>1, FreshStore DEF Untouched, LoadSignals, TypeOK

LEMMA UntouchedKept ==
    ASSUME TypeOK, TypeOK', Untouched,
           store' = store \/ store' = [store EXCEPT !.content = store'.content],
           session' = session, windows'.enabled = windows.enabled,
           windows'.dialogs \subseteq windows.dialogs \union {"load_error"},
           Raised' \subseteq Raised \union LoadSignals,
           tasks' = tasks \/ tasks' = <<>>
    PROVE  Untouched'
<1>1. store' = [NewStore EXCEPT !.content = store'.content]  BY FreshStore, UntouchedFacts DEF Stores, TypeOK
<1> QED  BY <1>1 DEF Untouched, LoadSignals

LEMMA NextOnItsWay ==
    ASSUME TypeOK, tick.cmds # <<>>
    PROVE  Command \in Items(Flow)
BY FlowParts, HeadFacts, ItemFacts DEF Lists, Flows, Command

LEMMA NextSignal ==
    ASSUME TypeOK, NEW name, OnSignal(name)
    PROVE  name \in Raised
    BY SignalDoneTypes DEF OnSignal, Raised, NamesIn
LEMMA RaisedKept ==
    ASSUME Names(signals') \subseteq Names(signals) \union LoadSignals,
           NamesIn(tick'.sigs) \subseteq NamesIn(tick.sigs)
    PROVE  Raised' \subseteq Raised \union LoadSignals
BY DEF Raised

LEMMA LoadingUser ==
    ASSUME TypeOK, TypeOK', Untouched, UserStep \/ CloseCrashDialog
    PROVE  Untouched' /\ tasks' = tasks
<1>1. /\ ~windows.enabled /\ windows.dialogs \subseteq {"load_error"} /\ store.modified = FALSE  BY UntouchedFacts
<1>2. tick \in Ticks /\ windows \in Windows /\ signals \in SignalLists  BY DEF TypeOK
<1>3. ~UserMay /\ "exit" \notin windows.dialogs  BY <1>1 DEF UserMay
<1>4. CASE TryExit
  <2>1. HideMain  BY <1>1, <1>4 DEF TryExit
  <2>2. UNCHANGED <<store, session, tasks, tick>>  BY <1>4 DEF TryExit
  <2> QED  BY <2>2, UntouchedKept, <1>2, <2>1, RaisedKept, HideMainTypes DEF HideMain, Windows, LoadSignals
<1>5. CASE \E d \in windows.dialogs : CloseErrorDialog(d)
  <2>1. CloseErrorDialog("load_error")  BY <1>1, <1>5
  <2> QED  BY UntouchedKept, <1>2, <2>1, RaisedKept DEF Windows, CloseErrorDialog
<1>6. CASE CloseCrashDialog  BY <1>2, <1>6, RaisedKept, UntouchedKept DEF CloseCrashDialog, Ticks
<1> QED
  BY <1>3, <1>4, <1>5, <1>6 DEF UserStep, Edit, EditFails, Save, StartImport, StartExport, StartFails, ExitCancel,
     ExitDiscard, ExitSave, ExitSaveFails

LEMMA LoadingCrash ==
    ASSUME TypeOK, TypeOK', Untouched, NEW name, Crash(name)
    PROVE  Untouched' /\ tasks' = tasks
BY RaisedKept, UntouchedKept DEF Crash, TypeOK, Ticks

LEMMA LoadingCommand ==
    ASSUME TypeOK, TypeOK', Untouched, RepliesOfLoad, CommandStep, ~ImportFinished
    PROVE  Untouched' /\ tasks' = tasks
<1>1. tick \in Ticks /\ windows \in Windows /\ signals \in SignalLists /\ store \in Stores  BY DEF TypeOK
<1>2. CommandDone => tick'.sigs = tick.sigs  BY <1>1 DEF CommandDone, Ticks
<1>3. ~ConfirmFlush /\ ~Confirm /\ ~Progress /\ ~ProgressDone
  BY NextOnItsWay DEF ConfirmFlush, Confirm, Progress, ProgressDone, NextCommand, IsNext, RepliesOfLoad
<1>4. ASSUME UNCHANGED <<store, session, windows, tasks>>, Names(signals') \subseteq Names(signals) \union LoadSignals,
             tick'.sigs = tick.sigs
      PROVE  Untouched' /\ tasks' = tasks  BY <1>4, RaisedKept, UntouchedKept
<1>5. CASE NextList  BY <1>1, <1>5, <1>4 DEF NextList, Ticks
<1>6. CASE ImportProgress
  BY <1>1, <1>6, RaiseType, <1>2, <1>4 DEF SignalNames, ImportProgress, NextCommand, LoadSignals
<1>7. CASE ImportError
  <2>1. Names(signals') = Names(signals) \union {"load_error", "progress_finished"}
    BY <1>1, <1>7, RaiseBothType DEF ImportError, SignalNames, ErrorSignals
  <2> QED  BY <1>2, <1>4, <1>7, <2>1 DEF ImportError, NextCommand, LoadSignals
<1>8. CASE ImportedEntry
  BY LoadingCrash, UntouchedKept, <1>1, <1>2, RaisedKept, <1>8 DEF Stores, PutRaw, ImportedEntry
<1>9. CASE ExceptionShown  BY <1>9, LoadingCrash DEF ExceptionShown
<1>10. CASE HaltUi
  <2>1. Raised' \subseteq Raised \union LoadSignals
    BY RaisedKept, <1>1, <1>10, HideMainTypes DEF LoadSignals, HaltUi, Ticks
  <2> QED  BY <1>10, <2>1, UntouchedKept, <1>1 DEF HaltUi, HideMain, Windows
<1> QED  BY <1>3, <1>5, <1>6, <1>7, <1>8, <1>9, <1>10 DEF CommandStep

LEMMA LoadingSignal ==
    ASSUME TypeOK, TypeOK', Untouched, SignalStep
    PROVE  Untouched' /\ tasks' = tasks
<1>1. tick \in Ticks /\ windows \in Windows /\ signals \in SignalLists /\ store \in Stores /\ session \in Sessions
  BY DEF TypeOK
<1>2. \A name : OnSignal(name) => name \in LoadSignals  BY NextSignal, UntouchedFacts
<1>3. CASE StartUpdates
  <2> DEFINE taken == TakeDeferred(signals)
  <2>1. taken \in SignalLists /\ Names(taken) = Names(signals)  BY <1>1, DeferredTaken
  <2>2. tick' = [tick EXCEPT !.pc = "updates", !.sigs = taken.now] /\ signals' = [taken EXCEPT !.now = <<>>]
    BY <1>3 DEF StartUpdates
  <2> HIDE DEF taken
  <2>3. NamesIn(tick'.sigs) \subseteq Names(taken) /\ Names(signals') \subseteq Names(taken)
    BY <1>1, <2>2, <2>1 DEF Names, Ticks, SignalLists, NamesIn
  <2>4. Raised' \subseteq Raised  BY <2>1, <2>3 DEF Raised
  <2> QED  BY <1>3, <2>4, UntouchedKept DEF StartUpdates
<1>4. ~OnStartSave /\ ~OnStartExport  BY <1>2 DEF OnStartSave, OnStartExport, OnStart, LoadSignals
<1>5. ~OnStartImport /\ ~OnSaveFinished /\ ~OnExportFinished /\ ~OnImportFinished /\ ~OnModule
  <2>1. \A name \in {"start_import_au", "save_finished", "export_finished", "au_import_finished", "module"} :
          ~OnSignal(name)  BY <1>2 DEF LoadSignals
  <2> QED  BY <2>1 DEF OnStartImport, OnSaveFinished, OnExportFinished, OnImportFinished, OnModule
<1>6. CASE OnError
  <2>1. PICK name \in ErrorSignals :
          /\ OnSignal(name) /\ SignalDone
          /\ windows' = [windows EXCEPT !.dialogs = @ \union {name}]
          /\ session' = [session EXCEPT !.quitAfter = @ /\ name # "save_error"]  BY <1>6 DEF OnError
  <2>2. windows'.enabled = windows.enabled /\ windows'.dialogs = windows.dialogs \union {"load_error"}
    BY <1>1, <2>1, <1>2 DEF Windows, LoadSignals, ErrorSignals
  <2>3. session' = session  BY <2>1, <1>1 DEF Untouched, Sessions
  <2> QED  BY <1>6, <2>2, <2>3, UntouchedKept, RaisedKept, <2>1, SignalDoneTypes DEF OnError, OnSignal
<1>7. CASE OnProgress
  <2>1. CASE Crash("progress")  BY <2>1, LoadingCrash
  <2>2. CASE ~Crash("progress")
    <3>1. PICK name \in {"progress_start", "progress_step", "progress_finished"} :
            /\ OnSignal(name) /\ SignalDone
            /\ windows' = [windows EXCEPT !.progress = (name # "progress_finished")]
            /\ UNCHANGED <<store, session, signals, tasks>>  BY <1>7, <2>2 DEF OnProgress
    <3> QED  BY <3>1, UntouchedKept, <1>1, RaisedKept, SignalDoneTypes DEF Windows, OnSignal
  <2> QED  BY <2>1, <2>2
<1>8. CASE OnVisibility  BY <1>8, SignalDoneTypes, <1>1, RaisedKept, UntouchedKept DEF OnVisibility, OnSignal, Ticks
<1>9. CASE EndTick  BY <1>1, <1>9, RaisedKept, UntouchedKept DEF EndTick, Ticks
<1> QED  BY <1>3, <1>4, <1>5, <1>6, <1>7, <1>8, <1>9 DEF SignalStep

LEMMA LoadingTask ==
    ASSUME TypeOK, TypeOK', Untouched, TaskStep
    PROVE  Untouched' /\ PutsLoad
<1>1. tasks # <<>> => Head(tasks).op = "load" /\ Tail(tasks) = <<>>  BY UntouchedFacts
<1>2. LoadTask
  BY <1>1 DEF TaskStep, SandboxTask, StartWriting, WriteError, WriteKey, FinishWriting, StartImportTask,
     ImportTaskError, ImportTaskPut, TaskTurn, WriteTask
<1>3. tasks' = <<>> /\ tick' = tick /\ UNCHANGED <<store, session, windows>>
  BY <1>1, <1>2 DEF LoadTask, TaskTurn, TaskDone, TaskUnchanged
<1>4. Untouched'  BY <1>3, UntouchedKept, RaisedKept, <1>2, RaiseType DEF LoadSignals, LoadTask, TypeOK, SignalNames
<1> QED  BY <1>2, <1>4, LoadTaskPuts

LEMMA LoadingUi ==
    ASSUME TypeOK, TypeOK', Untouched, RepliesOfLoad, [Next]_vars, ~AudioStep, ~ImportFinished
    PROVE  Untouched' /\ (tasks' = tasks \/ PutsLoad)
<1>1. ASSUME UNCHANGED <<store, session, windows, tasks, signals>>, tick'.sigs = tick.sigs
      PROVE  Untouched' /\ tasks' = tasks  BY <1>1, RaisedKept, UntouchedKept
<1>2. CASE Tick  BY <1>2, <1>1 DEF Tick, TickStart, TypeOK, Ticks
<1>3. CASE MainHalts \/ MainDone \/ Stopped \/ UNCHANGED vars
  BY <1>1, <1>3 DEF MainHalts, MainDone, Stopped, MainUnchanged, uiVars, vars
<1> QED  BY <1>2, <1>3, LoadingUser, LoadingCommand, LoadingSignal, LoadingTask DEF Next

-----------------------------------------------------------------------------
\* While a module is loaded: what the user interface does.

LEMMA LoadedFacts ==
    /\ LoadedData \in Contents
    /\ \A k \in Keys : LoadedData[k] = IF k \in DOMAIN ModuleData THEN ModuleData[k] ELSE None
    /\ NewStore.content \in Contents /\ \A k \in Keys : NewStore.content[k] = None
<1> DEFINE none == [k \in Keys |-> None]
<1>1. NewStore.content = none  BY DEF NewStore
<1>2. none \in Contents  BY DEF Contents
<1>3. \A k \in Keys : none[k] = None  OBVIOUS
<1> HIDE DEF none
<1> QED  BY <1>1, <1>2, <1>3, OverlayType, ModuleDataTypes DEF LoadedData

LEMMA LoadKeeps ==
    ASSUME LoadInv, Untouched', engine' = engine, CommandsToLoad', ToLoad' <=> ToLoad,
           log' = IF tasks' = <<>> THEN <<ModuleData>> ELSE <<>>,
           Items(Flow)' \subseteq Items(Flow) \union {Reply("halt")},
           \A k \in Keys : store'.content[k] \in {store.content[k], LoadedData[k]},
           \A k \in DOMAIN ModuleData :
                Entry(k) \in Items(Flow) => store'.content[k] = ModuleData[k] \/ Entry(k) \in Items(Flow)'
    PROVE  LoadInv'
<1>1. Reply("halt").op = "halt"  BY DEF Reply
<1>2. ASSUME NEW S \in SUBSET DOMAIN ModuleData, EntriesSent(S) PROVE EntriesSent(S)'
  BY ModuleDataTypes, LoadedFacts, <1>2 DEF EntriesSent
<1>3. Finished'  BY <1>1, <1>2 DEF FinishSent, LoadInv, Finished
<1> QED  BY <1>3, <1>1, <1>2 DEF LoadInv, RepliesOfLoad, NotBegun, LoadReplies, Reading, Sending

LEMMA UiLoad ==
    ASSUME TypeOK, TypeOK', Loading, LoadInv, UiKinds, Untouched', tasks' = tasks \/ PutsLoad, confirmed' = confirmed
    PROVE  LoadInv' /\ Loading'
<1>1. /\ Untouched /\ CommandsToLoad /\ RepliesOfLoad
      /\ log = IF tasks = <<>> THEN <<ModuleData>> ELSE <<>>  BY DEF LoadInv
<1>2. Loading'  BY UntouchedFacts DEF Untouched, Loading, NewStore
<1>3. \A op : Reply(op).op = op  BY DEF Reply
<1>4. HaltCommand.op = "halt" /\ HaltCommand \in Commands /\ LoadCommand.op = "load_module" /\ LoadCommand \in Commands
  BY DEF HaltCommand, LoadCommand, Commands
<1>5. CASE PutsLoad
  <2>1. tasks # <<>> /\ tasks' = <<>>  BY <1>5, <1>1, UntouchedFacts DEF PutsLoad
  <2> DEFINE n == Len(audioQ)
  <2>2. /\ n \in Nat /\ DOMAIN audioQ = 1..n /\ DOMAIN audioQ' = 1..n + 1
        /\ \A i \in DOMAIN audioQ : audioQ'[i] = audioQ[i]
        /\ audioQ'[n + 1] = LoadCommand  BY <1>4, <1>5, WaitingSent DEF PutsLoad
  <2> HIDE DEF n
  <2>3. CommandsToLoad'  BY <1>4, <2>1, <2>2, <1>1 DEF CommandsToLoad
  <2>4. ToLoad /\ ToLoad'  BY <1>4, <2>1, <2>2 DEF ToLoad
  <2>5. log' = <<ModuleData>>  BY <1>1, <1>5, <2>1 DEF PutsLoad
  <2> QED  BY <1>2, <1>5, <2>1, <2>3, <2>4, <2>5, LoadKeeps DEF PutsLoad, StoreKept, FlowKept
<1>6. CASE PutsHalt
  <2>1. audioQ' = Append(audioQ, HaltCommand) /\ StoreKept /\ LogKept /\ engine' = engine /\ tasks' = tasks
    BY <1>6, <1>4, WaitingSent DEF PutsHalt, PutsLoad
  <2> DEFINE n == Len(audioQ)
  <2>2. /\ n \in Nat /\ DOMAIN audioQ = 1..n /\ DOMAIN audioQ' = 1..n + 1
        /\ \A i \in DOMAIN audioQ : audioQ'[i] = audioQ[i]
        /\ audioQ'[n + 1] = HaltCommand  BY <1>4, <2>1, WaitingSent
  <2> HIDE DEF n
  <2>3. \A i \in DOMAIN audioQ' : i = n + 1 \/ i \in DOMAIN audioQ  BY <2>2
  <2>4. \A i \in DOMAIN audioQ' : audioQ'[i].op = "load_module" => i \in DOMAIN audioQ /\ audioQ[i].op = "load_module"
    BY <1>4, <2>2, <2>3
  <2>5. CommandsToLoad'  BY <1>1, <2>1, <2>4, <1>4, <2>2, <2>3 DEF CommandsToLoad
  <2>6. ToLoad' <=> ToLoad  BY <2>1, <2>2, <2>4 DEF ToLoad
  <2>7. Items(Flow)' = Items(Flow) \union {Reply("halt")}  BY <1>6 DEF PutsHalt, FlowGrows
  <2> QED  BY <1>1, <1>2, <2>1, <2>5, <2>6, <2>7, LoadKeeps DEF StoreKept, LogKept
<1> DEFINE kept == tasks' = tasks /\ audioQ' = audioQ /\ engine' = engine /\ log' = log
<1>7. ASSUME kept PROVE CommandsToLoad' /\ (ToLoad' <=> ToLoad) /\ log' = IF tasks' = <<>> THEN <<ModuleData>> ELSE <<>>
  BY <1>1, <1>7 DEF CommandsToLoad, ToLoad
<1>8. CASE tasks' = tasks /\ QuietStep
  BY <1>2, <1>7, <1>8, LoadKeeps DEF QuietStep, StoreKept, AudioKept, LogKept, FlowKept
<1>9. CASE tasks' = tasks /\ \E a \in Replies : TakesReply(a)
  <2>1. PICK a \in Replies : TakesReply(a)  BY <1>9
  <2>2. kept /\ StoreKept /\ Items(Flow) = Items(Flow)' \union {a} /\ a.op # "entry"
    BY <1>9, <2>1 DEF TakesReply, AudioKept, LogKept, FlowTakes
  <2> QED  BY <1>2, <1>7, <2>2, LoadKeeps DEF StoreKept, Entry
<1>10. CASE tasks' = tasks /\ \E a \in Replies : TakesEntry(a)
  <2>1. PICK a \in Replies : TakesEntry(a)  BY <1>10
  <2>2. kept /\ Items(Flow) = Items(Flow)' \union {a} /\ a.op = "entry"
    BY <1>10, <2>1 DEF TakesEntry, AudioKept, LogKept, FlowTakes
  <2>3. a.key \in DOMAIN ModuleData /\ a = Entry(a.key)  BY <1>1, <2>2 DEF RepliesOfLoad
  <2>4. a.key \in Keys /\ a.value = ModuleData[a.key] /\ a.value \in Values \union {None}
    BY <2>3, ModuleDataTypes DEF Entry
  <2> DEFINE t == [k \in {a.key} |-> a.value]
  <2>5. DOMAIN t = {a.key} /\ t[a.key] = a.value  OBVIOUS
  <2>6. t \in Transactions
    <3>1. {a.key} \in SUBSET Keys /\ t \in [{a.key} -> Values \union {None}]  BY <2>4
    <3> HIDE DEF t
    <3> QED  BY <3>1 DEF Transactions
  <2>7. store'.content = Overlay(store.content, t)  BY <2>1 DEF TakesEntry
  <2> HIDE DEF t
  <2>8. \A k \in Keys : store'.content[k] = IF k \in DOMAIN t THEN t[k] ELSE store.content[k]
    BY <2>6, <2>7, OverlayType DEF TypeOK, Stores
  <2>9. \A k \in Keys : store'.content[k] \in {store.content[k], LoadedData[k]}
    BY <2>4, <2>5, <2>8, <2>3, LoadedFacts
  <2>10. ASSUME NEW k \in DOMAIN ModuleData, Entry(k) \in Items(Flow), Entry(k) \notin Items(Flow)'
         PROVE  store'.content[k] = ModuleData[k]  BY <2>2, <2>10, <2>4, <2>5, <2>8 DEF Entry
  <2> QED  BY <1>2, <1>7, <2>2, <2>9, <2>10, LoadKeeps
<1>11. ASSUME NEW t \in Transactions, PutsData(t) PROVE FALSE
  <2>1. Len(store'.pending) # 0  BY <1>11, OutstandingPut DEF PutsData
  <2> QED  BY <1>2, <2>1 DEF Loading
<1>12. ASSUME NEW call, PutsFlush(call) PROVE FALSE  BY <1>12 DEF PutsFlush, Untouched, NewStore
<1>13. ASSUME NEW a, TakesFlush(a) \/ TakesConfirm(a) PROVE FALSE
  BY <1>1, <1>13 DEF TakesFlush, TakesConfirm, FlowTakes, RepliesOfLoad
<1>14. ASSUME NEW a, TakesFinish(a) PROVE FALSE  BY <1>14 DEF TakesFinish, TypeOK
<1> QED  BY <1>5, <1>6, <1>8, <1>9, <1>10, <1>11, <1>12, <1>13, <1>14 DEF UiKinds

-----------------------------------------------------------------------------
\* While a module is loaded: what the audio process does.

LEMMA LoadQueue ==
    ASSUME TypeOK, CommandsInv, CommandsToLoad, TakesHead, tasks' = tasks
    PROVE  /\ CommandsToLoad' /\ 1 \in DOMAIN audioQ
           /\ audioQ[1].op # "load_module" => (ToLoad' <=> ToLoad)
           /\ audioQ[1].op = "load_module" => ToLoad /\ ~ToLoad'
<1>1. /\ 1 \in DOMAIN audioQ
      /\ \A i \in DOMAIN audioQ' : i + 1 \in DOMAIN audioQ /\ audioQ'[i] = audioQ[i + 1]
      /\ \A i \in DOMAIN audioQ : i # 1 => i - 1 \in DOMAIN audioQ' /\ audioQ'[i - 1] = audioQ[i]
      /\ DOMAIN audioQ \subseteq Nat /\ DOMAIN audioQ' \subseteq Nat \ {0}  BY WaitingTaken DEF TakesHead
<1>2. \A i, j \in DOMAIN audioQ' : audioQ'[i].op = "load_module" /\ audioQ'[j].op = "load_module" => i = j
  <2> SUFFICES ASSUME NEW i \in DOMAIN audioQ', NEW j \in DOMAIN audioQ',
                      audioQ'[i].op = "load_module", audioQ'[j].op = "load_module"
               PROVE  i = j  OBVIOUS
  <2> QED  BY <1>1 DEF CommandsToLoad
<1>3. ASSUME audioQ[1].op # "load_module" PROVE ToLoad' <=> ToLoad  BY <1>3, <1>1 DEF ToLoad
<1>4. ASSUME audioQ[1].op = "load_module" PROVE ToLoad /\ ~ToLoad'  BY <1>1, <1>4 DEF CommandsToLoad, ToLoad
<1> QED  BY <1>1, <1>3, <1>4, <1>2 DEF CommandsToLoad

LEMMA AudioLoad ==
    ASSUME TypeOK, TypeOK', CommandsInv, LoadInv, StoreKept, LogKept, tasks' = tasks, Untouched', AudioKinds
    PROVE  LoadInv'
<1>1. /\ Untouched /\ CommandsToLoad /\ RepliesOfLoad /\ NotBegun /\ Reading /\ Sending /\ Finished
      /\ log = IF tasks = <<>> THEN <<ModuleData>> ELSE <<>>
      /\ \A k \in Keys : store.content[k] \in {None, LoadedData[k]}
      /\ engine.doing.op \in {"idle", "load", "entries"} /\ engine.validated \in {0, 1}  BY DEF LoadInv
<1>2. /\ log' = (IF tasks' = <<>> THEN <<ModuleData>> ELSE <<>>)
      /\ \A k \in Keys : store'.content[k] \in {None, LoadedData[k]}
      /\ store'.content = store.content  BY <1>1 DEF LogKept, StoreKept
<1>3. \A op : Reply(op).op = op  BY DEF Reply
<1>4. \A k : Entry(k).op = "entry" /\ Entry(k).key = k  BY DEF Entry
<1>5. Idle.op = "idle"  BY DEF Idle
<1>6. audioQ' = audioQ => CommandsToLoad' /\ (ToLoad' <=> ToLoad)  BY <1>1 DEF CommandsToLoad, ToLoad
<1>7. engine \in Engines /\ engine.doing \in Doings /\ engine.data \in Contents
      /\ (engine.doing.op \in {"load", "entries"} => engine.doing.todo \in SUBSET DOMAIN ModuleData)
  BY EngineFacts, DoingFacts
<1>8. ~TakesToken /\ ~SetDataKinds
  <2>1. TakesHead => audioQ[1].op # "set_data"  BY <1>1, TakeFacts DEF TakesHead, CommandsToLoad
  <2> QED  BY <1>1, <2>1 DEF TakesToken, SetDataKinds, TakesData, SetsKey, SetsAll
<1>9. ASSUME CommandsToLoad', ToLoad' <=> ToLoad, Items(Flow)' = Items(Flow), engine'.doing = engine.doing,
             engine'.data = engine.data, engine'.validated = engine.validated
      PROVE  LoadInv'
  <2>1. NotBegun' /\ Reading'  BY <1>1, <1>9 DEF NotBegun, Reading
  <2>2. Sending' /\ Finished'  BY <1>1, <1>2, <1>9 DEF Sending, Finished, FinishSent, EntriesSent
  <2> QED  BY <1>1, <1>2, <1>9, <2>1, <2>2 DEF LoadInv, RepliesOfLoad
<1>10. CASE FlowKept /\ AudioKept  BY <1>6, <1>9, <1>10 DEF FlowKept, AudioKept
<1>11. CASE TakesHalt  BY <1>1, <1>11, LoadQueue, <1>9 DEF TakesHalt, EngineBecomes, TakesHead, FlowKept
<1>12. CASE TakesLoad
  <2>1. CommandsToLoad' /\ ToLoad /\ ~ToLoad'  BY <1>1, <1>12, LoadQueue DEF TakesLoad
  <2>2. /\ engine.validated = 0 /\ engine.data = NewStore.content
        /\ \A m \in Items(Flow) : m.op \notin LoadReplies  BY <1>1, <2>1 DEF NotBegun
  <2> DEFINE job == [op |-> "load", todo |-> DOMAIN ModuleData]
  <2>3. job.op = "load" /\ job.todo = DOMAIN ModuleData  OBVIOUS
  <2>4. Items(Flow)' = Items(Flow) /\ engine'.doing = job /\ engine'.data = engine.data /\ engine'.validated = 0
    BY <1>12, <2>2 DEF TakesLoad, EngineBecomes, FlowKept
  <2> HIDE DEF job
  <2>5. \A k \in Keys : engine'.data[k] = None  BY <2>2, <2>4, LoadedFacts
  <2>6. NotBegun' /\ Reading' /\ Sending'  BY <2>1, <2>2, <2>3, <2>4, <2>5 DEF NotBegun, Reading, Sending
  <2>7. Finished'  BY <2>2, <2>4 DEF Finished, FinishSent, LoadReplies
  <2> QED  BY <1>2, <2>1, <2>3, <2>4, <2>6, <2>7, <1>1 DEF LoadInv, RepliesOfLoad
<1>13. ASSUME NEW k \in Keys, LoadsKey(k) PROVE LoadInv'
  <2> DEFINE rest == engine.doing.todo \ {k}
             job == [op |-> "load", todo |-> rest]
             data == [engine.data EXCEPT ![k] = ModuleData[k]]
  <2>1. /\ audioQ' = audioQ /\ engine.doing.op = "load" /\ k \in engine.doing.todo
        /\ Items(Flow)' = Items(Flow) \union {Reply("import_progress")}
        /\ engine'.doing = job /\ engine'.data = data /\ engine'.validated = engine.validated
    BY <1>13 DEF LoadsKey, EngineBecomes, FlowGrows
  <2>2. job.op = "load" /\ job.todo = rest  OBVIOUS
  <2>3. \A j \in Keys : data[j] = IF j = k THEN ModuleData[k] ELSE engine.data[j]  BY <1>7 DEF Contents
  <2> HIDE DEF job, data
  <2>4. /\ engine.validated = 0 /\ ~ToLoad
        /\ \A j \in Keys : engine.data[j] = IF j \in DOMAIN ModuleData \ engine.doing.todo THEN ModuleData[j] ELSE None
        /\ \A m \in Items(Flow) : m.op \notin LoadReplies \ {"import_progress"}  BY <1>1, <2>1 DEF Reading
  <2>5. k \in DOMAIN ModuleData  BY <1>7, <2>1
  <2>6. ~ToLoad'  BY <1>6, <2>1, <2>4
  <2>7. \A j \in Keys : engine'.data[j] = IF j \in DOMAIN ModuleData \ engine'.doing.todo THEN ModuleData[j] ELSE None
    BY <2>1, <2>2, <2>3, <2>4, <2>5
  <2>8. RepliesOfLoad'  BY <1>1, <1>3, <2>1 DEF RepliesOfLoad
  <2>9. \A m \in Items(Flow)' : m.op \notin LoadReplies \ {"import_progress"}  BY <1>3, <2>1, <2>4
  <2>10. NotBegun' /\ Reading' /\ Sending'  BY <2>1, <2>2, <2>4, <2>6, <2>7, <2>9 DEF NotBegun, Reading, Sending
  <2>11. Finished'  BY <2>9 DEF Finished, FinishSent, LoadReplies
  <2> QED  BY <1>2, <1>6, <2>1, <2>2, <2>4, <2>8, <2>10, <2>11 DEF LoadInv
<1>14. CASE LoadFails
  <2>1. /\ audioQ' = audioQ /\ engine.doing.op = "load" /\ Items(Flow)' = Items(Flow) \union {Reply("import_error")}
        /\ engine'.doing = Idle /\ engine'.validated = engine.validated
    BY <1>14 DEF LoadFails, EngineBecomes, FlowGrows
  <2>2. ~ToLoad /\ \A m \in Items(Flow) : m.op \notin LoadReplies \ {"import_progress"}  BY <1>1, <2>1 DEF Reading
  <2>3. RepliesOfLoad'  BY <1>1, <1>3, <2>1 DEF RepliesOfLoad
  <2>4. NotBegun' /\ Reading' /\ Sending'  BY <1>5, <2>1, <1>6, <2>2 DEF NotBegun, Reading, Sending
  <2>5. ~FinishSent'  BY <1>3, <2>1, <2>2 DEF FinishSent, LoadReplies
  <2>6. Finished'  BY <2>5 DEF Finished
  <2> QED  BY <1>1, <1>2, <1>5, <1>6, <2>1, <2>3, <2>4, <2>6 DEF LoadInv
<1>15. CASE Validates
  <2> DEFINE job == [op |-> "entries", todo |-> DOMAIN ModuleData]
  <2>1. /\ audioQ' = audioQ /\ engine.doing.op = "load" /\ engine.doing.todo = {} /\ Items(Flow)' = Items(Flow)
        /\ engine'.doing = job /\ engine'.data = engine.data /\ engine'.validated = engine.validated + 1
    BY <1>15 DEF Validates, EngineBecomes, FlowKept
  <2>2. job.op = "entries" /\ job.todo = DOMAIN ModuleData  OBVIOUS
  <2> HIDE DEF job
  <2>3. /\ engine.validated = 0 /\ ~ToLoad
        /\ \A j \in Keys : engine.data[j] = IF j \in DOMAIN ModuleData \ engine.doing.todo THEN ModuleData[j] ELSE None
        /\ \A m \in Items(Flow) : m.op \notin LoadReplies \ {"import_progress"}  BY <1>1, <2>1 DEF Reading
  <2>4. ~ToLoad'  BY <1>6, <2>1, <2>3
  <2>5. engine.data = LoadedData  BY <2>1, <2>3, <1>7, ModuleDataTypes, LoadedFacts DEF Contents
  <2>6. RepliesOfLoad'  BY <1>1, <2>1 DEF RepliesOfLoad
  <2>7. engine'.validated = 1  BY <2>1, <2>3
  <2>8. NotBegun' /\ Reading'  BY <2>1, <2>2, <2>4 DEF NotBegun, Reading
  <2>9. Sending'  BY <2>1, <2>2, <2>3, <2>4, <2>5, <2>7 DEF Sending, EntriesSent, LoadReplies
  <2>10. Finished'  BY <2>1, <2>3 DEF Finished, FinishSent, LoadReplies
  <2> QED  BY <1>2, <1>6, <2>1, <2>2, <2>6, <2>7, <2>8, <2>9, <2>10 DEF LoadInv
<1>16. ASSUME NEW k \in Keys, SendsEntry(k) PROVE LoadInv'
  <2> DEFINE rest == engine.doing.todo \ {k}
             job == [op |-> "entries", todo |-> rest]
  <2>1. /\ audioQ' = audioQ /\ engine.doing.op = "entries" /\ k \in engine.doing.todo
        /\ Items(Flow)' = Items(Flow) \union {Entry(k), Reply("import_progress")}
        /\ engine'.doing = job /\ engine'.data = engine.data /\ engine'.validated = engine.validated
    BY <1>16 DEF SendsEntry, EngineBecomes, FlowGrowsBy
  <2>2. job.op = "entries" /\ job.todo = rest  OBVIOUS
  <2> HIDE DEF job
  <2>3. /\ engine.validated = 1 /\ ~ToLoad /\ engine.data = LoadedData
        /\ EntriesSent(DOMAIN ModuleData \ engine.doing.todo)
        /\ \A m \in Items(Flow) : m.op \notin {"import_finished", "import_error"}  BY <1>1, <2>1 DEF Sending
  <2>4. ~ToLoad'  BY <1>6, <2>1, <2>3
  <2>5. RepliesOfLoad'  BY <1>1, <1>3, <1>4, <2>1, <1>7 DEF RepliesOfLoad
  <2>6. \A j \in DOMAIN ModuleData \ rest : store'.content[j] = ModuleData[j] \/ Entry(j) \in Items(Flow)'
    BY <1>2, <2>1, <2>3 DEF EntriesSent
  <2>7. \A m \in Items(Flow)' : m.op \notin {"import_finished", "import_error"}  BY <1>3, <1>4, <2>1, <2>3
  <2>8. NotBegun' /\ Reading'  BY <2>1, <2>2, <2>4 DEF NotBegun, Reading
  <2>9. EntriesSent(DOMAIN ModuleData \ engine.doing.todo)'  BY <2>1, <2>2, <2>6 DEF EntriesSent
  <2>10. Sending'  BY <2>1, <2>3, <2>4, <2>7, <2>9 DEF Sending
  <2>11. Finished'  BY <2>7 DEF Finished, FinishSent
  <2> QED  BY <1>2, <1>6, <2>1, <2>2, <2>3, <2>5, <2>8, <2>10, <2>11 DEF LoadInv
<1>17. CASE LoadEnds
  <2>1. /\ audioQ' = audioQ /\ engine.doing.op = "entries" /\ engine.doing.todo = {}
        /\ Items(Flow)' = Items(Flow) \union {Reply("import_finished")}
        /\ engine'.doing = Idle /\ engine'.data = engine.data /\ engine'.validated = engine.validated
    BY <1>17 DEF LoadEnds, EngineBecomes, FlowGrows
  <2>2. /\ engine.validated = 1 /\ ~ToLoad /\ engine.data = LoadedData
        /\ EntriesSent(DOMAIN ModuleData \ engine.doing.todo)  BY <1>1, <2>1 DEF Sending
  <2>3. ~ToLoad'  BY <1>6, <2>1, <2>2
  <2>4. RepliesOfLoad'  BY <1>1, <1>3, <2>1 DEF RepliesOfLoad
  <2>5. NotBegun' /\ Reading' /\ Sending'  BY <1>5, <2>1, <2>3 DEF NotBegun, Reading, Sending
  <2>6. Finished'  BY <2>1, <2>2, <2>3, <1>2 DEF Finished, EntriesSent
  <2> QED  BY <1>1, <1>2, <1>5, <1>6, <2>1, <2>4, <2>5, <2>6 DEF LoadInv
<1>18. CASE EngineEnds \/ EngineDies
  <2>1. /\ audioQ' = audioQ /\ engine'.doing = Idle /\ engine'.data = engine.data /\ engine'.validated = engine.validated
        /\ Items(Flow) \subseteq Items(Flow)' /\ Items(Flow)' \subseteq Items(Flow) \union {Reply("exception")}
    BY <1>18 DEF EngineEnds, EngineDies, FlowKept, FlowGrows
  <2>2. \A m \in Items(Flow)' : m.op \in LoadReplies => m \in Items(Flow)  BY <1>3, <2>1 DEF LoadReplies
  <2>3. RepliesOfLoad'  BY <1>1, <1>3, <2>1 DEF RepliesOfLoad
  <2>4. NotBegun'  BY <1>1, <1>6, <2>1, <2>2 DEF NotBegun
  <2>5. Reading' /\ Sending'  BY <1>5, <2>1 DEF Reading, Sending
  <2>6. EntriesSent(DOMAIN ModuleData) => EntriesSent(DOMAIN ModuleData)'  BY <1>2, <2>1 DEF EntriesSent
  <2>7. Finished'  BY <1>1, <1>6, <2>1, <2>6, <2>2 DEF Finished, FinishSent, LoadReplies
  <2> QED  BY <1>1, <1>2, <1>5, <1>6, <2>1, <2>3, <2>4, <2>5, <2>7 DEF LoadInv
<1> QED  BY <1>8, <1>10, <1>11, <1>12, <1>13, <1>14, <1>15, <1>16, <1>17, <1>18 DEF AudioKinds, LoadKinds

-----------------------------------------------------------------------------
\* The module is loaded: from now on the user may edit.

LEMMA LoadedEverything ==
    ASSUME TypeOK, Loading, LoadInv, Sound(Flow), NEW a \in Replies, TakesFinish(a)
    PROVE  /\ store.content = LoadedData /\ engine.data = LoadedData /\ engine.doing = Idle
           /\ engine.validated = 1 /\ ~ToLoad /\ log = <<ModuleData>>
           /\ \A m \in Items(Flow)' : m.op \notin LoadReplies
           /\ Confirming = {}
<1>1. a \in Items(Flow) /\ a.op = "import_finished" /\ Items(Flow) = Items(Flow)' \union {a}
      /\ \A m \in Items(Flow)' : ~Bad(a, m)  BY DEF TakesFinish, FlowTakes
<1>2. /\ engine.validated = 1 /\ engine.doing = Idle /\ ~ToLoad
      /\ engine.data = LoadedData
      /\ EntriesSent(DOMAIN ModuleData)  BY <1>1 DEF LoadInv, Finished, FinishSent
<1>3. \A m \in Items(Flow)' : m.op \notin LoadReplies  BY <1>1 DEF Bad, LoadReplies
<1>4. \A k : Entry(k) \notin Items(Flow)  BY <1>1, <1>3 DEF Entry, LoadReplies
<1>5. store.content = LoadedData  BY <1>2, <1>4, LoadedFacts DEF EntriesSent, LoadInv, TypeOK, Stores, Contents
<1> QED  BY <1>2, <1>3, <1>5 DEF LoadInv, ToLoad, RepliesOfLoad, Confirming

LEMMA LoadedView ==
    ASSUME TypeOK, Loading, LoadInv, store.content = LoadedData, engine.data = LoadedData, engine.doing = Idle
    PROVE  View(store) = Upcoming
<1>1. ASSUME NEW k \in Keys PROVE Foreseen(audioQ, engine, k) = LoadedData[k]
  BY ForeseenFacts, QueueTypes, IndexFacts DEF CarriedIn, Carries, Base, LoadInv, CommandsToLoad, Idle
<1>2. ASSUME NEW k \in Keys PROVE View(store)[k] = LoadedData[k]  BY ViewFacts DEF Loading, Touching, TypeOK
<1> QED  BY <1>1, <1>2, ViewsByKey

LEMMA LoadDone ==
    ASSUME TypeOK, TypeOK', Sound(Flow), Loading, LoadInv, NEW a \in Replies, TakesFinish(a), [Next]_vars
    PROVE  EditInv' /\ ~Loading'
<1>1. /\ store.content = LoadedData /\ engine.data = LoadedData /\ engine.doing = Idle
      /\ engine.validated = 1 /\ ~ToLoad /\ log = <<ModuleData>>
      /\ \A m \in Items(Flow)' : m.op \notin LoadReplies
      /\ Confirming = {}  BY LoadedEverything
<1>2. View(store) = Upcoming  BY <1>1, LoadedView
<1>3. confirmed' = 1 /\ engine' = engine /\ store.pending = <<>> /\ store'.content = store.content
  BY DEF TakesFinish, Loading
<1>4. Items(Flow)' \subseteq Items(Flow)  BY DEF TakesFinish, FlowTakes
<1>5. Confirming' = {}  BY <1>1, <1>4 DEF Confirming
<1>6. \A i \in DOMAIN tasks' : tasks'[i].op # "load"
  <2>1. \A i \in DOMAIN tasks : tasks[i].op # "load"  BY <1>1 DEF ToLoad
  <2> QED  BY <2>1, NoLoadTask
<1>7. \A i \in DOMAIN audioQ : audioQ[i].op # "load_module"  BY <1>1 DEF ToLoad
<1>8. engine'.doing.op = "idle"  BY <1>1, <1>3 DEF Idle
<1>9. ~Loading'  BY <1>3 DEF Loading
<1>10. CASE store'.pending = store.pending /\ UNCHANGED <<audioQ, log>>
  <2>1. NothingToLoad'  BY <1>1, <1>6, <1>7, <1>8, <1>10 DEF NothingToLoad
  <2>2. ViewIsUpcoming'
    <3>1. \A k \in Keys : View(store')[k] = Foreseen(audioQ', engine', k)  BY <1>2, <1>3, <1>10, ViewKept, ViewsByKey
    <3> QED  BY <3>1, ViewsByKey DEF ViewIsUpcoming
  <2>3. LogInv'
    <3>1. Len(log') = 1 /\ Len(store'.pending) = 0 /\ DOMAIN store'.pending = {}  BY <1>1, <1>3, <1>10
    <3> QED  BY <1>1, <1>3, <3>1 DEF LogInv
  <2> QED  BY <1>9, <2>1, <2>2, <2>3 DEF EditInv
<1>11. ASSUME NEW t \in Transactions,
              store'.pending = Append(store.pending, [id |-> store.nextId, data |-> t]),
              audioQ' = Append(audioQ, SetDataCommand(store.nextId, t)), log' = Append(log, t)
       PROVE  EditInv'
  <2> DEFINE c == SetDataCommand(store.nextId, t)
             n == Len(audioQ)
  <2>1. c \in Commands /\ c.op = "set_data" /\ c.data = t /\ t # None
    BY QueueTypes, NoneAssumption DEF SetDataCommand
  <2>2. store'.flushes = store.flushes  BY DEF TakesFinish
  <2>3. audioQ \in Seq(Commands) /\ audioQ' = Append(audioQ, c)  BY <1>11, QueueTypes
  <2> HIDE DEF c
  <2>4. /\ n \in Nat /\ DOMAIN audioQ = 1..n /\ DOMAIN audioQ' = 1..n + 1
        /\ \A i \in DOMAIN audioQ : audioQ'[i] = audioQ[i]
        /\ audioQ'[n + 1] = c  BY <2>1, <2>3, WaitingSent
  <2> HIDE DEF n
  <2>5. \A i \in DOMAIN audioQ' : i = n + 1 \/ i \in DOMAIN audioQ  BY <2>4
  <2>6. \A i \in DOMAIN audioQ' : audioQ'[i].op # "load_module"  BY <1>7, <2>1, <2>4, <2>5
  <2>7. NothingToLoad'  BY <1>1, <1>6, <1>8, <2>6 DEF NothingToLoad
  <2>8. ViewIsUpcoming'
    <3>1. ASSUME NEW k \in Keys PROVE View(store')[k] = Foreseen(audioQ', engine', k)
      <4>1. View(store')[k] = IF k \in DOMAIN t THEN t[k] ELSE View(store)[k]  BY <1>3, <1>11, <2>2, ViewPut
      <4>2. Foreseen(audioQ', engine', k) = IF Carries(c, k) THEN c.data[k] ELSE Foreseen(audioQ, engine', k)
        BY <2>1, <2>3, ForeseenSent
      <4>3. Carries(c, k) <=> k \in DOMAIN t  BY <2>1 DEF Carries
      <4>4. View(store)[k] = Foreseen(audioQ, engine', k)  BY <1>2, <1>3, ViewsByKey
      <4> QED  BY <2>1, <4>1, <4>2, <4>3, <4>4
    <3> QED  BY <3>1, ViewsByKey DEF ViewIsUpcoming
  <2>9. LogInv'
    <3> DEFINE e == [id |-> store.nextId, data |-> t]
    <3>1. e.data = t /\ store'.pending = Append(<<>>, e) /\ log' = Append(<<ModuleData>>, t)  BY <1>1, <1>3, <1>11
    <3> HIDE DEF e
    <3>2. Len(store'.pending) = 1 /\ DOMAIN store'.pending = {1} /\ store'.pending[1] = e  BY <3>1
    <3>3. Len(log') = 2 /\ log'[2] = t  BY <3>1
    <3>4. \A p \in DOMAIN store'.pending : p = 1 /\ confirmed' + p = 2 /\ store'.pending[p].data = log'[2]
      BY <1>3, <3>1, <3>2, <3>3
    <3>5. engine'.validated = 1  BY <1>1, <1>3
    <3> QED  BY <1>3, <1>5, <3>2, <3>3, <3>4, <3>5 DEF LogInv
  <2> QED  BY <2>7, <2>8, <2>9 DEF EditInv
<1> QED  BY <1>9, <1>10, <1>11 DEF TakesFinish

-----------------------------------------------------------------------------
\* The assertions of the store.

\* The next confirmation has the least number of those on their way.
LEMMA FirstConfirmation ==
    ASSUME TypeOK, Sound(Flow), tick.cmds # <<>>, Command.op = "confirm_valid_data"
    PROVE  Command.id \in Confirming /\ \A id \in Confirming : Command.id <= id
<1> DEFINE c == Command.id
<1>1. Flow[1] = tick.cmds /\ Flow \in Flows /\ Flow # <<>> /\ tick.cmds \in Seq(Replies)  BY FlowParts DEF Lists
<1>2. /\ Command = Flow[1][1] /\ 1 \in DOMAIN Flow[1] /\ 1 \in DOMAIN Flow
      /\ DOMAIN Flow = 1..Len(Flow) /\ Len(Flow) \in Nat  BY <1>1, HeadFacts DEF Command, Flows
<1>3. \A m \in Items(Flow) : m = Command \/ ~Bad(Command, m)
  <2> SUFFICES ASSUME NEW m \in Items(Flow), m # Command PROVE ~Bad(Command, m)  OBVIOUS
  <2>1. PICK i \in DOMAIN Flow : \E j \in DOMAIN Flow[i] : m = Flow[i][j]  BY <1>1, ItemFacts
  <2>2. PICK j \in DOMAIN Flow[i] : m = Flow[i][j]  BY <2>1
  <2>3. 1 < i \/ (1 = i /\ 1 < j)  BY <1>2, <2>2, <1>1, ItemFacts
  <2> QED  BY <1>2, <2>2, <2>3 DEF Sound, Ordered
<1>4. c \in Confirming  BY NextOnItsWay DEF Confirming
<1>5. \A id \in Confirming : c <= id
  <2>1. ASSUME NEW m \in Items(Flow), m.op = "confirm_valid_data" PROVE c <= m.id
    <3>1. m.id \in Confirming /\ m.id \in Nat /\ c \in Nat  BY <1>4, <2>1, NumberTypes DEF Confirming
    <3>2. m = Command \/ ~(m.id <= c)  BY <1>3, <2>1 DEF Bad
    <3> HIDE DEF c
    <3>3. CASE m = Command  BY <3>1, <3>3 DEF c
    <3>4. CASE ~(m.id <= c)  BY <3>1, <3>4
    <3> QED  BY <3>2, <3>3, <3>4
  <2> QED  BY <2>1 DEF Confirming
<1> QED  BY <1>4, <1>5

\* It is that of the oldest pending transaction.
LEMMA ConfirmsHead ==
    ASSUME TypeOK, Sound(Flow), NumbersInv, tick.cmds # <<>>, Command.op = "confirm_valid_data",
           ~IsFlush(store, Command.id)
    PROVE  CanConfirm(store, Command.id)
<1> DEFINE c == Command.id
<1>1. c \in Confirming /\ \A id \in Confirming : c <= id  BY FirstConfirmation
<1>2. c \in Outstanding /\ \A id \in Outstanding : id < c => id \in Confirming  BY <1>1 DEF NumbersInv, NumbersHold
<1> HIDE DEF c
<1>3. PICK p \in DOMAIN store.pending : store.pending[p].id = c  BY <1>2 DEF Outstanding, IsFlush, c
<1>4. store \in Stores /\ NumbersAreNew(store)  BY DEF TypeOK
<1>5. /\ store.pending \in Seq(Entries) /\ Len(store.pending) \in Nat /\ DOMAIN store.pending = 1..Len(store.pending)
      /\ \A i \in DOMAIN store.pending : store.pending[i].id \in Nat  BY <1>4, PendingFacts
<1>6. store.pending # <<>> /\ 1 \in DOMAIN store.pending /\ 1 <= p /\ p \in Nat  BY <1>5
<1>7. store.pending[1].id = c  BY <1>3, <1>6, <1>4, <1>2, <1>5, <1>1 DEF NumbersAreNew, Outstanding
<1> QED  BY <1>5, <1>6, <1>7, HeadFacts DEF CanConfirm, c

\* An entry comes only while nothing is pending.
LEMMA EntriesAreWanted ==
    ASSUME TypeOK, IInv, tick.cmds # <<>>, Command.op = "entry"
    PROVE  store.pending = <<>> /\ store.saving = FALSE
BY NextOnItsWay, UntouchedFacts DEF IInv, EditInv, NothingToLoad, LoadReplies, LoadInv

LEMMA AssertionsHold ==
    ASSUME TypeOK, IInv, [Next]_vars
    PROVE  failure' \notin {"confirm", "put_raw"}
<1>1. ASSUME NEW name, name \notin {"confirm", "put_raw"}, Crash(name) PROVE failure' \notin {"confirm", "put_raw"}
  BY <1>1 DEF Crash
<1> SUFFICES ASSUME failure' # failure PROVE failure' \notin {"confirm", "put_raw"}  BY DEF IInv
<1>2. ~AudioStep /\ ~Tick /\ ~MainHalts /\ ~MainDone /\ ~Stopped /\ ~UNCHANGED vars /\ ~CloseCrashDialog
  BY DEF AudioStep, Tick, TickStart, MainHalts, MainDone, Stopped, CloseCrashDialog, MainUnchanged, vars, history
<1>3. CASE UserStep
  <2>1. \A t : ~Edit(t)  BY DEF Edit
  <2>2. \A d : ~CloseErrorDialog(d)  BY DEF CloseErrorDialog, history
  <2>3. EditFails \/ StartFails \/ ExitSaveFails
    BY <1>3, <2>1, <2>2 DEF UserStep, Save, StartImport, StartExport, TryExit, ExitCancel, ExitDiscard, ExitSave,
       history
  <2> QED  BY <1>1, <2>3 DEF EditFails, StartFails, ExitSaveFails
<1>4. CASE CommandStep
  <2>1. Confirm \/ ImportedEntry \/ ExceptionShown
    BY <1>4 DEF CommandStep, NextList, ConfirmFlush, Progress, ProgressDone, ImportProgress, ImportError,
       ImportFinished, HaltUi, history
  <2>2. CASE Confirm  BY <2>2, ConfirmsHead DEF Confirm, IsNext, IInv
  <2>3. CASE ImportedEntry  BY <2>3, EntriesAreWanted DEF ImportedEntry, IsNext, history
  <2>4. CASE ExceptionShown  BY <1>1, <2>4 DEF ExceptionShown
  <2> QED  BY <2>1, <2>2, <2>3, <2>4
<1>5. CASE SignalStep
  <2>1. \A name, call : ~OnStart(name, call)  BY DEF OnStart, history
  <2>2. OnProgress
    BY <1>5, <2>1 DEF SignalStep, StartUpdates, OnStartSave, OnStartExport, OnStartImport, OnSaveFinished,
       OnExportFinished, OnImportFinished, OnError, OnModule, OnVisibility, EndTick, history
  <2> QED  BY <1>1, <2>2 DEF OnProgress, history
<1>6. CASE TaskStep
  <2>1. WriteKey
    BY <1>6 DEF TaskStep, LoadTask, SandboxTask, StartWriting, WriteError, FinishWriting, StartImportTask,
       ImportTaskError, ImportTaskPut, TaskUnchanged
  <2> QED  BY <1>1, <2>1 DEF WriteKey, TaskUnchanged
<1> QED  BY <1>2, <1>3, <1>4, <1>5, <1>6 DEF Next

-----------------------------------------------------------------------------
\* Every step keeps the invariant.

LEMMA LoadingStep ==
    ASSUME TypeOK, TypeOK', IInv, Loading, [Next]_vars
    PROVE  \/ LoadInv' /\ Loading'
           \/ EditInv' /\ ~Loading'
<1>1. LoadInv /\ Sound(Flow) /\ HaltsAlone(Flow) /\ Untouched /\ RepliesOfLoad /\ CommandsInv
  BY DEF IInv, LoadInv, Sound
<1>2. CASE AudioStep
  <2>1. StoreKept /\ LogKept /\ tasks' = tasks /\ AudioKinds  BY <1>2, AudioStepKinds
  <2>2. Loading'  BY <2>1 DEF Loading, StoreKept, LogKept
  <2> QED  BY <2>2, <1>1, <2>1, AudioLoad, UntouchedKept, RaisedKept, <1>2 DEF AudioStep, uiVars
<1>3. CASE ~AudioStep
  <2>1. UiKinds  BY <1>1, <1>3, UiStepKinds
  <2>2. CASE \E a \in Replies : TakesFinish(a)  BY <1>1, <2>2, LoadDone
  <2>3. CASE ~\E a \in Replies : TakesFinish(a)
    <3>1. ASSUME NEW a \in Replies, TakesConfirm(a) PROVE FALSE
      BY <1>1, <3>1 DEF TakesConfirm, FlowTakes, RepliesOfLoad
    <3>2. confirmed' = confirmed
      BY <2>1, <2>3, <3>1 DEF UiKinds, QuietStep, TakesReply, PutsData, PutsFlush, TakesFlush, TakesEntry, PutsHalt,
         PutsLoad, LogKept
    <3>3. ~ImportFinished
      <4>1. ImportFinished => confirmed' = confirmed + 1  BY DEF ImportFinished
      <4> QED  BY <3>2, <4>1 DEF TypeOK
    <3> QED  BY <1>1, <2>1, <3>2, UiLoad, <1>3, <3>3, LoadingUi
  <2> QED  BY <2>2, <2>3
<1> QED  BY <1>2, <1>3

LEMMA EditingStep ==
    ASSUME TypeOK, TypeOK', IInv, ~Loading, [Next]_vars
    PROVE  EditInv' /\ ~Loading'
<1>1. EditInv /\ Sound(Flow) /\ HaltsAlone(Flow) /\ NumbersInv /\ CommandsInv  BY DEF IInv, Sound
<1>2. CASE AudioStep  BY <1>2, AudioStepKinds, <1>1, AudioEdit, StillEditing
<1>3. CASE ~AudioStep  BY <1>1, <1>3, UiStepKinds, UiEdit, StillEditing, NoLoadTask DEF EditInv, NothingToLoad
<1> QED  BY <1>2, <1>3

LEMMA InvStep ==
    ASSUME TypeOK, IInv, [Next]_vars
    PROVE  IInv'
<1>1. TypeOK'  BY TypeStep
<1>2. Sound(Flow) /\ HaltsAlone(Flow) /\ NumbersInv /\ CommandsInv  BY DEF IInv, Sound
<1>3. Sound(Flow)' /\ NumbersInv' /\ CommandsInv'
  <2>1. CASE AudioStep  BY <1>1, <2>1, AudioStepKinds, <1>2, AudioSound, AudioNumbers, AudioCommands
  <2>2. CASE ~AudioStep  BY <1>1, <1>2, <2>2, UiStepKinds, UiSound, UiNumbers, UiCommands
  <2> QED  BY <2>1, <2>2
<1> QED  BY <1>3, <1>1, LoadingStep, EditingStep, AssertionsHold DEF IInv

-----------------------------------------------------------------------------
\* The start.

LEMMA StartFlow ==
    ASSUME Init
    PROVE  Items(Flow) = {} /\ Sound(Flow)
<1>1. tick.cmds = <<>> /\ outQ = <<>> /\ inQ = <<>> /\ inPending = <<>>  BY DEF Init, AudioInit
<1>2. /\ Flow \in Flows /\ Flow # <<>>
      /\ Len(outQ) \in Nat /\ Len(inQ) \in Nat /\ Len(Flow) = Len(outQ) + Len(inQ) + 2
      /\ Flow[1] = tick.cmds /\ Flow[Len(outQ) + Len(inQ) + 2] = inPending  BY FlowParts, InitTypes
<1>3. Len(Flow) = 2 /\ Flow[1] = <<>> /\ Flow[2] = <<>>  BY <1>1, <1>2
<1>4. DOMAIN Flow = {1, 2}  BY <1>3, <1>2, ItemFacts
<1> QED  BY <1>3, <1>4 DEF Items, Sound, Ordered, HaltsAlone

LEMMA StartFacts ==
    ASSUME Init
    PROVE  /\ engine.doing = Idle /\ engine.doing.op = "idle" /\ engine.validated = 0 /\ engine.alive = TRUE
           /\ engine.data = NewStore.content
           /\ confirmed = 0 /\ failure = "none"
           /\ Confirming = {} /\ Handled = {}
<1>1. engine = [data |-> [k \in Keys |-> None], ready |-> TRUE, doing |-> Idle,
                running |-> TRUE, alive |-> TRUE, validated |-> 0]  BY DEF Init, AudioInit
<1> HIDE DEF Idle
<1> QED  BY StartFlow, <1>1 DEF Init, Confirming, Handled, NewStore, Idle

LEMMA LoadStarts ==
    ASSUME Init, store = NewStore, AudioInit(<<>>), tasks = <<[op |-> "load"]>>, log = <<>>
    PROVE  IInv
<1>1. /\ store.pending = <<>> /\ store.nextId = 0 /\ store.notifiers = {} /\ store.flushes = {}
      /\ store.saving = FALSE /\ store.modified = FALSE  BY DEF NewStore
<1>2. audioQ = <<>> /\ DOMAIN audioQ = {}  BY DEF AudioInit
<1>3. Raised = {}  BY DEF Init, NoSignals, Raised, Names, NamesIn
<1>4. Untouched  BY <1>1, <1>3, FreshStore, InitTypes DEF Untouched, Init, TypeOK
<1>5. RepliesOfLoad /\ ~FinishSent  BY StartFlow DEF RepliesOfLoad, FinishSent
<1>6. NotBegun /\ Reading /\ Sending /\ Finished
  BY <1>5, StartFacts, StartFlow DEF NotBegun, Reading, Sending, Finished
<1>7. LoadInv  BY <1>4, <1>5, <1>6, StartFacts, LoadedFacts, <1>2 DEF LoadInv, CommandsToLoad
<1>8. NumbersInv  BY StartFacts, <1>1, <1>2 DEF NumbersInv, NumbersHold, Below, Outstanding, Waiting
<1> QED  BY <1>7, <1>8, StartFlow, StartFacts, <1>2, <1>1 DEF IInv, CommandsInv, Loading

LEMMA SandboxStarts ==
    ASSUME Init, store = Put(NewStore, SandboxData, TRUE), AudioInit(<<SetDataCommand(0, SandboxData)>>),
           tasks = <<[op |-> "sandbox"]>>, log = <<SandboxData>>
    PROVE  IInv
<1> DEFINE t == SandboxData
           e == [id |-> NewStore.nextId, data |-> t]
           c == SetDataCommand(0, t)
<1>1. NewStore \in Stores  BY DEF Contents, NewStore, Stores
<1>2. t \in Transactions /\ TRUE \in BOOLEAN /\ t # None  BY DataTypes, NoneAssumption
<1>3. /\ store.pending = Append(NewStore.pending, e)
      /\ store.content = NewStore.content /\ store.flushes = NewStore.flushes  BY <1>1, <1>2, PutType
<1>4. NewStore.pending = <<>> /\ NewStore.flushes = {} /\ NewStore.nextId = 0  BY DEF NewStore
<1>5. e.id = 0 /\ e.data = t  BY <1>4
<1>6. c.op = "set_data" /\ c.id = 0 /\ c.data = t /\ c \in Commands  BY <1>2 DEF SetDataCommand, Commands
<1>7. audioQ = <<c>> /\ audioQ = Append(<<>>, c)  BY DEF AudioInit
<1> HIDE DEF e, c, t
<1>8. DOMAIN store.pending = {1} /\ store.pending[1] = e /\ Len(store.pending) = 1 /\ store.pending # <<>>
  <2> DEFINE s == store.pending
  <2>1. s = Append(<<>>, e)  BY <1>3, <1>4
  <2> HIDE DEF s
  <2>2. DOMAIN s = {1} /\ s[1] = e /\ Len(s) = 1 /\ s # <<>>  BY <2>1
  <2> QED  BY <2>2 DEF s
<1>9. DOMAIN audioQ = {1} /\ audioQ[1] = c  BY <1>7
<1>10. Outstanding = {0} /\ Waiting = {0}
  <2>1. Waiting = {0}  BY <1>6, <1>9 DEF Waiting
  <2> QED  BY <2>1, <1>5, <1>8, <1>3, <1>4 DEF Outstanding
<1>11. NumbersInv  BY <1>10, StartFacts DEF NumbersInv, NumbersHold, Below
<1>12. CommandsInv
  <2>1. \A i \in DOMAIN audioQ : i = 1 /\ audioQ[i] = c  BY <1>9
  <2>2. engine.doing.op # "set_data"  BY StartFacts
  <2>3. \A i, j \in DOMAIN audioQ : ~(i < j)  BY <2>1
  <2> QED  BY <1>2, <1>6, <2>1, <2>2, <2>3, <1>5, <1>8 DEF CommandsInv, IsPending
<1>13. NothingToLoad  BY <1>6, <1>9, StartFacts, StartFlow DEF NothingToLoad
<1>14. ViewIsUpcoming
  <2>1. ASSUME NEW k \in Keys PROVE View(store)[k] = Foreseen(audioQ, engine, k)
    <3>1. Foreseen(audioQ, engine, k) = IF Carries(c, k) THEN c.data[k] ELSE Foreseen(<<>>, engine, k)
      <4> DEFINE q == <<>>
      <4>1. q \in Seq(Commands) /\ audioQ = Append(q, c)  BY <1>7
      <4> HIDE DEF q
      <4> QED  BY <4>1, <1>6, ForeseenSent DEF q
    <3>2. Foreseen(<<>>, engine, k) = None  BY StartFacts, LoadedFacts, ForeseenFacts DEF CarriedIn, Base
    <3>3. View(store)[k] = IF k \in DOMAIN t THEN t[k] ELSE None
      <4>1. Touching(store, k) = IF k \in DOMAIN t THEN {1} ELSE {}  BY <1>5, <1>8 DEF Touching
      <4>2. store \in Stores  BY InitTypes DEF TypeOK
      <4>3. store.content[k] = None  BY <1>3, LoadedFacts
      <4>4. CASE k \in DOMAIN t
        <5>1. View(store)[k] = store.pending[1].data[k]  BY <4>1, <4>2, <4>4, ViewFacts
        <5> QED  BY <1>5, <1>8, <4>4, <5>1
      <4>5. CASE k \notin DOMAIN t  BY <4>1, <4>2, <4>3, <4>5, ViewFacts
      <4> QED  BY <4>4, <4>5
    <3> QED  BY <1>6, <3>1, <3>2, <3>3, <1>2 DEF Carries
  <2> QED  BY <2>1, ViewsByKey DEF ViewIsUpcoming
<1>15. LogInv
  <2>1. Len(log) = 1 /\ log[1] = t  BY DEF t
  <2>2. confirmed = 0 /\ engine.validated = 0 /\ Confirming = {}  BY StartFacts
  <2>3. \A p \in DOMAIN store.pending : p = 1 /\ confirmed + p = 1
    <3>1. 0 + 1 = 1  OBVIOUS
    <3> QED  BY <1>8, <2>2, <3>1
  <2>4. \A p \in DOMAIN store.pending : store.pending[p].data = log[confirmed + p] /\ ~(confirmed + p <= engine.validated)
    <3>1. ~(1 <= 0)  OBVIOUS
    <3> QED  BY <1>5, <1>8, <2>1, <2>2, <2>3, <3>1
  <2>5. Len(log) = confirmed + Len(store.pending) /\ engine.validated \in confirmed..Len(log)
    <3>1. 1 = 0 + 1 /\ 0 \in 0..1  OBVIOUS
    <3> QED  BY <3>1, <1>8, <2>1, <2>2
  <2> QED  BY <1>3, <2>2, <2>4, <2>5 DEF LogInv
<1>16. ~Loading  BY <1>8 DEF Loading
<1> QED  BY <1>11, <1>12, <1>13, <1>14, <1>15, <1>16, StartFlow, StartFacts DEF IInv, EditInv

-----------------------------------------------------------------------------

LEMMA InvStart ==
    ASSUME Init
    PROVE  IInv
    BY LoadStarts, SandboxStarts DEF Init

LEMMA InvHolds == Spec => [](TypeOK /\ IInv)
<1>1. Init => TypeOK /\ IInv  BY InitTypes, InvStart
<1>2. TypeOK /\ IInv /\ [Next]_vars => (TypeOK /\ IInv)'  BY TypeStep, InvStep
<1> QED  BY <1>1, <1>2, PTL DEF Spec

\* ConfirmationsInOrder: the audio process confirms every transaction the
\* store sent and in that order, also between flushes, jobs and the load
\* of a module, and no entry of a module comes while a transaction is
\* pending or a file is written: the two assertions of store.py that both
\* processes can only keep together never fail.
THEOREM ConfirmationsInOrder == Spec => [](failure \notin {"confirm", "put_raw"})
<1>1. TypeOK /\ IInv => failure \notin {"confirm", "put_raw"}  BY DEF IInv
<1> QED  BY <1>1, InvHolds, PTL

\* UserSeesWhatIsHeard: as soon as the user may edit, what the store
\* answers is what the audio process holds when it has run the commands
\* that wait for it.
THEOREM UserSeesWhatIsHeard == Spec => []ViewMatchesEngine
<1>1. TypeOK /\ IInv => ViewMatchesEngine
  <2> SUFFICES ASSUME TypeOK, IInv, windows.enabled, AudioFails => engine.alive PROVE View(store) = Upcoming
    BY DEF ViewMatchesEngine
  <2> QED  BY UntouchedFacts DEF IInv, EditInv, ViewIsUpcoming, LoadInv
<1> QED  BY <1>1, InvHolds, PTL

=============================================================================
