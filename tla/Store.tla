------------------------------- MODULE Store -------------------------------
(***************************************************************************)
(* The store of the tracker (tracker/ui/controller/store.py): the data of  *)
(* the module as the user interface knows it.  A transaction is sent to    *)
(* the audio process when it is put and stays pending until the audio      *)
(* process confirms it; readers see pending data first.                    *)
(*                                                                         *)
(* A store is a record, and an operation maps a store to the store after   *)
(* the call.  None stands for a key that has no value, and for the value   *)
(* that deletes a key.                                                     *)
(***************************************************************************)
EXTENDS Naturals, Sequences

CONSTANTS Keys,     \* the keys of the module's data
          Values,   \* the values a key can have
          None

Contents == [Keys -> Values \union {None}]
Transactions == UNION {[S -> Values \union {None}] : S \in SUBSET Keys}

ASSUME NoneAssumption == None \notin Values /\ None \notin Transactions
ASSUME ValuesAssumption == Values # {}

(* dict.update followed by the removal of the keys whose value is None. *)
Overlay(f, t) == [k \in DOMAIN f |-> IF k \in DOMAIN t THEN t[k] ELSE f[k]]

NewStore == [content |-> [k \in Keys |-> None], pending |-> <<>>, nextId |-> 0,
             notifiers |-> {}, flushes |-> {}, saving |-> FALSE, modified |-> FALSE]

Put(st, t, mark) ==
    [st EXCEPT !.pending = Append(@, [id |-> st.nextId, data |-> t]),
               !.nextId = @ + 1,
               !.modified = @ \/ mark]

(* A put whose progress the caller wants to know. *)
PutNotify(st, t) ==
    [Put(st, t, TRUE) EXCEPT !.notifiers = @ \union {st.nextId}]

PutRaw(st, t) == [st EXCEPT !.content = Overlay(@, t)]

Flush(st, call) ==
    [st EXCEPT !.flushes = @ \union {[id |-> st.nextId, call |-> call]},
               !.nextId = @ + 1]

IsFlush(st, id) == \E f \in st.flushes : f.id = id
FlushCall(st, id) == (CHOOSE f \in st.flushes : f.id = id).call
FlushDone(st, id) == [st EXCEPT !.flushes = {f \in @ : f.id # id}]

(* The assertion of _get_validated_transaction, and popleft of an empty    *)
(* deque: the oldest pending transaction is the one that was validated.    *)
CanConfirm(st, id) == st.pending # <<>> /\ Head(st.pending).id = id

ConfirmValidData(st, id) ==
    [st EXCEPT !.content = Overlay(@, Head(st.pending).data),
               !.pending = Tail(@)]

SetSaving(st, enabled) == [st EXCEPT !.saving = enabled]
ClearModified(st) == [st EXCEPT !.modified = FALSE]

(* get_with_version: the latest pending transaction that has the key, or   *)
(* else the validated content; None stands for KeyError.                   *)
Touching(st, k) == {i \in DOMAIN st.pending : k \in DOMAIN st.pending[i].data}

(* Wrong: the oldest pending value is read.                                *)
OldestView(st) ==
    [k \in Keys |->
        LET I == Touching(st, k)
        IN IF I = {} THEN st.content[k]
           ELSE st.pending[CHOOSE i \in I : \A j \in I : i <= j].data[k]]

View(st) ==
    [k \in Keys |->
        LET I == Touching(st, k)
        IN IF I = {} THEN st.content[k]
           ELSE st.pending[CHOOSE i \in I : \A j \in I : j <= i].data[k]]

(* __iter__: a key that some pending transaction sets is listed even when  *)
(* a later one deletes it.                                                 *)
ListedKeys(st) ==
    {k \in Keys :
        \/ \E i \in Touching(st, k) : st.pending[i].data[k] # None
        \/ st.content[k] # None /\ \A i \in Touching(st, k) : st.pending[i].data[k] # None}

(* __len__ counts the validated content only. *)
StoreLen(st) == {k \in Keys : st.content[k] # None}
=============================================================================
