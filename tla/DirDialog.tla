------------------------------- MODULE DirDialog -------------------------------
(***************************************************************************)
(* The dialog that asks for a directory (views/dirdialog.py): a tree whose *)
(* entries are scanned in steps, the search for the directory to begin     *)
(* with, and the watcher of the file system, while others make and remove  *)
(* directories.                                                            *)
(*                                                                         *)
(* A path is the sequence of its names, the root is <<>>.  A scan that is  *)
(* asked for by an entry which has left the tree since fails (the          *)
(* assertion of _step_scan_entries); behaviours end there.                 *)
(***************************************************************************)
EXTENDS Integers, Sequences, FiniteSets, SequencesExt

CONSTANTS None,
          Paths,         \* that may exist, without the root
          NameRank,      \* [names -> Nat]: their order
          DirDisks,      \* sets of paths that exist at the beginning
          Starts,        \* paths to begin with
          MaxChanges,    \* bound of the model: changes made by others
          MaxActions     \* bound of the model: inputs and changes

VARIABLES store,     \* [disk, changes, missed, lost]: what exists; history variables
                     \*   missed: changed unseen since the last scan, lost: watches gone with their path
          session,   \* [current, enabled, result]: the dialog, and the path it was given (start)
          view,      \* [tree, open, expanded, selected, watched, queue, rest, resolved]
          signals,   \* paths the watcher is going to report
          done, failed, actions

vars == <<store, session, view, signals, done, failed, actions>>

RootPath == <<>>
Parent(p) == Front(p)
RankOf(p) == NameRank[Last(p)]
ChildrenIn(paths, p) == {q \in paths : q # RootPath /\ Parent(q) = p}
Under(paths, p) == {q \in paths : IsPrefix(p, q)}
Trail(p) == [i \in 1..Len(p) + 1 |-> SubSeq(p, 1, i - 1)]

(* d is [view, session, lost]: what the handlers change together.          *)
Now == [view |-> view, session |-> session, lost |-> store.lost, ok |-> TRUE]

-----------------------------------------------------------------------------
(* DirTreeModel                                                            *)

Requested(d, paths) ==
    [d EXCEPT !.view.queue = @ \o SetToSortSeq(paths, LAMBDA p, q : RankOf(p) < RankOf(q))]
RequestedOne(d, p) == [d EXCEPT !.view.queue = Append(@, p)]

(* A path that does not exist cannot be watched.                           *)
Watched(d, p) ==
    IF p \in store.disk THEN [d EXCEPT !.view.watched = @ \cup {p}, !.lost = @ \ {p}]
    ELSE [d EXCEPT !.lost = @ \cup {p}]
Unwatched(d, p) == [d EXCEPT !.view.watched = @ \ {p}, !.lost = @ \ {p}]

Left(d) ==
    IF d.view.selected = None \/ d.view.selected \in d.view.expanded THEN d
    ELSE Unwatched(d, d.view.selected)

(* select_entry, and the dialog that follows.                              *)
Select(d, p) ==
    LET left == Left(d)
        watched == IF p \in d.view.expanded THEN left ELSE Watched(left, p)
        selected == RequestedOne([watched EXCEPT !.view.selected = p], p)
        moved == IF p = d.view.selected THEN d ELSE selected
    IN  IF p = d.session.current THEN moved
        ELSE [moved EXCEPT !.session.current = p, !.session.enabled = p \in store.disk]

(* expand_entry                                                            *)
Expanded(d, p) ==
    IF p \in d.view.open THEN d
    ELSE LET watched == IF p \in d.view.expanded \/ p = d.view.selected THEN d ELSE Watched(d, p)
         IN  Requested([watched EXCEPT !.view.expanded = @ \cup {p}, !.view.open = @ \cup {p}],
                       ChildrenIn(d.view.tree, p))

(* collapse_entry                                                          *)
Collapsed(d, p) ==
    LET free == p \in d.view.expanded /\ p # d.view.selected
    IN  [(IF free THEN Unwatched(d, p) ELSE d) EXCEPT !.view.expanded = @ \ {p}, !.view.open = @ \ {p}]

-----------------------------------------------------------------------------
(* The directory to begin with                                             *)

Shown(d, paths) == FoldLeft(Expanded, d, SelectSeq(paths, LAMBDA p : p \in d.view.tree))
SelectedIn(d, p) == IF p \in d.view.tree THEN Select(d, p) ELSE d

StartFound(d) == SelectedIn(Shown(d, Front(d.view.resolved)), Last(d.view.resolved))
StartNotFound(d) ==
    LET paths == IF d.view.resolved = <<>> THEN <<RootPath>> ELSE d.view.resolved
        shown == SelectedIn(Shown(d, paths), Last(paths))
    IN  [shown EXCEPT !.view.rest = <<>>, !.view.resolved = <<>>]

Extended(d, p) ==
    IF d.view.rest = <<>> \/ p # d.view.rest[1] THEN d
    ELSE LET next == [d EXCEPT !.view.resolved = Append(@, p), !.view.rest = Tail(@)]
         IN  IF next.view.rest = <<>> THEN StartFound(next) ELSE RequestedOne(next, p)

-----------------------------------------------------------------------------
(* Scans                                                                   *)

ChildrenOnDisk(p) == IF p \in store.disk THEN ChildrenIn(store.disk, p) ELSE {}
Sorted(paths) == SetToSortSeq(paths, LAMBDA p, q : RankOf(p) < RankOf(q))

(* Rows of removed entries go at once up to the next entry that stays or   *)
(* is new; the view then moves from a removed row to the one below, to the *)
(* one above, or to the parent.                                            *)
Run(d, new, c) ==
    {q \in ChildrenIn(d.view.tree, Parent(c)) :
        RankOf(q) >= RankOf(c) /\ \A n \in new : RankOf(n) > RankOf(c) => RankOf(q) < RankOf(n)}
Beside(d, p, gone) ==
    LET left == ChildrenIn(d.view.tree, p) \ gone
        below == {q \in left : \A g \in gone : RankOf(q) > RankOf(g)}
        above == left \ below
    IN  IF below # {} THEN Sorted(below)[1] ELSE IF above # {} THEN Last(Sorted(above)) ELSE p
GoneWith(d, gone) == UNION {Under(d.view.tree, q) : q \in gone}
(* Wrong: entries that are gone stay.                                      *)
GoneKept(d, p, new, c) == d
WithoutRun(d, p, new, c) ==
    IF c \notin d.view.tree THEN d
    ELSE LET gone == Run(d, new, c)
             moved == IF d.view.selected \in gone THEN Select(d, Beside(d, p, gone)) ELSE d
             under == GoneWith(d, gone)
         IN  [moved EXCEPT !.view.tree = @ \ under, !.view.open = @ \ under,
                           !.ok = @ /\ Range(moved.view.queue) \cap under = {}]

WithChild(d, c) == IF c \in d.view.tree THEN d ELSE Extended([d EXCEPT !.view.tree = @ \cup {c}], c)

(* One entry of _step_scan_entries.                                        *)
Scanned(d, p) ==
    LET new == ChildrenOnDisk(p)
        One(e, c) == IF c \in new THEN WithChild(e, c) ELSE WithoutRun(e, p, new, c)
    IN  FoldLeft(One, d, Sorted(new \cup ChildrenIn(d.view.tree, p)))
StepOne(d, i) == IF ~d.ok THEN d ELSE Scanned([d EXCEPT !.view.queue = Tail(@)], d.view.queue[1])
AtEnd(d) == IF d.view.queue = <<>> /\ d.view.rest # <<>> THEN StartNotFound(d) ELSE d

Outcome(d, missed) ==
    /\ view' = d.view
    /\ session' = d.session
    /\ store' = [store EXCEPT !.lost = d.lost, !.missed = missed]
    /\ failed' = IF d.ok THEN failed ELSE "assert"

-----------------------------------------------------------------------------
(* DirDialog and its set_start_dir: the root is in the tree, not scanned.  *)
Init ==
    /\ \E disk \in DirDisks : store = [disk |-> disk \cup {RootPath}, changes |-> 0, missed |-> {}, lost |-> {}]
    /\ \E start \in Starts :
          LET v == [tree |-> {RootPath}, open |-> {}, expanded |-> {}, selected |-> None, watched |-> {},
                    queue |-> <<RootPath>>, rest |-> Tail(Trail(start)), resolved |-> <<RootPath>>]
              d == [view |-> v, lost |-> {}, ok |-> TRUE,
                    session |-> [start |-> start, current |-> start, enabled |-> start \in store.disk, result |-> None]]
              begun == IF start = RootPath THEN StartFound(d) ELSE RequestedOne(d, RootPath)
          IN  view = begun.view /\ session = begun.session
    /\ signals = {}
    /\ done = "none"
    /\ failed = "no"
    /\ actions = 0

Runs == failed = "no" /\ session.result = None

(* A step of the scan: as many entries as time allows, one at least.       *)
StepScanEntries ==
    /\ Runs /\ view.queue # <<>>
    /\ \E n \in 1..Len(view.queue) :
          Outcome(AtEnd(FoldLeft(StepOne, Now, [i \in 1..n |-> i])),
                  store.missed \ {view.queue[i] : i \in 1..n})
    /\ done' = "step"
    /\ UNCHANGED <<signals, actions>>

(* _on_path_modified: the deepest entry of the tree on the way to the path *)
DeepestIn(paths, p) ==
    LET known == SelectSeq(Trail(p), LAMBDA q : \A i \in 0..Len(q) : SubSeq(q, 1, i) \in paths)
    IN  Last(known)
PathModified ==
    /\ Runs
    /\ \E p \in signals :
          LET entry == DeepestIn(view.tree, p)
              d == IF p \in store.disk THEN RequestedOne(Now, entry)
                   ELSE IF entry # RootPath THEN RequestedOne(Now, Parent(entry)) ELSE Now
          IN  /\ Outcome(IF p \in store.disk THEN d ELSE [d EXCEPT !.view.watched = @ \ {p}], store.missed)
              /\ signals' = signals \ {p}
    /\ done' = "told"
    /\ UNCHANGED actions

CanChange == Runs /\ store.changes < MaxChanges /\ actions + store.changes < MaxActions
Others(p, disk, lost) ==
    /\ store' = [store EXCEPT !.disk = disk, !.changes = @ + 1, !.lost = @ \cup lost,
                              !.missed = IF Parent(p) \in view.watched THEN @ ELSE @ \cup {Parent(p)}]
    /\ signals' = signals \cup ({Parent(p), p} \cap view.watched)
    /\ done' = "others"
    /\ UNCHANGED <<session, view, failed, actions>>
MakeDir ==
    /\ CanChange
    /\ \E p \in {p \in Paths \ store.disk : Parent(p) \in store.disk} : Others(p, store.disk \cup {p}, {})
RemoveDir ==
    /\ CanChange
    /\ \E p \in {p \in store.disk \ {RootPath} : ChildrenIn(store.disk, p) = {}} :
          Others(p, store.disk \ {p}, {p} \cap (view.expanded \cup {view.selected}))

CanAct == Runs /\ actions + store.changes < MaxActions
Visible == {p \in view.tree : \A q \in Range(Trail(p)) \ {p} : q \in view.open}
Acts(name) == actions' = actions + 1 /\ done' = name /\ UNCHANGED signals

SelectEntry ==
    /\ CanAct
    /\ \E p \in Visible \ {view.selected} : Outcome(Select(Now, p), store.missed)
    /\ Acts("select")

ExpandEntry ==
    /\ CanAct
    /\ \E p \in {p \in Visible \ view.open : ChildrenIn(view.tree, p) # {}} : Outcome(Expanded(Now, p), store.missed)
    /\ Acts("expand")

CollapseEntry ==
    /\ CanAct
    /\ \E p \in Visible \cap view.open : Outcome(Collapsed(Now, p), store.missed)
    /\ Acts("collapse")

Choose ==
    /\ CanAct /\ session.enabled
    /\ session' = [session EXCEPT !.result = session.current]
    /\ Acts("choose")
    /\ UNCHANGED <<store, view, failed>>

DirOthers == MakeDir \/ RemoveDir
DirInputs == SelectEntry \/ ExpandEntry \/ CollapseEntry \/ Choose
Next == StepScanEntries \/ PathModified \/ DirOthers \/ DirInputs

Spec == Init /\ [][Next]_vars

-----------------------------------------------------------------------------
DirDialogTypeOK ==
    /\ RootPath \in store.disk /\ store.disk \subseteq Paths \cup {RootPath}
    /\ RootPath \in view.tree /\ view.tree \subseteq Paths \cup {RootPath}
    /\ \A p \in view.tree \ {RootPath} : Parent(p) \in view.tree
    /\ view.open \subseteq view.tree \cap view.expanded
    /\ failed = "no" => Range(view.queue) \subseteq view.tree
    /\ signals \subseteq Paths \cup {RootPath}
    /\ failed \in {"no", "assert"}

(* A scan asserts that its directory is in the tree.  The assertion fails  *)
(* only for a directory that others had removed by the time its parent was *)
(* scanned, while its own scan was waiting; nothing that the user opens,   *)
(* closes or selects meanwhile makes it fail                               *)
(* (DirTreeModel._step_scan_entries).                                      *)
ScansFailForRemovedOnly ==
    failed = "assert" =>
        \E p \in Range(view.queue) :
            p \notin view.tree /\ p \notin store.disk /\ store.changes > 0

(* The directories that are open and the one that is selected are watched, *)
(* and no others; a watch is lost only when its directory is removed       *)
(* (DirTreeModel.select_entry, expand_entry, collapse_entry).              *)
WatchesFollow ==
    failed = "no" =>
        /\ view.watched \subseteq view.expanded \cup {view.selected}
        /\ (view.expanded \cup {view.selected}) \ {None} \subseteq view.watched \cup store.lost

(* When nothing is left to do, the tree shows what is in the directories   *)
(* that are open or selected, unless one changed while it was not watched  *)
(* (DirTreeModel._step_scan_entries).                                      *)
TreeCatchesUp ==
    (failed = "no" /\ view.queue = <<>> /\ signals = {}) =>
        \A p \in (view.open \cup ({view.selected} \cap view.tree)) \ (store.missed \cup store.lost) :
            ChildrenIn(view.tree, p) = ChildrenOnDisk(p)

(* The dialog begins with the directory it was given, or the deepest one   *)
(* on the way to it, selected and in sight (DirTreeModel.set_start_dir).   *)
StartIsReached ==
    (actions = 0 /\ store.changes = 0 /\ view.queue = <<>>) =>
        /\ view.selected = session.current
        /\ view.selected \in Visible
        /\ view.selected = DeepestIn(store.disk, session.start)
=============================================================================
