------------------------------ MODULE FileDialog ------------------------------
(***************************************************************************)
(* The dialog that asks for files (views/filedialog.py): a list of the     *)
(* directory that is filled in steps, as every file must be opened to see  *)
(* whether it is one to offer; the selection; the name to save under; and  *)
(* the file system, which others change meanwhile.                         *)
(*                                                                         *)
(* Root holds the directory HomeName and files, Home holds files.  An      *)
(* entry is [name, kind, time, checked, visible].  "kqt" files pass the    *)
(* filter of the dialog, "other" ones do not, and "locked" ones cannot be  *)
(* opened.  Times of modification are unique, and no two names differ in   *)
(* case only.                                                              *)
(***************************************************************************)
EXTENDS Integers, Sequences, FiniteSets, SequencesExt

CONSTANTS None,
          Root, Home, HomeName,
          Order,         \* all names, in the order of their keys, ".." first
          Hidden,        \* names that start with a dot
          Modes,         \* \subseteq {"open", "open_mult", "save"}
          Typed,         \* texts for the field of the name
          Disks,         \* [Root, Home -> [files -> [kind, time]]], at the beginning
          WrittenKinds,  \* of files that others write
          MaxChanges,    \* bound of the model: changes made by others
          MaxActions     \* bound of the model: inputs and changes

VARIABLES store,     \* [files, readable, time]: the file system
          session,   \* [mode, watched, confirm, result, silent]: the dialog
          view,      \* [dir, text, enabled] and the list:
                     \* [all, shown, at, row, steps, rows, chosen, suggested, refreshed]
          signals,   \* of the watcher of the file system: "dir" or a file
          done,      \* history variable: the last step
          failed, actions

vars == <<store, session, view, signals, done, failed, actions>>

Dirs == {"..", HomeName}
Files == Range(Order) \ Dirs
Rank(n) == CHOOSE i \in DOMAIN Order : Order[i] = n

-----------------------------------------------------------------------------
(* Reading the directory                                                   *)

(* A new entry: a file has to be checked before it is offered.             *)
Entry(dir, name) ==
    [name |-> name, checked |-> FALSE, visible |-> name \in Dirs,
     kind |-> IF name \in Dirs THEN "dir" ELSE "file",
     time |-> IF name \in Dirs THEN 0 ELSE store.files[dir][name].time]

Present(dir) ==
    (IF dir = Root THEN {} ELSE {".."})
    \cup (IF ~store.readable[dir] THEN {}
          ELSE DOMAIN store.files[dir] \cup (IF dir = Root THEN {HomeName} ELSE {}))
Scan(dir) == LET names == SelectSeq(Order, LAMBDA n : n \in Present(dir))
             IN  [i \in DOMAIN names |-> Entry(dir, names[i])]

IsKnown(e) == (e.kind = "dir" \/ (e.checked /\ e.visible)) /\ e.name \notin Hidden
FillKnown(all) == LET known == SelectSeq(all, IsKnown) IN [i \in DOMAIN known |-> known[i].name]

(* Entries that were checked stay as they are if the file is unchanged.    *)
Stays(e, new) == e.checked /\ e.name = new.name /\ e.time = new.time
Merged(old, new) ==
    [i \in DOMAIN new |-> IF \E j \in DOMAIN old : Stays(old[j], new[i])
                          THEN old[CHOOSE j \in DOMAIN old : Stays(old[j], new[i])] ELSE new[i]]

KindNow(dir, name) == IF name \in DOMAIN store.files[dir] THEN store.files[dir][name].kind ELSE "locked"
Filtered(dir, e) ==
    [e EXCEPT !.kind = CASE KindNow(dir, e.name) = "kqt" -> "kqt"
                         [] KindNow(dir, e.name) = "locked" -> "inaccessible"
                         [] OTHER -> @,
              !.visible = KindNow(dir, e.name) = "kqt" \/ session.mode = "save",
              !.checked = TRUE]

RowAfter(v, e) == IF v.row < Len(v.shown) /\ v.shown[v.row + 1] = e.name THEN v.row + 1 ELSE v.row

Replaced(s, i, e) == InsertAt(RemoveAt(s, i), i, e)

(* One entry of _check_entries.                                            *)
CheckOne(v, i) ==
    LET e == v.all[i]
        f == Filtered(v.dir, e)
        ok == /\ v.ok
              /\ v.row <= Len(v.shown)
              /\ v.row < Len(v.shown) => Rank(e.name) <= Rank(v.shown[v.row + 1])
    IN  IF e.kind = "dir" \/ e.checked
        THEN [v EXCEPT !.row = RowAfter(v, e), !.ok = ok]
        ELSE IF f.visible /\ e.name \notin Hidden
        THEN [v EXCEPT !.all = Replaced(@, i, f), !.shown = InsertAt(@, v.row + 1, e.name), !.row = @ + 1, !.ok = ok]
        ELSE [v EXCEPT !.all = Replaced(@, i, f), !.ok = ok]

-----------------------------------------------------------------------------
(* Selection                                                               *)

IsValid(names) == Cardinality(names) = 1 \/ names \cap Dirs = {}
NamesOf(chosen) == {c[1] : c \in chosen}
NameIn(text) == IF text \in {"", ".."} THEN "" ELSE text

IsEnabled(v) ==
    IF session.mode = "save"
    THEN NameIn(v.text) # "" /\ ~(v.dir = Root /\ v.text = HomeName)
    ELSE v.chosen # {} /\ NamesOf(v.chosen) \cap Dirs = {}

TextFor(names, text) ==
    IF session.mode # "save" \/ names = {} THEN text
    ELSE IF names \cap Dirs = {} THEN CHOOSE n \in names : TRUE
    ELSE IF NameIn(text) \in names THEN text ELSE ""

RowsAllowed(v, rows) ==
    LET kept == {c[1] : c \in {c \in v.chosen : c[2] /\ c[1] \in Range(v.shown)}}
    IN  IF IsValid(rows) THEN rows ELSE IF kept # {} THEN kept ELSE {v.shown[1]}

WithButton(v) == [v EXCEPT !.enabled = IsEnabled(v)]
Chosen(v, rows) ==
    WithButton([v EXCEPT !.rows = rows, !.chosen = {<<n, TRUE>> : n \in rows},
                         !.refreshed = FALSE, !.text = TextFor(rows, @)])

(* The signal of the selection comes only when it changes.                 *)
SelectRows(v, rows) ==
    IF rows = v.rows THEN v
    ELSE IF RowsAllowed(v, rows) = v.rows THEN v ELSE Chosen(v, RowsAllowed(v, rows))

TrySelectSuggested(v) ==
    IF v.suggested = "" THEN v
    ELSE IF v.suggested \in Range(v.shown)
    THEN [SelectRows(v, {v.suggested}) EXCEPT !.suggested = ""]
    ELSE SelectRows(v, {})

(* _step_check_entries: entries are checked until time is up, which is     *)
(* looked at after each file; after the last one there is one more step.   *)
Ends(v) ==
    IF v.at = None \/ v.at = Len(v.all) + 2 THEN {None}
    ELSE {Len(v.all) + 1} \cup {i \in v.at..Len(v.all) : v.all[i].kind # "dir" /\ ~v.all[i].checked}
Checked(v, end) ==
    LET last == IF end > Len(v.all) THEN Len(v.all) ELSE end
    IN  [FoldLeft(CheckOne, v, [i \in 1..last - v.at + 1 |-> v.at + i - 1]) EXCEPT !.at = end + 1]
LookedFor(v, w) == IF w.suggested \in Range(w.shown) \ Range(v.shown) THEN TrySelectSuggested(w) ELSE w
Queued(v) == IF v.at = None THEN v ELSE [v EXCEPT !.steps = @ + 1]
Stepped(v, end) ==
    Queued(IF v.at = None THEN v
           ELSE IF v.at = Len(v.all) + 2 THEN [v EXCEPT !.at = None]
           ELSE LookedFor(v, Checked(v, end)))

NoRows(v, all) == {}

(* endResetModel: the selection is gone without a signal, and entries that *)
(* were replaced stay chosen.                                              *)
Reset(v, all) ==
    [v EXCEPT !.all = all, !.shown = FillKnown(all), !.at = 1, !.row = 0, !.rows = NoRows(v, all),
              !.refreshed = @ \/ v.rows # {},
              !.chosen = {<<c[1], c[2] /\ \E i \in DOMAIN all, j \in DOMAIN v.all :
                                              all[i].name = c[1] /\ v.all[j] = all[i] /\ all[i].checked>> : c \in @}]

-----------------------------------------------------------------------------
(* The directory                                                           *)

Directory(v, dir, end) ==
    LET read == Stepped(Reset([v EXCEPT !.dir = dir, !.all = <<>>, !.shown = <<>>], Scan(dir)), end)
        first == IF read.shown # <<>> THEN SelectRows(read, {read.shown[1]}) ELSE SelectRows(read, {})
    IN  [Queued(first) EXCEPT !.text = ""]

(* Where the first step in the directory may end.                          *)
EndsIn(v, dir) == Ends(Reset([v EXCEPT !.dir = dir, !.all = <<>>], Scan(dir)))

Outcome(v) ==
    /\ view' = v
    /\ failed' = IF ~v.ok \/ ~IsValid(NamesOf(v.chosen)) THEN "assert" ELSE failed

SetCurrentDir(dir) ==
    IF dir = view.dir THEN UNCHANGED <<view, session, signals, failed>>
    ELSE /\ \E end \in EndsIn(view, dir) : Outcome(Directory(view, dir, end))
         /\ session' = [session EXCEPT !.watched = {}, !.silent = {}]
         /\ signals' = {}

Empty(dir) ==
    [dir |-> dir, text |-> "", enabled |-> FALSE, all |-> <<>>, shown |-> <<>>, at |-> None, row |-> 0, steps |-> 0,
     rows |-> {}, chosen |-> {}, suggested |-> "", refreshed |-> FALSE, ok |-> TRUE]

(* The name to begin with is typed when the directory has been opened.     *)
WithName(v, text) == WithButton(TrySelectSuggested([v EXCEPT !.text = text, !.suggested = NameIn(text)]))

Init ==
    /\ \E disk \in Disks : store = [files |-> disk, readable |-> [d \in {Root, Home} |-> TRUE], time |-> 1]
    /\ \E mode \in Modes : session = [mode |-> mode, watched |-> {}, confirm |-> None, result |-> None, silent |-> {}]
    /\ \E text \in IF session.mode = "save" THEN {"", "a"} ELSE {""}, end \in EndsIn(Empty(Home), Home) :
           view = LET v == Directory(Empty(Home), Home, end) IN IF text = "" THEN v ELSE WithName(v, text)
    /\ signals = {}
    /\ done = "none"
    /\ failed = "no"
    /\ actions = 0

-----------------------------------------------------------------------------
(* What happens by itself                                                  *)

Runs == failed = "no" /\ session.result = None

StepCheckEntries ==
    /\ Runs /\ view.steps > 0
    /\ \E end \in Ends(view) : Outcome(Stepped([view EXCEPT !.steps = @ - 1], end))
    /\ done' = "step"
    /\ UNCHANGED <<store, session, signals, actions>>

(* _on_dir_modified: the new names are watched from now on.                *)
DirModified(v) ==
    LET all == Merged(v.all, Scan(v.dir))
    IN  /\ \E end \in Ends(Reset(v, all)) : Outcome(Stepped(Reset(v, all), end))
        /\ session' = [session EXCEPT !.watched = @ \cup (Present(v.dir) \ {v.all[i].name : i \in DOMAIN v.all}),
                                      !.silent = {}]

DirectoryChanged ==
    /\ Runs /\ "dir" \in signals
    /\ DirModified(view)
    /\ signals' = signals \ {"dir"}
    /\ done' = "refresh"
    /\ UNCHANGED <<store, actions>>

FileChanged ==
    /\ Runs
    /\ \E name \in signals \ {"dir"} :
          /\ IF name \in DOMAIN store.files[view.dir]
             THEN DirModified([view EXCEPT !.all = [i \in DOMAIN @ |-> [@[i] EXCEPT !.checked = @ /\ view.all[i].name # name]]])
             ELSE UNCHANGED <<view, failed>> /\ session' = [session EXCEPT !.watched = @ \ {name}]
          /\ signals' = signals \ {name}
    /\ done' = "refresh"
    /\ UNCHANGED <<store, actions>>

(* Others change the file system.                                          *)
Told(dir, name, isNew) ==
    IF dir # view.dir THEN {}
    ELSE (IF isNew THEN {"dir"} ELSE {}) \cup (IF name \in session.watched THEN {name} ELSE {})
CanChange == Runs /\ store.time <= MaxChanges /\ actions + store.time <= MaxActions
Changes(dir, files, told, silent) ==
    /\ store' = [store EXCEPT !.files[dir] = files, !.time = @ + 1]
    /\ signals' = signals \cup told
    /\ session' = [session EXCEPT !.silent = IF dir = view.dir THEN @ \cup silent ELSE @]
    /\ done' = "others"
    /\ UNCHANGED <<view, failed, actions>>

With(files, name, kind) ==
    [n \in DOMAIN files \cup {name} |-> IF n = name THEN [kind |-> kind, time |-> store.time + 1] ELSE files[n]]
WriteFile ==
    /\ CanChange
    /\ \E dir \in {view.dir}, name \in Files \ Hidden, kind \in WrittenKinds :
          Changes(dir, With(store.files[dir], name, kind), Told(dir, name, name \notin DOMAIN store.files[dir]),
                  IF name \in DOMAIN store.files[dir] \ session.watched THEN {name} ELSE {})
RemoveFile ==
    /\ CanChange
    /\ \E dir \in {view.dir} : \E name \in DOMAIN store.files[dir] \ Hidden :
          Changes(dir, [n \in DOMAIN store.files[dir] \ {name} |-> store.files[dir][n]], Told(dir, name, TRUE), {})
Forbid ==
    /\ CanChange /\ store.readable[Home]
    /\ store' = [store EXCEPT !.readable[Home] = FALSE, !.time = @ + 1]
    /\ signals' = signals \cup Told(Home, None, TRUE)
    /\ done' = "others"
    /\ UNCHANGED <<session, view, failed, actions>>

-----------------------------------------------------------------------------
(* Inputs                                                                  *)

CanAct == Runs /\ session.confirm = None /\ actions + store.time <= MaxActions
Acts(name) == actions' = actions + 1 /\ done' = name /\ UNCHANGED store
Stays2 == UNCHANGED <<session, signals>>

Click ==
    /\ CanAct
    /\ \E n \in Range(view.shown) : Outcome(SelectRows(view, {n}))
    /\ Acts("click") /\ Stays2

ClickMore ==
    /\ CanAct /\ session.mode = "open_mult"
    /\ \E n \in Range(view.shown) :
          Outcome(SelectRows(view, IF n \in view.rows THEN view.rows \ {n} ELSE view.rows \cup {n}))
    /\ Acts("click") /\ Stays2

Exists(dir, name) == name \in DOMAIN store.files[dir] \/ name = "" \/ (dir = Root /\ name = HomeName)

(* _on_select                                                              *)
Select(v) ==
    /\ view' = v
    /\ IF session.mode # "save"
       THEN /\ failed' = IF NamesOf(v.chosen) \cap Dirs # {} THEN "assert" ELSE failed
            /\ session' = [session EXCEPT !.result = [dir |-> v.dir, names |-> NamesOf(v.chosen)]]
       ELSE /\ session' = IF Exists(v.dir, NameIn(v.text))
                          THEN [session EXCEPT !.confirm = NameIn(v.text)]
                          ELSE [session EXCEPT !.result = [dir |-> v.dir, names |-> {NameIn(v.text)}]]
            /\ UNCHANGED failed
    /\ UNCHANGED signals

(* The button, or the return key in the field of the name.                 *)
PressSelect ==
    /\ CanAct /\ view.enabled
    /\ Select(view)
    /\ Acts("select")

(* A double click, or the return key: _commit_entries.                     *)
Commit ==
    /\ CanAct
    /\ IF view.chosen # {} /\ NamesOf(view.chosen) \subseteq Dirs
       THEN SetCurrentDir(IF NamesOf(view.chosen) = {".."} THEN Root ELSE Home)
       ELSE IF view.enabled THEN Select(view) ELSE UNCHANGED <<view, session, signals, failed>>
    /\ Acts("commit")

TypeName ==
    /\ CanAct /\ session.mode = "save"
    /\ \E text \in Typed \ {view.text} : Outcome(WithName(view, text))
    /\ Acts("type") /\ Stays2

(* The dialog that asks whether to overwrite a file.                       *)
Answer ==
    /\ Runs /\ session.confirm # None
    /\ \E yes \in BOOLEAN :
          session' = [session EXCEPT !.confirm = None,
                                     !.result = IF yes THEN [dir |-> view.dir, names |-> {session.confirm}] ELSE @]
    /\ done' = "answer"
    /\ UNCHANGED <<store, view, signals, failed, actions>>

FileOthers == WriteFile \/ RemoveFile \/ Forbid
FileInputs == Click \/ ClickMore \/ PressSelect \/ Commit \/ TypeName \/ Answer
Next == StepCheckEntries \/ DirectoryChanged \/ FileChanged \/ FileOthers \/ FileInputs

Spec == Init /\ [][Next]_vars

-----------------------------------------------------------------------------
FileDialogTypeOK ==
    /\ session.mode \in Modes
    /\ session.watched \subseteq Files \cup Dirs
    /\ view.dir \in {Root, Home}
    /\ view.rows \subseteq Range(view.shown)
    /\ view.at \in {None} \cup 1..Len(view.all) + 2
    /\ view.row \in 0..Len(view.shown)
    /\ view.steps \in Nat
    /\ signals \subseteq {"dir"} \cup Files
    /\ failed \in {"no", "assert"}

(* The list shows, in the order of the directory and once each, exactly    *)
(* the entries that are known to be offered; what has not been checked     *)
(* lies ahead of the checker (DirectoryModel._check_entries).              *)
ListingIsSound ==
    failed = "no" =>
        /\ \A i \in DOMAIN view.shown : i > 1 => Rank(view.shown[i - 1]) < Rank(view.shown[i])
        /\ Range(view.shown) = {e.name : e \in {e \in Range(view.all) :
                                    (e.kind = "dir" \/ (e.checked /\ e.visible)) /\ e.name \notin Hidden}}
        /\ \A i \in DOMAIN view.all :
               (view.all[i].kind # "dir" /\ ~view.all[i].checked) => (view.at # None /\ i >= view.at)

(* The list comes to show what the directory holds, and what the files     *)
(* are, when nothing is left to do; only a file that was rewritten without *)
(* notice may be shown as it was (DirectoryModel._on_dir_modified).        *)
ListingCatchesUp ==
    (failed = "no" /\ view.steps = 0 /\ signals = {}) =>
        /\ {view.all[i].name : i \in DOMAIN view.all} = Present(view.dir)
        /\ \A i \in DOMAIN view.all :
               view.all[i].name \notin session.silent \cup Dirs =>
                   view.all[i] = Filtered(view.dir, [Entry(view.dir, view.all[i].name) EXCEPT !.checked = TRUE])

(* The chosen entries are the ones highlighted, and are in the list, since *)
(* the selection last changed, unless the list was read again since        *)
(* (DirectoryView._on_selection_changed, get_entries).                     *)
ChoiceIsHighlighted ==
    view.refreshed \/ (NamesOf(view.chosen) = view.rows /\ \A c \in view.chosen : c[2])

(* The button that ends the dialog can be pressed just when there is       *)
(* something to return (FileDialog._update_select_enabled).                *)
ButtonFollowsChoice == view.enabled <=> IsEnabled(view)

(* A name in the field is that of the file that is highlighted, and a name *)
(* that is listed is highlighted (DirectoryView.select_file_name).         *)
NameIsHighlighted ==
    (session.mode = "save" /\ ~view.refreshed /\ NameIn(view.text) # "") =>
        (Range(view.shown) \cap {view.text} = view.rows)

(* The dialog returns one file, or some when it may, of the directory it   *)
(* shows, and no directory (FileDialog._return_infos).                     *)
ReturnsFiles ==
    session.result # None =>
        /\ session.result.names # {}
        /\ session.mode # "open_mult" => Cardinality(session.result.names) = 1
        /\ session.result.names \cap {"", ".."} = {}
        /\ session.result.dir = Root => HomeName \notin session.result.names

(* The assertions of the dialog hold: the checker keeps to the rows, and a *)
(* directory is chosen only alone.                                         *)
FileDialogHandlersSucceed == failed = "no"
=============================================================================
