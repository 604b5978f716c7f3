-------------------------- MODULE TrackerProcesses --------------------------
(***************************************************************************)
(* The tracker as processes: the user interface with its store, its        *)
(* windows and its tasks, the audio process, and the main process that     *)
(* joins them.  A module is loaded or a sandbox is made; the user edits,   *)
(* saves, imports and exports audio units and closes the main window.      *)
(*                                                                         *)
(* The user interface runs in one thread.  tick.pc is "idle" when the      *)
(* event loop may run an event: the timer that starts an update, a task,   *)
(* or a slot called for the user.  An update runs commands and then the    *)
(* actions of the signals, here one at a time.                             *)
(*                                                                         *)
(* An assertion that fails is shown by the crash dialog, and the program   *)
(* aborts when the user closes it; what runs behind that dialog is left    *)
(* out.                                                                    *)
(***************************************************************************)
EXTENDS AudioProcess, FiniteSets

CONSTANTS VersionKey,   \* the key start_save and start_export_au stamp
          GridKey,      \* the key that tells that the grid is hidden
          AuKeys,       \* the keys of the audio unit that is exported
          Edits,        \* the transactions the user may make
          QuietKeys,    \* the keys whose edits need not count as changes of the module
          Imports,      \* the transactions an imported audio unit may amount to
          SandboxData,  \* the first transaction of a new module
          Starts,       \* "load": a file is given on the command line; "sandbox": none is
          MaxActions,   \* bound: the edits, saves, imports, exports and interrupts
          CloseWhileBusy, \* whether the main window is closed while it is disabled
          Interrupts    \* whether the main process may be interrupted

ASSUME StampAssumption == VersionKey \in Keys /\ GridKey \in Keys /\ AuKeys \subseteq Keys
ASSUME QuietAssumption == QuietKeys \subseteq Keys
ASSUME StartsAssumption == Starts \subseteq {"load", "sandbox"}
ASSUME EditsAssumption == Edits \union Imports \union {SandboxData} \subseteq Transactions

VARIABLES store,    \* the store
          session,  \* [saving, importing, exporting, quitAfter]
          windows,  \* [enabled, progress, dialogs, visible]
          signals,  \* of the updater
          tasks,    \* the generators that wait for the task timer
          outQ, qState,   \* the queue of commands inside the user interface
          tick,     \* [pc, lists, cmds, sigs]: the update in progress
          main,     \* what the main process waits for
          failure,  \* the assertion that failed
          actions,  \* the number of things the user has done
          file,     \* what the last save wrote; None before
          log,      \* history: the transactions put and the module loaded, in order
          confirmed \* history: how many of them the store has adopted

uiVars == <<store, session, windows, signals, tasks, outQ, qState, tick>>
history == <<failure, actions, file, log, confirmed>>
vars == <<audioVars, uiVars, main, history>>

-----------------------------------------------------------------------------
(* Signals (updater.py): the names that wait for the next round of updates *)
(* (now), and those that were raised for a later moment (later).  A signal *)
(* raised twice is kept once, at its first place.                          *)
AppendNew(s, name) == IF \E i \in DOMAIN s : s[i] = name THEN s ELSE Append(s, name)

NoSignals == [now |-> <<>>, later |-> <<>>]

(* When nothing waits, what was raised for later goes first.               *)
SignalUpdate(s, name) ==
    IF s.now = <<>>
    THEN [now |-> AppendNew(s.later, name), later |-> <<>>]
    ELSE [s EXCEPT !.now = AppendNew(@, name)]

SignalUpdateDeferred(s, name) == [s EXCEPT !.later = AppendNew(@, name)]

(* The start of _perform_updates.                                          *)
TakeDeferred(s) == [now |-> s.later \o s.now, later |-> <<>>]

(* Several names are raised one after another.                             *)
Raise(name) == signals' = SignalUpdate(signals, name)
RaiseBoth(first, second) == signals' = SignalUpdate(SignalUpdate(signals, first), second)
RaiseAll(first, second, third) ==
    signals' = SignalUpdate(SignalUpdate(SignalUpdate(signals, first), second), third)

Running == tick.pc \notin {"crashed", "ended"}
EventLoop == tick.pc = "idle"
NoDialog == windows.dialogs = {} /\ ~windows.progress

Init ==
    /\ \/ /\ "load" \in Starts
          /\ store = NewStore
          /\ AudioInit(<<>>)
          /\ tasks = <<[op |-> "load"]>>
          /\ log = <<>>
       \/ /\ "sandbox" \in Starts
          /\ store = Put(NewStore, SandboxData, TRUE)
          /\ AudioInit(<<SetDataCommand(0, SandboxData)>>)
          /\ tasks = <<[op |-> "sandbox"]>>
          /\ log = <<SandboxData>>
    /\ confirmed = 0
    /\ session = [saving |-> FALSE, importing |-> FALSE, exporting |-> FALSE,
                  quitAfter |-> FALSE]
    /\ windows = [enabled |-> FALSE, progress |-> FALSE, dialogs |-> {}, visible |-> TRUE]
    /\ signals = NoSignals
    /\ outQ = <<>> /\ qState = "normal"
    /\ tick = [pc |-> "idle", lists |-> 0, cmds |-> <<>>, sigs |-> <<>>]
    /\ main = "join_ui"
    /\ failure = "none" /\ actions = 0 /\ file = None

(* An assertion fails, or an error of the audio process is raised.         *)
Crash(name) ==
    /\ failure' = name
    /\ tick' = [tick EXCEPT !.pc = "crashed"]
    /\ UNCHANGED <<audioVars, store, session, windows, signals, tasks, outQ, qState,
                   main, actions, file, log, confirmed>>

(* Store.put as its callers see it: the assertion, the store, the command. *)
StorePut(t, mark) ==
    /\ ~store.saving
    /\ store' = Put(store, t, mark)
    /\ audioQ' = Append(audioQ, SetDataCommand(store.nextId, t))
    /\ log' = Append(log, t)

PutFails == store.saving
Stamp == [k \in {VersionKey} |-> CHOOSE v \in Values : TRUE]

-----------------------------------------------------------------------------
(* What the user does.  A disabled window takes no input, nor one behind a *)
(* modal window.                                                           *)
UserMay ==
    /\ EventLoop /\ windows.enabled /\ NoDialog
    /\ actions < MaxActions

(* What is saved with the module but is hardly a part of it (the grid that *)
(* is shown, the notation, the random seed, which device is drawn on top)  *)
(* may be put without marking the module as modified.                      *)
MayMark(t, mark) == mark \/ DOMAIN t \subseteq QuietKeys

Edit(t) ==
    /\ UserMay
    /\ \E mark \in BOOLEAN : MayMark(t, mark) /\ StorePut(t, mark)
    /\ actions' = actions + 1
    /\ UNCHANGED <<inPending, inQ, engine, session, windows, signals, tasks, outQ, qState,
                   tick, main, failure, file, confirmed>>

EditFails == UserMay /\ PutFails /\ Edits # {} /\ Crash("put")

(* Module.start_save, reached from the menu or from the exit dialog.       *)
StartSave ==
    /\ ~session.saving /\ ~session.importing
    /\ StorePut(Stamp, FALSE)
    /\ session' = [session EXCEPT !.saving = TRUE, !.quitAfter = @ \/ "exit" \in windows.dialogs]
    /\ Raise("start_save")

Save ==
    /\ UserMay
    /\ StartSave
    /\ actions' = actions + 1
    /\ UNCHANGED <<inPending, inQ, engine, windows, tasks, outQ, qState, tick, main, failure,
                   file, confirmed>>

(* Module.start_import_au. *)
StartImport ==
    /\ UserMay
    /\ ~session.saving /\ ~session.importing
    /\ session' = [session EXCEPT !.importing = TRUE]
    /\ Raise("start_import_au")
    /\ actions' = actions + 1
    /\ UNCHANGED <<audioVars, store, windows, tasks, outQ, qState, tick, main, failure,
                   file, log, confirmed>>

(* AudioUnit.start_export_au: the store is closed for changes at once.     *)
StartExport ==
    /\ UserMay
    /\ ~session.saving /\ ~session.importing
    /\ ~store.saving
    /\ store' = SetSaving(Put(store, Stamp, FALSE), TRUE)
    /\ audioQ' = Append(audioQ, SetDataCommand(store.nextId, Stamp))
    /\ log' = Append(log, Stamp)
    /\ session' = [session EXCEPT !.saving = TRUE, !.exporting = TRUE]
    /\ Raise("start_export_au")
    /\ actions' = actions + 1
    /\ UNCHANGED <<inPending, inQ, engine, windows, tasks, outQ, qState, tick, main, failure,
                   file, confirmed>>

(* A second task is started before the first one is done.                  *)
StartFails == UserMay /\ (session.saving \/ session.importing) /\ Crash("start")

(* VisibilityManager.hide_main.                                            *)
HideMain ==
    /\ windows' = [windows EXCEPT !.visible = FALSE, !.dialogs = @ \ {"exit", "load_error"}]
    /\ Raise("visibility")

(* ExitHelper.try_exit: the close button, or Quit in the menu.  A disabled *)
(* main window can still be closed, also in the moment before the progress *)
(* window is shown over it; but no window is drawn before the task of a    *)
(* new module has run.                                                     *)
TryExit ==
    /\ EventLoop /\ windows.dialogs = {}
    /\ \A i \in DOMAIN tasks : tasks[i].op # "sandbox"
    /\ CloseWhileBusy \/ (windows.enabled /\ ~windows.progress)
    /\ IF store.modified
       THEN /\ windows' = [windows EXCEPT !.dialogs = {"exit"}]
            /\ UNCHANGED signals
       ELSE HideMain
    /\ UNCHANGED <<audioVars, store, session, tasks, outQ, qState, tick, main, history>>

ExitCancel ==
    /\ EventLoop /\ "exit" \in windows.dialogs
    /\ windows' = [windows EXCEPT !.dialogs = @ \ {"exit"}]
    /\ UNCHANGED <<audioVars, store, session, signals, tasks, outQ, qState, tick, main, history>>

ExitDiscard ==
    /\ EventLoop /\ "exit" \in windows.dialogs
    /\ HideMain
    /\ UNCHANGED <<audioVars, store, session, tasks, outQ, qState, tick, main, history>>

ExitSave ==
    /\ EventLoop /\ "exit" \in windows.dialogs
    /\ actions < MaxActions
    /\ StartSave
    /\ windows' = [windows EXCEPT !.dialogs = @ \ {"exit"}]
    /\ actions' = actions + 1
    /\ UNCHANGED <<inPending, inQ, engine, tasks, outQ, qState, tick, main, failure, file,
                   confirmed>>

ExitSaveFails ==
    /\ EventLoop /\ "exit" \in windows.dialogs
    /\ session.saving \/ session.importing
    /\ Crash("start")

(* The close button of an error dialog.  Closing the dialog of a module    *)
(* that did not load hides everything but raises no signal.                *)
CloseErrorDialog(d) ==
    /\ EventLoop
    /\ d \in windows.dialogs \ {"exit"}
    /\ CASE d = "load_error" ->
                /\ windows' = [windows EXCEPT !.dialogs = @ \ {d}, !.visible = FALSE]
                /\ UNCHANGED <<store, session>>
         [] d = "import_error" ->
                /\ windows' = [windows EXCEPT !.dialogs = @ \ {d}]
                /\ UNCHANGED <<store, session>>
         [] d \in {"save_error", "export_error"} ->
                /\ store' = SetSaving(store, FALSE)
                /\ session' = [session EXCEPT !.saving = FALSE]
                /\ windows' = [windows EXCEPT !.dialogs = @ \ {d}, !.enabled = TRUE]
    /\ UNCHANGED <<audioVars, signals, tasks, outQ, qState, tick, main, history>>

(* The crash dialog is closed: os.abort.                                   *)
CloseCrashDialog ==
    /\ tick.pc = "crashed"
    /\ tick' = [tick EXCEPT !.pc = "ended"]
    /\ UNCHANGED <<audioVars, store, session, windows, signals, tasks, outQ, qState, main,
                   history>>

-----------------------------------------------------------------------------
(* An update (UiLauncher.update).  First the commands: lists move from the *)
(* queue between the processes to the queue inside this one, and as many   *)
(* are taken from there as its size says.  Both sizes may lag behind.      *)
Terminates(list) == \E i \in DOMAIN list : list[i].op = "exception"

TickStart(moved, lists) ==
    /\ EventLoop
    /\ inQ # <<>> \/ outQ # <<>> \/ signals # NoSignals
    /\ outQ' = outQ \o SubSeq(inQ, 1, moved)
    /\ inQ' = SubSeq(inQ, moved + 1, Len(inQ))
    /\ qState' = IF \E i \in 1..moved : Terminates(inQ[i]) THEN "flushing" ELSE qState
    /\ tick' = [tick EXCEPT !.pc = "commands", !.lists = lists]
    /\ UNCHANGED <<audioQ, inPending, engine, store, session, windows, signals, tasks, main,
                   history>>

Tick == \E moved \in 0..Len(inQ) : \E lists \in 0..(Len(outQ) + moved) :
            TickStart(moved, lists)
FullTick == TickStart(Len(inQ), Len(outQ) + Len(inQ))

(* CommandQueue.get_commands. *)
NextList ==
    /\ tick.pc = "commands" /\ tick.cmds = <<>> /\ tick.lists > 0
    /\ outQ' = Tail(outQ)
    /\ qState' = IF Terminates(Head(outQ)) THEN "finished" ELSE qState
    /\ tick' = [tick EXCEPT !.lists = @ - 1, !.cmds = Head(outQ)]
    /\ UNCHANGED <<audioVars, store, session, windows, signals, tasks, main, history>>

Command == Head(tick.cmds)
IsNext(op) == tick.pc = "commands" /\ tick.cmds # <<>> /\ Command.op = op
CommandDone == tick' = [tick EXCEPT !.cmds = Tail(@)]
NextCommand(op) == IsNext(op) /\ CommandDone

(* Store.confirm_valid_data of a flush token: RootView._execute_save_module *)
(* or _execute_export_au.                                                  *)
ConfirmFlush ==
    /\ NextCommand("confirm_valid_data")
    /\ IsFlush(store, Command.id)
    /\ IF FlushCall(store, Command.id) = "save"
       THEN /\ store' = SetSaving(FlushDone(store, Command.id), TRUE)
            /\ tasks' = Append(tasks, [op |-> "save"])
            /\ UNCHANGED session
       ELSE /\ store' = FlushDone(store, Command.id)
            /\ session' = [session EXCEPT !.exporting = FALSE]
            /\ tasks' = Append(tasks, [op |-> "export"])
    /\ UNCHANGED <<audioVars, windows, signals, outQ, qState, main, history>>

Confirm ==
    /\ IsNext("confirm_valid_data")
    /\ ~IsFlush(store, Command.id)
    /\ IF CanConfirm(store, Command.id)
       THEN /\ CommandDone
            /\ store' = ConfirmValidData(store, Command.id)
            /\ confirmed' = confirmed + 1
            /\ UNCHANGED <<audioVars, session, windows, signals, tasks, outQ, qState, main,
                           failure, actions, file, log>>
       ELSE Crash("confirm")

(* Store.update_transaction_progress; the notifiers are those of           *)
(* _get_transaction_notifier.                                              *)
Progress ==
    /\ NextCommand("progress")
    /\ IF Command.id \in store.notifiers THEN Raise("progress_step") ELSE UNCHANGED signals
    /\ UNCHANGED <<audioVars, store, session, windows, tasks, outQ, qState, main, history>>

ProgressDone ==
    /\ NextCommand("progress_done")
    /\ IF Command.id \in store.notifiers
       THEN /\ store' = [store EXCEPT !.notifiers = @ \ {Command.id}]
            /\ RaiseBoth("progress_finished", "au_import_finished")
       ELSE UNCHANGED <<store, signals>>
    /\ UNCHANGED <<audioVars, session, windows, tasks, outQ, qState, main, history>>

ImportProgress ==
    /\ NextCommand("import_progress")
    /\ Raise("progress_step")
    /\ UNCHANGED <<audioVars, store, session, windows, tasks, outQ, qState, main, history>>

(* Controller.add_imported_entry and Store.put_raw. *)
ImportedEntry ==
    /\ IsNext("entry")
    /\ IF store.saving \/ store.pending # <<>>
       THEN Crash("put_raw")
       ELSE /\ CommandDone
            /\ store' = PutRaw(store, [k \in {Command.key} |-> Command.value])
            /\ UNCHANGED <<audioVars, session, windows, signals, tasks, outQ, qState, main,
                           history>>

(* Controller.notify_import_error. *)
ImportError ==
    /\ NextCommand("import_error")
    /\ RaiseBoth("load_error", "progress_finished")
    /\ UNCHANGED <<audioVars, store, session, windows, tasks, outQ, qState, main, history>>

(* Controller.notify_import_finished.  A module that hides its grid has    *)
(* the key put again, unmarked (SheetManager.set_grid_enabled).            *)
ImportFinished ==
    /\ NextCommand("import_finished")
    /\ RaiseBoth("module", "progress_finished")
    /\ LET cleared == ClearModified(store)
           hidden == [k \in {GridKey} |-> store.content[GridKey]]
       IN IF View(store)[GridKey] = None
          THEN /\ store' = cleared /\ log' = log /\ UNCHANGED audioQ
          ELSE /\ ~store.saving
               /\ store' = Put(cleared, hidden, FALSE)
               /\ audioQ' = Append(audioQ, SetDataCommand(store.nextId, hidden))
               /\ log' = Append(log, hidden)
    /\ confirmed' = confirmed + 1
    /\ UNCHANGED <<inPending, inQ, engine, session, windows, tasks, outQ, qState, main,
                   failure, actions, file>>

(* notify_kunquat_exception and notify_libkunquat_error raise the error.   *)
ExceptionShown ==
    /\ tick.pc = "commands" /\ tick.cmds # <<>> /\ Command.op = "exception"
    /\ Crash("exception")

(* UiLauncher.halt_ui; the lists that were not taken yet wait.             *)
HaltUi ==
    /\ tick.pc = "commands" /\ tick.cmds # <<>> /\ Command.op = "halt"
    /\ HideMain
    /\ tick' = [tick EXCEPT !.lists = 0, !.cmds = <<>>]
    /\ UNCHANGED <<audioVars, store, session, tasks, outQ, qState, main, history>>

CommandStep ==
    \/ NextList
    \/ ConfirmFlush \/ Confirm \/ Progress \/ ProgressDone
    \/ ImportProgress \/ ImportedEntry \/ ImportError \/ ImportFinished
    \/ ExceptionShown \/ HaltUi

-----------------------------------------------------------------------------
(* The second half of an update: the actions of the signals.  The helper   *)
(* of the exit dialog registers its actions before the root view does.  A  *)
(* signal may be there twice, once deferred: its actions are called once,  *)
(* but only "visibility" is ever deferred, and a second call for it does   *)
(* what the first one did.                                                 *)
StartUpdates ==
    /\ tick.pc = "commands" /\ tick.cmds = <<>> /\ tick.lists = 0
    /\ LET taken == TakeDeferred(signals)
       IN /\ tick' = [tick EXCEPT !.pc = "updates", !.sigs = taken.now]
          /\ signals' = [taken EXCEPT !.now = <<>>]
    /\ UNCHANGED <<audioVars, store, session, windows, tasks, outQ, qState, main, history>>

OnSignal(name) ==
    /\ tick.pc = "updates" /\ tick.sigs # <<>> /\ Head(tick.sigs) = name

SignalDone == tick' = [tick EXCEPT !.sigs = Tail(@)]

FlushStore(call) ==
    /\ store' = Flush(store, call)
    /\ audioQ' = Append(audioQ, SetDataCommand(store.nextId, None))

(* Wrong: the data is saved without a flush.                               *)
OnStartUnflushed(name, call) ==
    /\ OnSignal(name) /\ SignalDone
    /\ windows' = [windows EXCEPT !.enabled = FALSE]
    /\ store' = SetSaving(store, TRUE)
    /\ tasks' = Append(tasks, [op |-> call])
    /\ UNCHANGED <<audioVars, session, signals, outQ, qState, main, history>>

OnStart(name, call) ==
    /\ OnSignal(name) /\ SignalDone
    /\ windows' = [windows EXCEPT !.enabled = FALSE]
    /\ FlushStore(call)
    /\ UNCHANGED <<inPending, inQ, engine, session, signals, tasks, outQ, qState, main, history>>

OnStartSave == OnStart("start_save", "save")
OnStartExport == OnStart("start_export_au", "export")

OnStartImport ==
    /\ OnSignal("start_import_au") /\ SignalDone
    /\ windows' = [windows EXCEPT !.enabled = FALSE]
    /\ tasks' = Append(tasks, [op |-> "import"])
    /\ UNCHANGED <<audioVars, store, session, signals, outQ, qState, main, history>>

OnSaveFinished ==
    /\ OnSignal("save_finished") /\ SignalDone
    /\ store' = SetSaving(ClearModified(store), FALSE)
    /\ session' = [session EXCEPT !.saving = FALSE]
    /\ windows' = [windows EXCEPT !.enabled = TRUE, !.visible = @ /\ ~session.quitAfter]
    /\ signals' = IF session.quitAfter
                  THEN SignalUpdateDeferred(signals, "visibility") ELSE signals
    /\ UNCHANGED <<audioVars, tasks, outQ, qState, main, history>>

OnExportFinished ==
    /\ OnSignal("export_finished") /\ SignalDone
    /\ store' = SetSaving(store, FALSE)
    /\ session' = [session EXCEPT !.saving = FALSE]
    /\ windows' = [windows EXCEPT !.enabled = TRUE]
    /\ UNCHANGED <<audioVars, signals, tasks, outQ, qState, main, history>>

OnImportFinished ==
    /\ OnSignal("au_import_finished") /\ SignalDone
    /\ session' = [session EXCEPT !.importing = FALSE]
    /\ windows' = [windows EXCEPT !.enabled = TRUE]
    /\ UNCHANGED <<audioVars, store, signals, tasks, outQ, qState, main, history>>

ErrorSignals == {"load_error", "save_error", "export_error", "import_error"}

OnError ==
    /\ \E name \in ErrorSignals :
        /\ OnSignal(name) /\ SignalDone
        /\ windows' = [windows EXCEPT !.dialogs = @ \union {name}]
        /\ session' = [session EXCEPT !.quitAfter = @ /\ name # "save_error"]
    /\ UNCHANGED <<audioVars, store, signals, tasks, outQ, qState, main, history>>

OnModule ==
    /\ OnSignal("module") /\ SignalDone
    /\ windows' = [windows EXCEPT !.enabled = TRUE]
    /\ UNCHANGED <<audioVars, store, session, signals, tasks, outQ, qState, main, history>>

(* The assertions of the progress window: it is shown once at a time, and  *)
(* stepped and hidden only while it is there.                              *)
OnProgress ==
    \E name \in {"progress_start", "progress_step", "progress_finished"} :
        /\ OnSignal(name)
        /\ IF windows.progress = (name # "progress_start")
           THEN /\ SignalDone
                /\ windows' = [windows EXCEPT !.progress = (name # "progress_finished")]
                /\ UNCHANGED <<audioVars, store, session, signals, tasks, outQ, qState, main,
                               history>>
           ELSE Crash("progress")

(* RootView._update_visibility quits when no window is left; what the rest *)
(* of this update would do is left out then.                               *)
OnVisibility ==
    /\ OnSignal("visibility")
    /\ IF windows.visible THEN SignalDone ELSE tick' = [tick EXCEPT !.pc = "ended"]
    /\ UNCHANGED <<audioVars, store, session, windows, signals, tasks, outQ, qState, main,
                   history>>

EndTick ==
    /\ tick.pc = "updates" /\ tick.sigs = <<>>
    /\ tick' = [tick EXCEPT !.pc = "idle"]
    /\ UNCHANGED <<audioVars, store, session, windows, signals, tasks, outQ, qState, main,
                   history>>

SignalStep ==
    \/ StartUpdates
    \/ OnStartSave \/ OnStartExport \/ OnStartImport
    \/ OnSaveFinished \/ OnExportFinished \/ OnImportFinished
    \/ OnError \/ OnModule \/ OnProgress \/ OnVisibility
    \/ EndTick

-----------------------------------------------------------------------------
(* Tasks (UiLauncher._execute_tasks): the first one runs to its next yield *)
(* and stays first until it is done.                                       *)
TaskTurn(op) == EventLoop /\ tasks # <<>> /\ Head(tasks).op = op
TaskDone == tasks' = Tail(tasks)
TaskYields(task) == tasks' = <<task>> \o Tail(tasks)
TaskUnchanged == UNCHANGED <<inPending, inQ, engine, session, windows, outQ, qState, tick, main,
                             failure, actions, confirmed>>

(* get_task_load_module. *)
LoadTask ==
    /\ TaskTurn("load")
    /\ Raise("progress_start")
    /\ audioQ' = Append(audioQ, LoadCommand)
    /\ log' = Append(log, ModuleData)
    /\ TaskDone
    /\ TaskUnchanged /\ UNCHANGED <<store, file>>

(* finalise_create_sandbox; the key it puts stands in SandboxData.         *)
SandboxTask ==
    /\ TaskTurn("sandbox")
    /\ store' = ClearModified(store)
    /\ Raise("module")
    /\ TaskDone
    /\ TaskUnchanged /\ UNCHANGED <<audioQ, file, log>>

(* get_task_save_module and get_task_export_audio_unit: the keys are listed *)
(* once, and one is written in each turn.                                  *)
Written(op) == IF op = "save" THEN ListedKeys(store) ELSE ListedKeys(store) \intersect AuKeys
WriteTask == EventLoop /\ tasks # <<>> /\ Head(tasks).op \in {"save", "export"}
Writing == Head(tasks)
ErrorOf(op) == IF op = "save" THEN "save_error" ELSE "export_error"
FinishedOf(op) == IF op = "save" THEN "save_finished" ELSE "export_finished"

StartWriting ==
    /\ WriteTask /\ "todo" \notin DOMAIN Writing
    /\ Raise("progress_start")
    /\ TaskYields([op |-> Writing.op, todo |-> Written(Writing.op), got |-> [k \in {} |-> None]])
    /\ TaskUnchanged /\ UNCHANGED <<audioQ, store, file, log>>

(* The file may not be written, or the finished file may not be moved.     *)
WriteError ==
    /\ WriteTask
    /\ "todo" \in DOMAIN Writing => Writing.todo = {}
    /\ IF "todo" \in DOMAIN Writing
       THEN RaiseBoth(ErrorOf(Writing.op), "progress_finished")
       ELSE RaiseAll("progress_start", ErrorOf(Writing.op), "progress_finished")
    /\ TaskDone
    /\ TaskUnchanged /\ UNCHANGED <<audioQ, store, file, log>>

(* The next key is written; KeyError: a key that was listed has no value.  *)
WriteKey ==
    /\ WriteTask /\ "todo" \in DOMAIN Writing
    /\ \E k \in Writing.todo :
        IF View(store)[k] = None
        THEN Crash("key")
        ELSE /\ TaskYields([Writing EXCEPT !.todo = @ \ {k},
                                           !.got = [j \in DOMAIN @ \union {k} |->
                                                     IF j = k THEN View(store)[k] ELSE @[j]]])
             /\ Raise("progress_step")
             /\ TaskUnchanged /\ UNCHANGED <<audioQ, store, file, log>>

FinishWriting ==
    /\ WriteTask /\ "todo" \in DOMAIN Writing /\ Writing.todo = {}
    /\ RaiseBoth("progress_finished", FinishedOf(Writing.op))
    /\ file' = IF Writing.op = "save" THEN Writing.got ELSE file
    /\ TaskDone
    /\ TaskUnchanged /\ UNCHANGED <<audioQ, store, log>>

(* get_task_load_audio_unit: the file is read and validated in a few       *)
(* turns, and put with a notifier.                                         *)
StartImportTask ==
    /\ TaskTurn("import") /\ "begun" \notin DOMAIN Head(tasks)
    /\ Raise("progress_start")
    /\ TaskYields([op |-> "import", begun |-> TRUE])
    /\ TaskUnchanged /\ UNCHANGED <<audioQ, store, file, log>>

(* Wrong: an import that fails is not finished.                            *)
ImportTaskUnfinished ==
    /\ TaskTurn("import") /\ "begun" \in DOMAIN Head(tasks)
    /\ RaiseBoth("import_error", "progress_finished")
    /\ TaskDone
    /\ TaskUnchanged /\ UNCHANGED <<audioQ, store, file, log>>

ImportTaskError ==
    /\ TaskTurn("import") /\ "begun" \in DOMAIN Head(tasks)
    /\ RaiseAll("import_error", "au_import_finished", "progress_finished")
    /\ TaskDone
    /\ TaskUnchanged /\ UNCHANGED <<audioQ, store, file, log>>

ImportTaskPut ==
    /\ TaskTurn("import") /\ "begun" \in DOMAIN Head(tasks)
    /\ ~store.saving
    /\ \E t \in Imports :
        /\ store' = PutNotify(store, t)
        /\ audioQ' = Append(audioQ, SetDataCommand(store.nextId, t))
        /\ log' = Append(log, t)
    /\ TaskDone
    /\ TaskUnchanged /\ UNCHANGED <<signals, file>>

TaskStep ==
    \/ LoadTask \/ SandboxTask
    \/ StartWriting \/ WriteError \/ WriteKey \/ FinishWriting
    \/ StartImportTask \/ ImportTaskError \/ ImportTaskPut

-----------------------------------------------------------------------------
(* The main process (Tracker.main): it waits for the user interface, asks  *)
(* both processes to stop, and waits for them.                             *)
MainUnchanged == UNCHANGED <<inPending, engine, uiVars, failure, file, log, confirmed>>

MainHalts ==
    /\ main = "join_ui"
    /\ \/ tick.pc = "ended" /\ UNCHANGED actions
       \/ Interrupts /\ actions < MaxActions /\ actions' = actions + 1
    /\ main' = "join_both"
    /\ inQ' = Append(inQ, <<Reply("halt")>>)
    /\ audioQ' = Append(audioQ, HaltCommand)
    /\ MainUnchanged

MainDone ==
    /\ main = "join_both" /\ tick.pc = "ended" /\ ~engine.alive
    /\ main' = "done"
    /\ UNCHANGED <<audioQ, inQ, actions>> /\ MainUnchanged

Stopped == main = "done" /\ UNCHANGED vars

AudioStep == AudioNext /\ UNCHANGED <<uiVars, main, history>>

UserStep ==
    \/ \E t \in Edits : Edit(t)
    \/ EditFails \/ Save \/ StartImport \/ StartExport \/ StartFails
    \/ TryExit \/ ExitCancel \/ ExitDiscard \/ ExitSave \/ ExitSaveFails
    \/ \E d \in windows.dialogs : CloseErrorDialog(d)

Next ==
    \/ AudioStep
    \/ UserStep \/ CloseCrashDialog
    \/ Tick \/ CommandStep \/ SignalStep \/ TaskStep
    \/ MainHalts \/ MainDone \/ Stopped

(* The audio process runs, though nothing says that it fails.  The event   *)
(* loop serves the timers of updates and tasks, and now and then an update *)
(* sees all that was sent.  The user is not obliged to do anything.        *)
AudioWorks == AudioWork /\ UNCHANGED <<uiVars, main, history>>
AudioEnds == EndAudio /\ UNCHANGED <<uiVars, main, history>>

Spec == Init /\ [][Next]_vars
FairSpec ==
    /\ Spec
    /\ WF_vars(AudioWorks) /\ WF_vars(AudioEnds)
    /\ WF_vars(CommandStep) /\ WF_vars(SignalStep)
    /\ SF_vars(FullTick) /\ SF_vars(TaskStep)
    /\ WF_vars(tick.pc = "ended" /\ MainHalts) /\ WF_vars(MainDone)

-----------------------------------------------------------------------------
(* TypeOK: the variables have the shapes that the comments above give, and *)
(* every number that waits was given out once.                             *)
Stores == [content : Contents, pending : Seq([id : Nat, data : Transactions]), nextId : Nat,
           notifiers : SUBSET Nat, flushes : SUBSET [id : Nat, call : {"save", "export"}],
           saving : BOOLEAN, modified : BOOLEAN]
Sessions == [saving : BOOLEAN, importing : BOOLEAN, exporting : BOOLEAN, quitAfter : BOOLEAN]
Windows == [enabled : BOOLEAN, progress : BOOLEAN, visible : BOOLEAN,
            dialogs : SUBSET (ErrorSignals \union {"exit"})]
SignalNames ==
    {"start_save", "start_export_au", "start_import_au", "save_finished", "export_finished",
     "au_import_finished", "module", "visibility",
     "progress_start", "progress_step", "progress_finished"} \union ErrorSignals
SignalLists == [now : Seq(SignalNames), later : Seq(SignalNames)]
Tasks ==
    [op : {"load", "sandbox", "save", "export", "import"}]
    \union [op : {"import"}, begun : {TRUE}]
    \union [op : {"save", "export"}, todo : SUBSET Keys, got : Transactions]
Ticks == [pc : {"idle", "commands", "updates", "crashed", "ended"}, lists : Nat,
          cmds : Seq(Replies), sigs : Seq(SignalNames)]

NumbersAreNew(st) ==
    /\ \A i, j \in DOMAIN st.pending : i < j => st.pending[i].id < st.pending[j].id
    /\ \A i \in DOMAIN st.pending : st.pending[i].id < st.nextId /\ ~IsFlush(st, st.pending[i].id)
    /\ \A f \in st.flushes : f.id < st.nextId

TypeOK ==
    /\ store \in Stores /\ NumbersAreNew(store)
    /\ AudioTypeOK
    /\ session \in Sessions /\ windows \in Windows
    /\ signals \in SignalLists
    /\ tasks \in Seq(Tasks)
    /\ outQ \in Seq(Seq(Replies)) /\ qState \in {"normal", "flushing", "finished"}
    /\ tick \in Ticks /\ tick.lists <= Len(outQ)
    /\ main \in {"join_ui", "join_both", "done"}
    /\ failure \in {"none", "put", "start", "confirm", "put_raw", "key", "progress", "exception"} /\ actions \in Nat
    /\ file \in Transactions \union {None}
    /\ log \in Seq(Transactions) /\ confirmed \in Nat

(* ProtocolAssertionsHold: the audio process confirms transactions in the  *)
(* order in which the store sent them, no module entry arrives while a     *)
(* transaction is pending or a file is saved, every key that a save listed *)
(* still has a value when it is written, and the progress window is        *)
(* started, stepped and finished in turn, whatever is saved, imported or   *)
(* loaded meanwhile.  These are the assertions of store.py and rootview.py *)
(* that the two processes can only keep together.                          *)
ProtocolAssertionsHold == failure \notin {"confirm", "put_raw", "key", "progress"}

(* ViewMatchesEngine: as soon as the user may edit, what the store answers *)
(* (the latest pending value, or else the confirmed one) is what the audio *)
(* process will hold when it has run the commands that wait for it; one    *)
(* that died of an exception runs no commands.                             *)
ViewMatchesEngine ==
    (Running /\ windows.enabled /\ (AudioFails => engine.alive)) => View(store) = Upcoming

(* ProcessesAgree: the messages between the processes come as both sides   *)
(* assume, and so the user sees what will be heard.                        *)
ProcessesAgree == TypeOK /\ ProtocolAssertionsHold /\ ViewMatchesEngine

(* SavedDataIsValidated: while a module is being written nothing is        *)
(* pending, and the store holds exactly what the audio process validated.  *)
SavedDataIsValidated ==
    (Running /\ WriteTask /\ Writing.op = "save") =>
        store.pending = <<>> /\ store.content = engine.data

(* The signals that wait, in this update or for a later one.               *)
NamesIn(s) == {s[i] : i \in DOMAIN s}
Names(sig) == NamesIn(sig.now) \union NamesIn(sig.later)
Raised == Names(signals) \union NamesIn(tick.sigs)
SaveAnnounced == "save_finished" \in Raised

FileShows(S) == \A k \in S : View(store)[k] = IF k \in DOMAIN file THEN file[k] ELSE None

(* SavedFileIsCurrent: when a save is announced the module is the one in   *)
(* the file, and an unmodified module that was saved still is, but for the *)
(* keys that are put without a mark, also after edits, imports and exports *)
(* before and after.                                                       *)
SavedFileIsCurrent ==
    (Running /\ file # None) =>
        /\ SaveAnnounced => FileShows(Keys)
        /\ ~store.modified => FileShows(Keys \ QuietKeys)

(* SavedFileIsSound: what a save writes was validated in full, and what is *)
(* shown as saved can be loaded again as it is.                            *)
SavedFileIsSound == SavedDataIsValidated /\ SavedFileIsCurrent

(* QuietIsUsable: when no task, command, signal or flush is left and no    *)
(* dialog is open, no job is left half done: the windows are enabled, the  *)
(* store can be edited, another job can start.  (A module that did not     *)
(* load leaves the program disabled, waiting to be closed.)                *)
NothingLeft ==
    /\ EventLoop /\ tasks = <<>> /\ inQ = <<>> /\ outQ = <<>> /\ inPending = <<>>
    /\ audioQ = <<>> /\ ~Busy /\ engine.alive /\ engine.ready
    /\ signals = NoSignals /\ windows.dialogs = {}
QuietIsUsable ==
    NothingLeft =>
        /\ windows.enabled /\ ~windows.progress
        /\ ~session.saving /\ ~session.importing /\ ~session.exporting /\ ~store.saving
        /\ store.pending = <<>> /\ store.flushes = {} /\ store.notifiers = {}

(* The store and the audio process implement a log that is validated and   *)
(* then adopted in order; a file is written of what was adopted in full.   *)
Replicated ==
    INSTANCE Replica WITH
        leader <- engine.validated,
        follower <- confirmed,
        content <- IF confirmed = 0 THEN NewStore.content ELSE store.content,
        saved <- IF file = None THEN None
                 ELSE [k \in Keys |-> IF k \in DOMAIN file THEN file[k] ELSE None]

(* ImplementsReplica: every step of the processes is a step of Replica or  *)
(* leaves its state alone.                                                 *)
ImplementsReplica == Replicated!Spec

(* PendingIsConfirmed: what the user puts is adopted, unless a process     *)
(* ends first.                                                             *)
PendingIsConfirmed == (store.pending # <<>>) ~> (store.pending = <<>> \/ ~Running)

(* JobsEnd: a save or an export ends, or asks the user to close a dialog.  *)
JobsEnd == session.saving ~> (~session.saving \/ windows.dialogs # {} \/ ~Running)

(* FailureIsShown: when the audio process dies the user interface says so. *)
FailureIsShown == (~engine.alive /\ main = "join_ui") ~> ~Running

(* ProcessesEnd: when the user interface ends, the program ends.           *)
ProcessesEnd == (tick.pc = "ended") ~> (main = "done")

(* EndsAreNoticed: neither process outlives the other unnoticed, whichever *)
(* of them ends first and in whatever state.                               *)
EndsAreNoticed == FailureIsShown /\ ProcessesEnd
=============================================================================
