-------------------------------- MODULE Themes --------------------------------
(***************************************************************************)
(* The settings (views/settings.py): the appearance themes with their      *)
(* cache (model/stylemanager.py), the configuration and the theme files    *)
(* (config.py), saved in steps of which any may fail or be the last one    *)
(* before the program is killed, and the program started again.            *)
(*                                                                         *)
(* A name is a sequence of parts: 1 is a letter, 11 the same in upper      *)
(* case, 2 "copy of", 3 "custom theme", 4 "default", 5 "new theme",        *)
(* 6 a theme that comes with the program, below 0 the digits that tell     *)
(* equal names apart.  The empty sequence is the configuration file.       *)
(* Inputs come when the signals of the last one have been followed.        *)
(***************************************************************************)
EXTENDS Integers, Sequences, FiniteSets, SequencesExt, Functions, TLC

CONSTANTS None,
          Colours,       \* keys of the colours
          Values,        \* of all keys
          DefaultValue,  \* [keys -> Values]
          Stock,         \* the theme that comes with the program
          Typed,         \* names typed for a theme
          DirTexts,      \* texts typed for a directory
          Faults,        \* [at, how, dead]: the save that goes wrong, where, and whether the program dies
          Beginnings,    \* sets of files
          MaxStarts, MaxActions   \* bounds of the model

VARIABLES store,     \* [disk, starts, faults], and history variables [meant, harmed, kept, tried]
          session,   \* [on, config, modified, cache, font]
          view,      \* [rows, row, custom, style, dir, chord, editor]
          signals, done, failed, actions

vars == <<store, session, view, signals, done, failed, actions>>

Keys == Colours \cup {"font", "slider"}
NoFault == [at |-> 0, how |-> "none", dead |-> FALSE]

-----------------------------------------------------------------------------
(* Files: what is at the path, and at the path with "_.old"                *)

ConfigFile == <<>>
NoFile == [main |-> None, old |-> None]
FileOf(disk, n) == IF n \in DOMAIN disk THEN disk[n] ELSE NoFile
WithFile(disk, n, f) == IF f = NoFile THEN Restrict(disk, DOMAIN disk \ {n}) ELSE (n :> f) @@ disk
ThemeNames(disk) == {n \in DOMAIN disk : n # ConfigFile /\ disk[n].main # None}

(* Wrong: the old file is not looked for.                                  *)
ReadMain(disk, n) == FileOf(disk, n).main
Read(disk, n) ==
    LET f == FileOf(disk, n)
    IN  IF f.main # None THEN f.main ELSE f.old

(* d is [store, cache, fault, saves, ok, got]: what the handlers change.   *)
(* _save_file: the new file is written, the old one is put aside, the new  *)
(* one takes its place, the old one goes.                                  *)
Broken(how, f, data) ==
    CASE how = "write" -> f
      [] how = "moved" -> IF f.main = None THEN f ELSE [main |-> None, old |-> f.main]
      [] how = "left"  -> [main |-> data, old |-> IF f.main = None THEN f.old ELSE f.main]

Dead(d) == d.saves = d.fault.at /\ d.fault.dead
Saved(d, n, data) ==
    LET f == FileOf(d.store.disk, n)
        breaks == d.saves + 1 = d.fault.at
        g == IF breaks THEN Broken(d.fault.how, f, data) ELSE [main |-> data, old |-> None]
    IN  IF Dead(d) THEN d
        ELSE [d EXCEPT !.store.disk = WithFile(@, n, g), !.saves = @ + 1, !.ok = ~breaks,
                       !.store.harmed = IF breaks THEN @ \cup {n} ELSE @]

-----------------------------------------------------------------------------
(* Themes and their cache                                                  *)

NoTheme == [k \in Keys \cup {"name"} |-> None]
DefaultTheme == <<"default", <<4>>>>
Custom(n) == <<"custom", n>>
IsCustom(id) == id[1] = "custom"
Orderly(ids) ==
    LET Before(a, b) ==
            \E i \in 1..Len(b) :
                /\ \A j \in 1..i - 1 : j <= Len(a) /\ a[j] = b[j]
                /\ i > Len(a) \/ a[i] < b[i]
    IN  SetToSortSeq(ids, LAMBDA p, q : Before(p[2], q[2]))
ThemeIds(disk) ==
    Orderly({Custom(n) : n \in ThemeNames(disk)}) \o <<DefaultTheme, Stock.id>>

Loaded(disk, n) == LET data == Read(disk, n) IN IF data = None THEN NoTheme ELSE data
ConfigDefaults == [k \in Keys \cup {"name"} |-> IF k = "name" THEN None ELSE DefaultValue[k]]
Filled(data, keys) == [k \in Keys \cup {"name"} |-> IF k \in keys /\ data[k] = None THEN DefaultValue[k] ELSE data[k]]
StyleOf(data) == [k \in Keys |-> IF data[k] = None THEN DefaultValue[k] ELSE data[k]]

(* try_flush_cached_style: what could not be saved stays marked.           *)
Marked(d) == [d EXCEPT !.cache.modified = ~d.ok]
Flushed(d) ==
    IF d.cache.id = None \/ ~d.cache.modified THEN d
    ELSE [Marked(Saved(d, d.cache.id[2], d.cache.data)) EXCEPT !.store.harmed = d.store.harmed]
(* What is lost with the cache.                                            *)
Unsaved(d) == IF d.cache.modified THEN {d.cache.id[2]} ELSE {}

Cached(d, id, data) ==
    LET flushed == Flushed(d)
    IN  [flushed EXCEPT !.cache.id = id, !.cache.data = data, !.store.harmed = @ \cup Unsaved(flushed)]

(* get_theme_data                                                          *)
WithData(d, id, cache) ==
    IF id = Stock.id THEN [d EXCEPT !.got = Stock.data]
    ELSE IF id = DefaultTheme THEN [d EXCEPT !.got = [ConfigDefaults EXCEPT !["name"] = <<4>>]]
    ELSE IF d.cache.id = id THEN [d EXCEPT !.got = d.cache.data]
    ELSE LET data == Loaded(d.store.disk, id[2])
         IN  [(IF cache THEN Cached(d, id, data) ELSE d) EXCEPT !.got = data]

(* set_style_param                                                         *)
Changed(data, key, value) ==
    LET set == [data EXCEPT ![key] = value]
    IN  IF key \in Colours THEN Filled(set, Colours) ELSE set
Styled(d, id, key, value) ==
    LET flushed == IF d.cache.id # id THEN Flushed(d) ELSE d
        read == WithData(flushed, id, TRUE)
    IN  [read EXCEPT !.cache = [id |-> id, data |-> Changed(read.got, key, value), modified |-> TRUE],
                     !.store.meant[id[2]] = Changed(@, key, value)]

(* make_theme_name                                                         *)
Plain(name) == [i \in DOMAIN name |-> name[i] % 10]
Unique(disk, name) ==
    LET plain == Plain(name)
        numbered == [i \in 1..Cardinality(ThemeNames(disk)) + 1 |-> plain \o <<i - 10>>]
        free == {i \in DOMAIN numbered : numbered[i] \notin ThemeNames(disk)}
    IN  IF plain \notin ThemeNames(disk) THEN plain
        ELSE numbered[CHOOSE i \in free : \A j \in free : i <= j]

(* create_new_theme, as far as the new theme; what its base is meant to be *)
(* is known of the custom ones.                                            *)
Created(d, id) ==
    LET base == WithData(d, id, FALSE)
        meant == IF IsCustom(id) THEN d.store.meant[id[2]] ELSE base.got
        name == IF base.got["name"] = None THEN <<5>> ELSE <<2>> \o base.got["name"]
        Made(data) == [Filled(data, Keys) EXCEPT !["name"] = name]
        n == Unique(d.store.disk, name)
        marked == [base EXCEPT !.store.meant = (n :> Made(meant)) @@ @,
                               !.store.harmed = IF id[2] \in @ THEN @ \cup {n} ELSE @]
    IN  [Saved(marked, n, Made(base.got)) EXCEPT !.got = Custom(n)]

(* set_theme_name_and_get_new_id                                           *)
Moved(disk, old, new) ==
    WithFile(WithFile(disk, new, [FileOf(disk, new) EXCEPT !.main = disk[old].main]),
             old, [disk[old] EXCEPT !.main = None])
Forgotten(d, id) ==
    IF d.cache.id # id THEN d
    ELSE LET flushed == Flushed(d)
         IN  [flushed EXCEPT !.cache.id = None, !.cache.data = NoTheme, !.store.harmed = @ \cup Unsaved(flushed)]
Renamed(d, id, name) ==
    LET old == id[2]
        flushed == Forgotten(d, id)
        disk == flushed.store.disk
        wanted == IF Plain(name) = old THEN old ELSE Unique(disk, name)
        new == IF old \in ThemeNames(disk) THEN wanted ELSE old
        moved == IF new = old \/ Dead(flushed) THEN flushed
                 ELSE [flushed EXCEPT !.store.disk = Moved(disk, old, new)]
        data == [Loaded(moved.store.disk, new) EXCEPT !["name"] = name]
        meant == (new :> [d.store.meant[old] EXCEPT !["name"] = name])
                 @@ Restrict(d.store.meant, DOMAIN d.store.meant \ {old})
        Harmed(names) == IF old \in names THEN names \cup {new} ELSE names
        saved == Saved([moved EXCEPT !.store.meant = meant, !.store.harmed = Harmed(@)], new, data)
        cache == IF saved.cache.id # None THEN saved.cache
                 ELSE [id |-> Custom(new), data |-> data, modified |-> FALSE]
    IN  [saved EXCEPT !.cache = cache, !.got = Custom(new)]

(* remove_theme                                                            *)
NoCache == [id |-> None, data |-> NoTheme, modified |-> FALSE]
Uncached(d, id) == IF d.cache.id = id THEN NoCache ELSE d.cache
Removed(d, id) ==
    LET n == id[2]
        f == FileOf(d.store.disk, n)
    IN  [d EXCEPT !.store.disk = WithFile(@, n, [f EXCEPT !.main = None]), !.cache = Uncached(d, id),
                  !.store.meant = Restrict(@, DOMAIN @ \ {n})]

-----------------------------------------------------------------------------
(* Start and end                                                           *)

FirstConfig == [selected |-> DefaultTheme, dir |-> None, chord |-> FALSE, style |-> None]
NoView == [rows |-> <<>>, row |-> 0, custom |-> FALSE, style |-> DefaultValue, dir |-> None, chord |-> FALSE,
           editor |-> None]
Off == [on |-> FALSE, config |-> FirstConfig, modified |-> FALSE, cache |-> NoCache, font |-> None]

Init ==
    /\ \E disk \in Beginnings :
          store = [disk |-> disk, starts |-> 0, faults |-> 0, harmed |-> {}, tried |-> {},
                   meant |-> Restrict([n \in DOMAIN disk |-> Read(disk, n)], DOMAIN disk \ {ConfigFile}),
                   kept |-> Read(disk, ConfigFile)]
    /\ session = Off
    /\ view = NoView
    /\ signals = {}
    /\ done = [name |-> "none"]
    /\ failed = "no"
    /\ actions = 0

Runs == session.on /\ failed = "no"
D(fault) == [store |-> store, cache |-> session.cache, fault |-> fault, saves |-> 0, ok |-> TRUE, got |-> None]
FaultsNow == IF store.faults = 0 THEN Faults \cup {NoFault} ELSE {NoFault}
(* A fault counts when the save it is for is made.                         *)
Happens(d) == d.fault = NoFault \/ d.saves >= d.fault.at

(* What was not saved is lost when the program dies.                       *)
Lost(d) == IF d.cache.modified /\ d.cache.id # None THEN d.store.harmed \cup Unsaved(d) ELSE d.store.harmed
StoreAfter(d) ==
    [d.store EXCEPT !.faults = IF d.fault = NoFault THEN @ ELSE 1,
                    !.harmed = IF Dead(d) THEN Lost(d) \cup Lost(D(NoFault)) ELSE @]
(* The handlers of an input end here: e is the session they leave.         *)
Ends(d, e, v, sent) ==
    /\ Happens(d)
    /\ store' = StoreAfter(d)
    /\ session' = IF Dead(d) THEN Off ELSE [e EXCEPT !.cache = d.cache]
    /\ view' = IF Dead(d) THEN NoView ELSE v
    /\ signals' = IF Dead(d) THEN {} ELSE signals \cup sent
    /\ UNCHANGED failed

RowsOf(d) == [i \in 1..Len(ThemeIds(d.store.disk)) |->
                 LET id == ThemeIds(d.store.disk)[i] IN [id |-> id, name |-> WithData(d, id, FALSE).got["name"]]]
RowOf(rows, id) == IF \E i \in DOMAIN rows : rows[i].id = id THEN CHOOSE i \in DOMAIN rows : rows[i].id = id ELSE 0

(* try_load, the check of the selected theme, and the windows.             *)
Migrates(disk, conf) == conf.style # None /\ <<3>> \notin ThemeNames(disk)
Verified(disk, conf) ==
    IF IsCustom(conf.selected) /\ conf.selected[2] \notin ThemeNames(disk)
    THEN [conf EXCEPT !.selected = DefaultTheme] ELSE conf
Enabled(id) == IsCustom(id)
Shown(d, conf) ==
    [rows |-> RowsOf(d), row |-> RowOf(RowsOf(d), conf.selected), custom |-> Enabled(conf.selected),
     style |-> StyleOf(d.got), dir |-> conf.dir, chord |-> conf.chord, editor |-> None]
Start ==
    /\ ~session.on /\ failed = "no" /\ store.starts < MaxStarts
    /\ \E fault \in FaultsNow :
          LET stored == Read(store.disk, ConfigFile)
              conf == IF stored = None THEN FirstConfig ELSE stored
              migrates == Migrates(store.disk, conf)
              theme == [conf.style EXCEPT !["name"] = <<3>>]
              d == IF ~migrates THEN D(fault)
                   ELSE Saved([D(fault) EXCEPT !.store.meant = (<<3>> :> theme) @@ @], <<3>>, theme)
              selected == IF conf.selected # None THEN conf.selected
                          ELSE IF migrates THEN Custom(<<3>>) ELSE DefaultTheme
              loaded == [conf EXCEPT !.selected = selected, !.style = None]
              verified == Verified(d.store.disk, loaded)
              read == WithData(d, verified.selected, TRUE)
              e == [on |-> TRUE, config |-> verified, modified |-> migrates \/ verified # loaded,
                    cache |-> read.cache, font |-> StyleOf(read.got)["font"]]
          IN  /\ Happens(read)
              /\ store' = [StoreAfter(read) EXCEPT !.starts = @ + 1]
              /\ session' = IF Dead(read) THEN Off ELSE e
              /\ view' = IF Dead(read) THEN NoView ELSE Shown(read, verified)
              /\ done' = [name |-> "start", config |-> conf]
    /\ UNCHANGED <<signals, failed, actions>>

(* The end of run_ui: the cache and the configuration are saved.           *)
Exit ==
    /\ Runs
    /\ \E fault \in FaultsNow :
          LET flushed == Flushed(D(fault))
              saved == IF session.modified THEN Saved(flushed, ConfigFile, session.config) ELSE flushed
              kept == session.modified /\ ConfigFile \notin saved.store.harmed /\ ~Dead(saved)
          IN  /\ Happens(saved)
              /\ store' = [StoreAfter(saved) EXCEPT !.harmed = Lost(saved) \ {ConfigFile},
                                                    !.kept = IF kept THEN session.config ELSE @,
                                                    !.tried = IF kept THEN {} ELSE @ \cup {session.config}]
    /\ session' = Off /\ view' = NoView /\ signals' = {}
    /\ done' = [name |-> "exit"]
    /\ UNCHANGED <<failed, actions>>

Kill ==
    /\ Runs
    /\ store.starts < MaxStarts
    /\ store' = [store EXCEPT !.harmed = Lost(D(NoFault))]
    /\ session' = Off /\ view' = NoView /\ signals' = {}
    /\ done' = [name |-> "kill"]
    /\ UNCHANGED <<failed, actions>>

-----------------------------------------------------------------------------
(* The windows follow the signals.                                         *)
RowsAfter(d, v) == IF "list" \in signals THEN RowsOf(d) ELSE v.rows
UpdatedView(d, v) ==
    LET conf == session.config
        rows == RowsAfter(d, v)
    IN  [v EXCEPT !.rows = rows,
                  !.row = IF signals \cap {"list", "theme"} # {} THEN RowOf(rows, conf.selected) ELSE @,
                  !.custom = IF "theme" \in signals THEN Enabled(conf.selected) ELSE @,
                  !.style = IF "style" \in signals THEN StyleOf(d.got) ELSE @,
                  !.dir = IF "dirs" \in signals THEN conf.dir ELSE @,
                  !.chord = IF "chord" \in signals THEN conf.chord ELSE @]
Update ==
    /\ Runs /\ signals # {}
    /\ \E fault \in FaultsNow :
          LET d == IF "style" \in signals THEN WithData(D(fault), session.config.selected, TRUE) ELSE D(fault)
          IN  /\ Happens(d)
              /\ store' = StoreAfter(d)
              /\ session' = IF Dead(d) THEN Off ELSE [session EXCEPT !.cache = d.cache]
              /\ view' = IF Dead(d) THEN NoView ELSE UpdatedView(d, view)
    /\ signals' = {}
    /\ done' = [name |-> "update"]
    /\ UNCHANGED <<failed, actions>>

-----------------------------------------------------------------------------
(* Inputs                                                                  *)

CanAct == Runs /\ signals = {} /\ actions < MaxActions
Acts(name) == actions' = actions + 1 /\ done' = [name |-> name]
Selecting(id) == [session EXCEPT !.config.selected = id, !.modified = @ \/ id # session.config.selected]
(* The colour editor stays open, now on the colours of another theme.      *)
Elsewhere(v) == IF v.editor = None THEN v ELSE [v EXCEPT !.editor.elsewhere = TRUE]

AddTheme ==
    /\ CanAct
    /\ \E fault \in FaultsNow :
          LET d == Created(D(fault), session.config.selected)
          IN  Ends(d, Selecting(d.got), view, {"list", "theme", "style"})
    /\ Acts("add")

(* The theme below takes its place, or the one above; it is not its font   *)
(* that sizes are taken from until it is selected again.                   *)
Beside(ids, id) ==
    LET i == CHOOSE i \in DOMAIN ids : ids[i] = id
    IN  IF i < Len(ids) THEN ids[i + 1] ELSE ids[i - 1]
RemoveTheme ==
    /\ CanAct /\ view.custom
    /\ LET id == session.config.selected
           ids == ThemeIds(store.disk)
           d == Removed(D(NoFault), id)
       IN  IF id \in Range(ids)
           THEN Ends(d, [Selecting(Beside(ids, id)) EXCEPT !.font = None], Elsewhere(view), {"list", "theme", "style"})
           ELSE Ends(D(NoFault), session, view, {})
    /\ Acts("remove")

(* ThemeList._on_index_changed                                             *)
FontOf(d) == StyleOf(d.got)["font"]
SelectTheme ==
    /\ CanAct
    /\ \E fault \in FaultsNow, i \in DOMAIN view.rows \ {view.row} :
          LET id == view.rows[i].id
              d == WithData(D(fault), id, TRUE)
          IN  Ends(d, [Selecting(id) EXCEPT !.font = FontOf(d)], Elsewhere([view EXCEPT !.row = i]),
                   {"theme", "style"})
    /\ Acts("select")

(* ThemesModel.setData                                                     *)
RenameTheme ==
    /\ CanAct /\ view.row # 0 /\ IsCustom(view.rows[view.row].id)
    /\ \E fault \in FaultsNow, name \in Typed :
          LET d == Renamed(D(fault), view.rows[view.row].id, name)
          IN  Ends(d, Selecting(d.got), view, {"list", "theme"})
    /\ Acts("rename")

(* The assertion of set_style_param.                                       *)
ChangeStyle(key, value, e, v) ==
    LET id == session.config.selected
    IN  IF IsCustom(id)
        THEN \E fault \in FaultsNow : Ends(Styled(D(fault), id, key, value), e, v, {"style"})
        ELSE failed' = "stock" /\ UNCHANGED <<store, session, view, signals>>

(* FontFamilySelector, FontSizeSelector, StyleSlider                       *)
ChangeFont ==
    /\ CanAct /\ view.custom
    /\ \E value \in Values \ {view.style["font"]} :
          ChangeStyle("font", value, [session EXCEPT !.font = value], [view EXCEPT !.style["font"] = value])
    /\ Acts("font")

ChangeSlider ==
    /\ CanAct /\ view.custom
    /\ \E value \in Values \ {view.style["slider"]} :
          ChangeStyle("slider", value, session, [view EXCEPT !.style["slider"] = value])
    /\ Acts("slider")

(* The colour editor                                                       *)
OpenColourEditor ==
    /\ CanAct /\ view.custom
    /\ \E key \in Colours, fault \in FaultsNow :
          LET d == WithData(D(fault), session.config.selected, TRUE)
              c == StyleOf(d.got)[key]
          IN  Ends(d, session, [view EXCEPT !.editor = [key |-> key, orig |-> c, new |-> c, drags |-> FALSE,
                                                        revert |-> FALSE, elsewhere |-> FALSE]], {})
    /\ Acts("open")

Editing == CanAct /\ view.editor # None
(* _update_colour                                                          *)
WithNew(v, c) == [v EXCEPT !.editor.new = c, !.editor.revert = c # v.editor.orig]

(* The mouse on the selector: the colour is written when it is released.   *)
PickColour ==
    /\ Editing
    /\ \E c \in Values : view' = [WithNew(view, c) EXCEPT !.editor.drags = TRUE]
    /\ Acts("pick")
    /\ UNCHANGED <<store, session, signals, failed>>

ReleaseColour ==
    /\ Runs /\ signals = {} /\ view.editor # None /\ view.editor.drags
    /\ ChangeStyle(view.editor.key, view.editor.new, session, [view EXCEPT !.editor.drags = FALSE])
    /\ done' = [name |-> "release"]
    /\ UNCHANGED actions

(* A code that is not complete changes nothing.                            *)
ChangeCode ==
    /\ Editing /\ ~view.editor.drags
    /\ \E c \in Values \ {view.editor.new} : ChangeStyle(view.editor.key, c, session, WithNew(view, c))
    /\ Acts("code")

Original(editor) == editor.orig
Revert ==
    /\ Editing /\ view.editor.revert /\ ~view.editor.drags
    /\ ChangeStyle(view.editor.key, Original(view.editor), session, [view EXCEPT !.editor = None])
    /\ Acts("revert")

(* The button that hides the editor, or the settings are closed.           *)
CloseColourEditor ==
    /\ Editing /\ ~view.editor.drags
    /\ view' = [view EXCEPT !.editor = None]
    /\ Acts("close")
    /\ UNCHANGED <<store, session, signals, failed>>

(* Directory, ChordMode                                                    *)
ChangeDir ==
    /\ CanAct
    /\ \E text \in DirTexts \ {view.dir} :
          /\ session' = [session EXCEPT !.config.dir = text, !.modified = TRUE]
          /\ view' = [view EXCEPT !.dir = text]
    /\ signals' = signals \cup {"dirs"}
    /\ Acts("dir")
    /\ UNCHANGED <<store, failed>>

ChangeChordMode ==
    /\ CanAct
    /\ session' = [session EXCEPT !.config.chord = ~view.chord, !.modified = TRUE]
    /\ view' = [view EXCEPT !.chord = ~@]
    /\ signals' = signals \cup {"chord"}
    /\ Acts("chord")
    /\ UNCHANGED <<store, failed>>

ThemeInputs == AddTheme \/ RemoveTheme \/ SelectTheme \/ RenameTheme
StyleInputs == ChangeFont \/ ChangeSlider \/ OpenColourEditor \/ PickColour \/ ReleaseColour \/ ChangeCode
               \/ Revert \/ CloseColourEditor
ConfigInputs == ChangeDir \/ ChangeChordMode
Next == Start \/ Exit \/ Kill \/ Update \/ ThemeInputs \/ StyleInputs \/ ConfigInputs

Spec == Init /\ [][Next]_vars

-----------------------------------------------------------------------------
ThemesTypeOK ==
    /\ \A n \in DOMAIN store.disk : store.disk[n] # NoFile
    /\ session.cache.id # None => IsCustom(session.cache.id)
    /\ session.cache.modified => session.cache.id # None
    /\ session.config.style = None
    /\ session.on => view.rows # <<>>
    /\ ~session.on => signals = {}
    /\ failed \in {"no", "stock"}

SelectedIsHarmed == session.config.selected[2] \in store.harmed

(* Every theme is what its edits, its name and its copy were meant to make *)
(* of it, in its file or, changed, in the cache, unless a save failed or   *)
(* the program was killed (StyleManager.try_flush_cached_style,            *)
(* set_theme_name_and_get_new_id, Config._save_file).                      *)
EditsReachFiles ==
    \A n \in DOMAIN store.meant \ store.harmed :
        IF session.cache.id = Custom(n) /\ session.cache.modified THEN session.cache.data = store.meant[n]
        ELSE /\ Read(store.disk, n) = store.meant[n]
             /\ session.cache.id = Custom(n) => session.cache.data = store.meant[n]

(* A new theme, a renamed one and the one made of old settings leave the   *)
(* others alone (make_theme_name, rename_theme, try_load).                 *)
KeepsOthers ==
    \A n \in DOMAIN store.meant \ store.harmed :
        \/ done'.name = "rename" /\ n = session.config.selected[2]
        \/ n \in DOMAIN store'.meant /\ store'.meant[n] = store.meant[n]

(* A theme whose file has been put aside by a save that failed is there    *)
(* until the program is started again.                                     *)
SelectedThemeExists ==
    (session.on /\ IsCustom(session.config.selected)) =>
        \/ Read(store.disk, session.config.selected[2]) # None
        \/ SelectedIsHarmed

(* The settings show the configuration and the style of the selected theme *)
(* once they have followed the signals, unless saving a theme failed.       *)
SettingsShown ==
    (session.on /\ signals = {} /\ failed = "no") =>
        LET d == WithData(D(NoFault), session.config.selected, FALSE)
        IN  /\ store.faults = 0 => view.rows = RowsOf(d)
            /\ view.row = RowOf(view.rows, session.config.selected)
            /\ view.custom = IsCustom(session.config.selected)
            /\ view.style = StyleOf(d.got) \/ SelectedIsHarmed
            /\ view.dir = session.config.dir /\ view.chord = session.config.chord

(* The colour editor shows the colour it edits, and offers to bring back   *)
(* another one, unless another theme has been selected since.              *)
EditorShowsColour ==
    (Runs /\ signals = {} /\ view.editor # None /\ ~view.editor.drags /\ ~view.editor.elsewhere
         /\ ~SelectedIsHarmed) =>
        /\ view.editor.new = view.style[view.editor.key]
        /\ view.editor.revert <=> view.editor.orig # view.style[view.editor.key]
(* Reverting brings back the colour the editor was opened with.            *)
Reverts == session'.on => session'.cache.data[view.editor.key] = view.editor.orig

(* Only custom themes are changed, unless a stock theme is selected while  *)
(* the colour editor is open (the assertion of set_style_param).           *)
StockThemesStay == failed = "stock" => view.editor # None /\ view.editor.elsewhere

(* If a theme stores one colour, it stores them all.                       *)
ColoursStoredTogether ==
    \A n \in DOMAIN store.disk \ {ConfigFile} :
        \A data \in {store.disk[n].main, store.disk[n].old} \ {None} :
            (\E k \in Colours : data[k] # None) => \A k \in Colours : data[k] # None

(* The configuration that is loaded is the one that was saved last, or one *)
(* whose saving failed later (Config._save_file, _load_json_data).         *)
ConfigSurvives ==
    done.name = "start" => done.config \in {IF store.kept = None THEN FirstConfig ELSE store.kept} \cup store.tried

(* Sizes are taken from the font of the theme that is selected.            *)
FontInUse ==
    (session.on /\ signals = {} /\ session.font # None /\ failed = "no") =>
        \/ session.font = view.style["font"]
        \/ SelectedIsHarmed
=============================================================================
