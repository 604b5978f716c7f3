------------------------------- MODULE Sheet -------------------------------
(***************************************************************************)
(* The sheet editor: the methods of the sheet manager                      *)
(* (tracker/ui/model/sheetmanager.py) and what the keyboard, the mouse,    *)
(* the toolbar, the order list and the playback do with them               *)
(* (tracker/ui/views/sheet/view.py, toolbar.py, orderlisteditor.py).       *)
(*                                                                         *)
(* Everything runs in the one thread of the user interface, so an action   *)
(* is a whole handler; what is hard is that the handlers may come in any   *)
(* order: a key is released, a field is finished or a button is clicked    *)
(* long after the state it was meant for has changed.  A handler that      *)
(* raises an exception ends the program (failed).                          *)
(*                                                                         *)
(* The grid is off, one pixel shows one row, and playback is followed.     *)
(***************************************************************************)
EXTENDS SheetEdit

CONSTANTS Note, RestEvent,     \* the events n+ and n-
          Entered, Arguments,  \* an event typed by name, and it with its possible arguments
          Convert(_),          \* the other of a set and slide pair, or None
          Keys,                \* the buttons of the typewriter
          ChordMode,           \* the configuration allows chords
          MaxActions,          \* bound of the model: how long the user works
          Gestures,            \* the groups of actions that the user makes use of
          Beginnings           \* the contents that the session starts from

Events == {Note, Convert(Note), RestEvent, Entered} \union Arguments
Locations == [sys : Nat, col : ColNums, ts : Nat, idx : Nat]
Rows == Seq([ts : Nat, evs : Seq(Events) \ {<<>>}])

(* What the keys of a transaction hold, and what a step remembers of them. *)
Values == {None} \union Rows \union 1..DefaultLength
Transactions == UNION {[keys -> Values] : keys \in SUBSET SheetKeys}
Steps == [old : Transactions, new : Transactions,
          loc : {None} \union Locations, pinst : {None} \union (Patterns \X (0..MaxInstance))]

IsRows(v) == v \in Rows /\ \A i, j \in DOMAIN v : v[i].ts = v[j].ts => i = j
IsValue(k, v) == v = None \/ (IF k[2] = "col" THEN IsRows(v) ELSE v \in 1..DefaultLength)
IsData(f) == DOMAIN f \subseteq SheetKeys /\ \A k \in DOMAIN f : IsValue(k, f[k])
IsStep(s) == IsData(s.old) /\ IsData(s.new) /\ DOMAIN s.old = DOMAIN s.new /\ (s.loc # None => s.loc \in Locations)
IsOrder(o) == o \in Seq(Patterns \X (0..MaxInstance)) /\ IsInjective(o)

ASSUME EventsAssumption ==
    /\ \A ev \in Events : Convert(ev) \in Events \union {None} /\ Selects(ev) \in Nat \union {None}
    /\ None \notin Steps /\ None \notin Locations /\ None \notin Rows /\ None \notin Patterns \X (0..MaxInstance)

ASSUME SheetsAtFirst ==
    \A b \in Beginnings : /\ IsData(b.data) /\ DOMAIN b.data = SheetKeys /\ IsOrder(b.order)
                          /\ b.sel # None => b.sel \in Locations

VARIABLES ui, actions

vars == <<ui, actions>>

----------------------------------------------------------------------------
(* The sheet manager. *)

AllowEditing(u) == ~u.playing \/ u.recording
EditingEnabled(u) == u.edit /\ u.connected /\ AllowEditing(u)
CanEdit(u) == EditingEnabled(u) /\ HasAlbum(u)

AddTransaction(u, t, commit) ==
    LET u1 == Located(u) IN Put(AddStep(u1, t, Location(u1), commit), t)

AddTrigger(u, ev, commit) ==
    LET loc == Location(u)
        u1 == Cached(Located(u), loc)
        rows == IF u.replace THEN EditReplaceOrInsert(RowsAt(u1, loc), loc.ts, loc.idx, ev)
                ELSE EditInsert(RowsAt(u1, loc), loc.ts, loc.idx, ev)
        u2 == AddColumnUpdate(AddTransaction(u1, Change(KeyAt(u, loc), rows), commit), loc)
        across == u.chord /\ loc.col < MaxColumn
        next == IF across THEN [loc EXCEPT !.col = @ + 1]
                ELSE [loc EXCEPT !.idx = Clamp(@ + 1, CountAt(Stored(u2, KeyAt(u, loc)), loc.ts))]
    IN IF ~CanEdit(u) THEN u
       ELSE IF ~across /\ ~IsPlaced(u1, loc) THEN Fail(u2)
       ELSE SetLocation(u2, next)

TryRemoveTrigger(u) ==
    LET loc == Location(u)
        u1 == Cached(Located(u), loc)
    IN IF ~CanEdit(u) \/ ~HasTrigger(RowsAt(u1, loc), loc.ts, loc.idx) THEN u
       ELSE AddColumnUpdate(AddTransaction(u1,
                Change(KeyAt(u, loc), EditRemove(RowsAt(u1, loc), loc.ts, loc.idx)), ~u.chord), loc)

AreaColumns(u) == TopLeft(u).col..BottomRight(u).col
AreaLocation(u, c) == [TopLeft(u) EXCEPT !.col = c, !.idx = 0]

TryRemoveArea(u) ==
    LET top == TopLeft(u)
        bottom == BottomRight(u)
        u1 == Cached(u, top)
        slice == Change(KeyAt(u, top), EditRemoveSlice(RowsAt(u1, top), top.ts, top.idx, bottom.idx))
        rect == [k \in {KeyAt(u, AreaLocation(u, c)) : c \in AreaColumns(u)} |->
                    EditRemoveRows(VisitedRows(u, top, [top EXCEPT !.col = k[3]]), top.ts, bottom.ts)]
    IN IF ~HasArea(u) THEN u
       ELSE IF ~InAlbum(u, top) THEN Raise(u)
       ELSE IF ~IsSlice(u) THEN ClearArea(AddTransaction(FlushColumn(u), rect, ~u.chord))
       ELSE IF ~HasTrigger(RowsAt(u1, top), top.ts, 0) THEN Fail(u)
       ELSE ClearArea(AddColumnUpdate(SetLocation(AddTransaction(u1, slice, ~u.chord), top), top))

(* get_serialised_area, as the clipboard holds it. *)
CopyArea(u) ==
    LET top == TopLeft(u)
        bottom == BottomRight(u)
        rows == RowsAt(u, top)
        end == AreaLocation(u, bottom.col)
    IN IF ~InAlbum(u, top) THEN Raise(u)
       ELSE IF ~IsSlice(u)
       THEN [Cached(Visited(u, top, end), end) EXCEPT !.clip =
                [kind |-> "rect", height |-> bottom.ts - top.ts,
                 columns |-> [i \in 1..(bottom.col - top.col + 1) |->
                    RowsInRange(VisitedRows(u, top, AreaLocation(u, top.col + i - 1)), top.ts, bottom.ts)]]]
       ELSE IF HasRow(rows, top.ts) /\ bottom.idx <= CountAt(rows, top.ts)
       THEN [Cached(u, top) EXCEPT !.clip =
                [kind |-> "slice", evs |-> Slice(RowAt(rows, top.ts), top.idx, bottom.idx)]]
       ELSE Raise(u)

(* try_paste_serialised_area: triggers of one row go before the selected   *)
(* one, or in the place of the selected ones; a rectangle replaces what it *)
(* covers.                                                                 *)
PasteArea(u) ==
    LET loc == Location(u)
        u1 == Cached(Located(u), loc)
        rows == RowsAt(u1, loc)
        from == IF IsSlice(u) THEN TopLeft(u).idx ELSE loc.idx
        slice == Change(KeyAt(u, loc),
            IF IsSlice(u) THEN EditReplaceSlice(rows, loc.ts, from, BottomRight(u).idx, u.clip.evs)
            ELSE EditInsertSlice(rows, loc.ts, from, u.clip.evs))
        width == Lower(Len(u.clip.columns), MaxColumn + 1 - loc.col)
        rect == [k \in {KeyAt(u, [loc EXCEPT !.col = @ + i - 1]) : i \in 1..width} |->
                    EditReplaceRows(VisitedRows(u, loc, [loc EXCEPT !.col = k[3]]), loc.ts, loc.ts + u.clip.height,
                                    u.clip.columns[k[3] - loc.col + 1], Length(u, PatternAt(u, loc.sys)))]
    IN IF ~HasAlbum(u) THEN Raise(u)
       ELSE IF u.clip.kind = "rect" /\ ~IsPlaced(u, loc) THEN Fail(u)
       ELSE IF u.clip.kind = "rect" THEN AddTransaction(FlushColumn(Located(u)), rect, ~u.chord)
       ELSE IF IsSlice(u) /\ ~HasRow(rows, loc.ts) THEN Raise(u)
       ELSE AddColumnUpdate(SetLocation(AddTransaction(u1, slice, ~u.chord),
                                        [loc EXCEPT !.idx = from + Len(u.clip.evs)]), loc)

Convertible(u) ==
    LET loc == Location(u)
    IN HasAlbum(u) /\ HasTrigger(RowsAt(u, loc), loc.ts, loc.idx)
       /\ Convert(TriggerAt(RowsAt(u, loc), loc.ts, loc.idx)) # None

ConvertTrigger(u) ==
    LET loc == Location(u)
        rows == RowsAt(u, loc)
        edit == EditReplaceOrInsert(rows, loc.ts, loc.idx, Convert(TriggerAt(rows, loc.ts, loc.idx)))
    IN AddColumnUpdate(AddTransaction(Cached(Located(u), loc), Change(KeyAt(u, loc), edit), TRUE), loc)

SetPatternLength(u, p, length, final) ==
    LET t == Change(LengthKey(p), length) IN Put(AddStep(u, t, None, final), t)

(* A chord is one step of the history: leaving the mode ends it, and the   *)
(* cursor returns to the column where the chord began.                     *)
SetChordMode(u, enabled) ==
    LET begun == Located(u)
        here == Location(u)
        next == IF here.col = u.chordStart.col THEN here
                ELSE ClampedLocation(u, [u.chordStart EXCEPT !.idx = @ + 1])
        back == IF u.chordStart = None THEN u
                ELSE [SetLocation(Located(u), next) EXCEPT !.chordStart = None]
        off == IF u.chord THEN Commit(back) ELSE back
    IN IF enabled
       THEN IF u.chordStart = None THEN [begun EXCEPT !.chord = TRUE, !.chordStart = Location(u)]
            ELSE [u EXCEPT !.chord = TRUE]
       ELSE IF u.chordStart # None /\ HasAlbum(u) /\ here.col # u.chordStart.col /\ ~InAlbum(u, u.chordStart)
       THEN Raise(u)
       ELSE [off EXCEPT !.chord = FALSE, !.chordNotes = {}]

SetTypewriterConnected(u, on) == [u EXCEPT !.connected = on, !.replace = @ /\ on]
SetReplaceMode(u, on) == [u EXCEPT !.replace = on, !.connected = @ \/ on]

----------------------------------------------------------------------------
(* Undo and redo.  The data is put before the selection moves, and the     *)
(* cached column is only flushed after that.                               *)

(* Wrong: the cursor returns to the system where the edit was made, which  *)
(* may show another pattern now.                                           *)
OldLocation(u, step) ==
    IF step.loc = None \/ ~InAlbum(u, step.loc) THEN None ELSE step.loc

NewLocation(u, step) ==
    IF step.loc = None \/ step.pinst = None \/ SystemsOf(u, step.pinst) = {} THEN None
    ELSE [step.loc EXCEPT !.sys = CHOOSE i \in SystemsOf(u, step.pinst) : TRUE]

Apply(u, step, t) ==
    LET u1 == Put(u, t)
        loc == NewLocation(u1, step)
    IN IF loc = None THEN u1 ELSE SetLocation(u1, loc)

(* Wrong: the column cached before the undo is kept. *)
UndoUnflushed(u) ==
    LET u1 == Commit(u)
        entry == Last(u1.past)
    IN IF ~AllowEditing(u) THEN u
       ELSE IF u1.past = <<>> THEN u1
       ELSE [Apply([u1 EXCEPT !.past = Front(@)], entry, entry.old)
                EXCEPT !.future = Append(@, entry)]

Undo(u) ==
    LET u1 == Commit(u)
        entry == Last(u1.past)
    IN IF ~AllowEditing(u) THEN u
       ELSE IF u1.past = <<>> THEN u1
       ELSE FlushColumn([Apply([u1 EXCEPT !.past = Front(@)], entry, entry.old)
                            EXCEPT !.future = Append(@, entry)])

Redo(u) ==
    LET entry == Last(u.future)
    IN IF ~AllowEditing(u) \/ u.future = <<>> THEN u
       ELSE IF u.step # None THEN Fail(u)
       ELSE FlushColumn([Apply([u EXCEPT !.future = Front(@)], entry, entry.new)
                            EXCEPT !.past = Append(@, entry)])

----------------------------------------------------------------------------
(* The keyboard of the view.  The cursor moves of the view read the        *)
(* selected location and set a new one; with Shift they also extend the    *)
(* selected area.                                                          *)

Seen(u) == Cached(Located(u), Location(u))

MoveTriggerIndex(u, index) ==
    SetLocation(Seen(u), ClampedLocation(Seen(u), [Location(u) EXCEPT !.idx = index]))

MoveTrow(u, right) ==
    LET loc == Location(u)
        rows == RowsAt(u, loc)
        stays == \/ ~HasRow(rows, loc.ts)
                 \/ right /\ loc.idx >= CountAt(rows, loc.ts)
                 \/ ~right /\ loc.idx = 0
    IN IF stays THEN Seen(u)
       ELSE SetLocation(Seen(u), [loc EXCEPT !.idx = IF right THEN @ + 1 ELSE @ - 1])

MoveColumn(u, right) ==
    LET loc == Location(u)
        col == IF right THEN Lower(loc.col + 1, MaxColumn) ELSE IF loc.col = 0 THEN 0 ELSE loc.col - 1
    IN SetLocation(Located(u), ClampedLocation(u, [loc EXCEPT !.col = col, !.idx = 0]))

(* Up and down by one row; to the neighbouring system at the ends of the   *)
(* pattern unless an area is being selected.                               *)
LastStop(u, loc) ==
    LET end == Length(u, PatternAt(u, loc.sys - 1))
    IN IF HasRow(RowsAt(u, [loc EXCEPT !.sys = @ - 1]), end) THEN end ELSE end - 1

MoveUp(u) ==
    LET loc == Location(u)
    IN IF loc.ts > 0 THEN SetLocation(Seen(u), [loc EXCEPT !.ts = @ - 1, !.idx = 0])
       ELSE IF loc.sys = 0 \/ u.start # None THEN Located(u)
       ELSE SetLocation(Seen(u), [loc EXCEPT !.sys = @ - 1, !.idx = 0,
                                             !.ts = LastStop(u, loc)])

MoveDown(u) ==
    LET loc == Location(u)
        length == Length(u, PatternAt(u, loc.sys))
    IN IF loc.ts < length \/ u.start # None \/ loc.sys + 1 = Len(u.order)
       THEN SetLocation(Seen(u), [loc EXCEPT !.ts = Lower(@ + 1, length), !.idx = 0])
       ELSE SetLocation(Seen(u), [loc EXCEPT !.sys = @ + 1, !.ts = 0, !.idx = 0])

FarIndex == 16777216   \* 2^24, further than any row goes

AtTriggerRow(u) == HasRow(RowsAt(u, Location(u)), Location(u).ts)
ExtendSideways(u, right) ==
    IF (HasArea(u) /\ ~IsSlice(u)) \/ ~AtTriggerRow(u) THEN MoveColumn(u, right) ELSE MoveTrow(u, right)

Extend(u, Move(_)) ==
    LET u1 == Move(TrySetStart(Located(u), Location(u))) IN SetStop(Located(u1), Location(u1))

SelectColumns(u) ==
    LET a == IF HasArea(u) THEN TopLeft(u) ELSE Location(u)
        b == IF HasArea(u) THEN BottomRight(u) ELSE Location(u)
        begin == [a EXCEPT !.ts = 0, !.idx = 0]
        u1 == TrySetStart(ClearArea(Located(u)), begin)
    IN IF ~InAlbum(u, a) THEN Raise(u)
       ELSE SetStop(u1, [b EXCEPT !.ts = Length(u, PatternAt(u, a.sys)) + 1, !.idx = 0])

SelectAll(u) ==
    LET loc == Location(u)
        u1 == TrySetStart(ClearArea(Located(u)), [loc EXCEPT !.col = 0, !.ts = 0, !.idx = 0])
    IN IF ~HasAlbum(u) THEN Raise(u)
       ELSE SetStop(u1, [loc EXCEPT !.col = MaxColumn, !.idx = 0,
                                    !.ts = Length(u, PatternAt(u, loc.sys)) + 1])

----------------------------------------------------------------------------
(* Focus.  Leaving the view ends a chord; the field that edits a trigger   *)
(* takes the focus from the view and is gone when it loses it; the editor  *)
(* of the pattern length finishes when it loses the focus.                 *)

LengthDone(u) ==
    IF ~u.spin \/ ~HasAlbum(u) THEN u
    ELSE LET p == PatternAt(u, Location(u).sys)
         IN [SetPatternLength(Located(u), p, Length(u, p), TRUE) EXCEPT !.spin = FALSE]
FocusLost(u) == SetChordMode([u EXCEPT !.edit = FALSE, !.field = None], FALSE)
FocusGained(u) == [LengthDone(u) EXCEPT !.edit = TRUE, !.field = None]

StartField(u, what) ==
    IF ~EditingEnabled(u) \/ u.recording \/ ~HasAlbum(u) THEN u
    ELSE [FocusLost(Seen(u)) EXCEPT !.field = what]

AtTrigger(u) == HasAlbum(u) /\ HasTrigger(RowsAt(u, Location(u)), Location(u).ts, Location(u).idx)
SelectedTrigger(u) == TriggerAt(RowsAt(u, Location(u)), Location(u).ts, Location(u).idx)

StartArgument(u) ==
    IF ~EditingEnabled(u) \/ u.recording \/ ~HasAlbum(u) THEN u
    ELSE IF ~AtTrigger(u) THEN Raise(u)
    ELSE IF SelectedTrigger(u) = RestEvent THEN u
    ELSE StartField(u, "argument")

FinishType(u, ev) ==
    LET u1 == AddTrigger(FocusGained(u), ev, ev # Entered)
    IN IF ev # Entered \/ u1.failed # None THEN u1 ELSE StartArgument(SetLocation(u1, Location(u)))

WithArgument(ev, arg) == IF ev \in Arguments \union {Entered} THEN arg ELSE ev

FinishArgument(u, arg) ==
    LET u1 == FocusGained(u)
        new == WithArgument(SelectedTrigger(u1), arg)
    IN IF ~AtTrigger(u1) THEN Raise(u1)
       ELSE IF u1.replace THEN AddTrigger(u1, new, ~u1.chord)
       ELSE AddTrigger(TryRemoveTrigger(u1), new, ~u1.chord)

(* start_tracked_note: in replace mode a note only replaces what sounds    *)
(* like one.                                                               *)
PressNote(u) ==
    LET u1 == IF ChordMode THEN SetChordMode(u, TRUE) ELSE u
        old == SelectedTrigger(u1)
    IN IF ~EditingEnabled(u) THEN u
       ELSE IF ~u1.replace \/ ~AtTrigger(u1) \/ old = RestEvent THEN AddTrigger(u1, Note, ~u1.chord)
       ELSE IF old \in {Note, Convert(Note)} THEN AddTrigger(u1, old, ~u1.chord)
       ELSE u1

----------------------------------------------------------------------------
(* The actions of the user and of the playback. *)

Init ==
    /\ actions = 0
    /\ \E b \in Beginnings :
        ui = [data |-> b.data, order |-> b.order, sel |-> b.sel,
              past |-> <<>>, future |-> <<>>, step |-> None, damaged |-> {},
              start |-> None, stop |-> None, clip |-> None,
              chord |-> FALSE, chordStart |-> None, chordNotes |-> {}, down |-> {},
              edit |-> b.edit, field |-> None, spin |-> FALSE,
              connected |-> b.connected, replace |-> FALSE,
              playing |-> FALSE, recording |-> FALSE,
              last |-> None, control |-> 0, failed |-> None]

Can(gesture) == gesture \in Gestures /\ actions < MaxActions /\ ui.failed = None
To(u) == ui' = u /\ actions' = actions + 1
InView == ui.edit /\ AllowEditing(ui)

FocusIn == Can("type") /\ ~ui.edit /\ To(FocusGained(ui))
FocusOut == Can("type") /\ ui.edit /\ To(FocusLost(ui))
Press(k) ==
    /\ Can("type") /\ k \notin ui.down
    /\ LET u == PressNote([ui EXCEPT !.down = @ \union {k}])
       IN To([u EXCEPT !.chordNotes = IF u.chord /\ EditingEnabled(ui) THEN @ \union {k} ELSE @])
Release(k) ==
    /\ Can("type") /\ k \in ui.down
    /\ LET u == [ui EXCEPT !.down = @ \ {k}, !.chordNotes = @ \ {k}]
       IN To(IF u.chordNotes = {} THEN SetChordMode(u, FALSE) ELSE u)
AddRest == Can("type") /\ To(AddTrigger(ui, RestEvent, ~ui.chord))
Delete ==
    /\ Can("type") /\ InView /\ EditingEnabled(ui)
    /\ To(IF HasArea(ui) THEN TryRemoveArea(ui) ELSE TryRemoveTrigger(ui))
Backspace ==
    /\ Can("type") /\ InView /\ CanEdit(ui) /\ Location(ui).idx > 0
    /\ To(TryRemoveTrigger(MoveTriggerIndex(ui, Location(ui).idx - 1)))

EnterField ==
    /\ Can("field") /\ InView
    /\ To(IF ui.replace /\ AtTrigger(ui) THEN StartArgument(ui) ELSE StartField(ui, "type"))
TypeDone == \E ev \in {Note, RestEvent, Entered} :
    Can("field") /\ ui.field = "type" /\ To(FinishType(ui, ev))
ArgumentDone == \E arg \in Arguments :
    Can("field") /\ ui.field = "argument" /\ To(FinishArgument(ui, arg))
CancelField == Can("field") /\ ui.field # None /\ To(FocusGained(ui))

Up == Can("move") /\ InView /\ HasAlbum(ui) /\ To(MoveUp(ClearArea(ui)))
Down == Can("move") /\ InView /\ HasAlbum(ui) /\ To(MoveDown(ClearArea(ui)))
Sideways == \E right \in BOOLEAN :
    Can("move") /\ InView /\ HasAlbum(ui) /\ To(MoveTrow(ClearArea(ui), right))
ToColumn == \E right \in BOOLEAN :
    Can("move") /\ InView /\ HasAlbum(ui) /\ To(MoveColumn(ClearArea(ui), right))
ToEnd == Can("move") /\ InView /\ HasAlbum(ui) /\ To(MoveTriggerIndex(ClearArea(ui), FarIndex))
Click == \E sys \in 0..(MaxSystems - 1), col \in ColNums, ts \in 0..DefaultLength, idx \in 0..2 :
    LET loc == [sys |-> sys, col |-> col, ts |-> ts, idx |-> idx]
    IN /\ Can("click") /\ InAlbum(ui, loc)
       /\ ts <= Length(ui, PatternAt(ui, sys))
       /\ loc = ClampedLocation(ui, loc)
       /\ To(SetLocation(ClearArea(FocusGained(ui)), loc))

AreaUp == Can("area") /\ InView /\ HasAlbum(ui) /\ To(Extend(ui, MoveUp))
AreaDown == Can("area") /\ InView /\ HasAlbum(ui) /\ To(Extend(ui, MoveDown))
AreaSideways == \E right \in BOOLEAN :
    Can("area") /\ InView /\ HasAlbum(ui) /\ To(Extend(ui, LAMBDA u : ExtendSideways(u, right)))
AreaToEnd ==
    /\ Can("area") /\ InView /\ HasAlbum(ui) /\ (HasArea(ui) => IsSlice(ui))
    /\ To(Extend(ui, LAMBDA u : MoveTriggerIndex(u, FarIndex)))
AreaAll == Can("area") /\ InView /\ To(SelectAll(ui))
AreaColumnsOf == Can("area") /\ InView /\ To(SelectColumns(ui))
Copy == Can("area") /\ AllowEditing(ui) /\ HasArea(ui) /\ To(ClearArea(CopyArea(ui)))
Cut ==
    /\ Can("area") /\ AllowEditing(ui) /\ HasArea(ui)
    /\ LET u == CopyArea(ui) IN To(IF u.failed # None THEN u ELSE TryRemoveArea(u))
Paste == Can("area") /\ AllowEditing(ui) /\ ui.clip # None /\ To(ClearArea(PasteArea(ui)))
ConvertSelected == Can("area") /\ EditingEnabled(ui) /\ Convertible(ui) /\ To(ConvertTrigger(ui))

UndoEdit == Can("history") /\ To(Undo(ui))
RedoEdit == Can("history") /\ To(Redo(ui))
ToggleConnected == Can("modes") /\ AllowEditing(ui) /\ To(SetTypewriterConnected(ui, ~ui.connected))
ToggleReplace == Can("modes") /\ AllowEditing(ui) /\ To(SetReplaceMode(ui, ~ui.replace))

ChangeLength == \E length \in 1..DefaultLength :
    LET p == PatternAt(ui, Location(ui).sys)
        u == [Located(ui) EXCEPT !.spin = TRUE]
    IN /\ Can("length") /\ ~ui.edit /\ ui.field = None /\ HasAlbum(ui)
       /\ To(IF length = Length(ui, p) THEN u ELSE SetPatternLength(u, p, length, FALSE))
FinishLength == Can("length") /\ ui.spin /\ To(LengthDone(ui))

AddPattern == \E sys \in 0..Len(ui.order) :
    /\ Can("album") /\ Len(ui.order) < MaxSystems /\ UsedPatterns(ui) # Patterns
    /\ To(InsertPatternInstance(ui, sys, <<NewPattern(ui), 0>>))
ReusePattern == \E sys \in 0..(Len(ui.order) - 1) :
    LET p == PatternAt(ui, sys)
    IN /\ Can("album") /\ Len(ui.order) < MaxSystems /\ InstancesOf(ui, p) # 0..MaxInstance
       /\ To(InsertPatternInstance(ui, sys + 1, <<p, NewInstance(ui, p)>>))
RemovePattern == \E sys \in 0..(Len(ui.order) - 1) :
    Can("album") /\ To(RemovePatternInstance(FocusLost(LengthDone(ui)), sys))
MovePattern == \E from, to \in 0..(Len(ui.order) - 1) :
    Can("album") /\ from # to /\ To(MovePatternInstance(ui, from, to))

Play == Can("play") /\ ~ui.playing /\ To([ui EXCEPT !.playing = TRUE])
Silence == Can("play") /\ ui.playing /\ To([ui EXCEPT !.playing = FALSE, !.recording = FALSE])
Record ==
    /\ Can("play")
    /\ To(IF ui.recording THEN [ui EXCEPT !.recording = FALSE]
          ELSE SetTypewriterConnected([ui EXCEPT !.recording = TRUE, !.playing = TRUE], TRUE))
PlaybackMoves == \E sys \in 0..(Len(ui.order) - 1), ts \in 0..1 :
    /\ Can("play") /\ ui.playing /\ ui.recording
    /\ To(SetLocation(Located(ui), [Location(ui) EXCEPT !.sys = sys, !.ts = ts, !.idx = 0]))

(* Drawing the edit cursor reads the selected column. *)
Paint == ui.failed = None /\ HasAlbum(ui) /\ ui' = Seen(ui) /\ ui' # ui /\ UNCHANGED actions

Next ==
    \/ FocusIn \/ FocusOut \/ \E k \in Keys : Press(k) \/ Release(k)
    \/ AddRest \/ Delete \/ Backspace
    \/ EnterField \/ TypeDone \/ ArgumentDone \/ CancelField
    \/ Up \/ Down \/ Sideways \/ ToColumn \/ ToEnd \/ Click
    \/ AreaUp \/ AreaDown \/ AreaSideways \/ AreaToEnd \/ AreaAll \/ AreaColumnsOf
    \/ Copy \/ Cut \/ Paste \/ ConvertSelected
    \/ UndoEdit \/ RedoEdit \/ ToggleConnected \/ ToggleReplace
    \/ ChangeLength \/ FinishLength
    \/ AddPattern \/ ReusePattern \/ RemovePattern \/ MovePattern
    \/ Play \/ Silence \/ Record \/ PlaybackMoves
    \/ Paint

Spec == Init /\ [][Next]_vars

----------------------------------------------------------------------------
(* Properties. *)

(* Every stored column has each row once and no empty row, whatever edit,  *)
(* undo or paste made it; every step of the history knows the old value of *)
(* each key it sets (the assertion of Step.add_transaction); every pattern *)
(* instance is in the order list once.                                     *)
TypeOK ==
    /\ IsData(ui.data) /\ DOMAIN ui.data = SheetKeys /\ IsOrder(ui.order)
    /\ \A s \in ToSet(ui.past) \union ToSet(ui.future) : IsStep(s)
    /\ ui.step # None => IsStep(ui.step)
    /\ \A x \in {ui.sel, ui.start, ui.stop, ui.chordStart} : x # None => x \in Locations
    /\ ui.control \in Nat /\ ui.field \in {None, "type", "argument"}

(* Going back through the history meets exactly the data that each step    *)
(* left, and going forward the data that it found: undo restores what was  *)
(* there before the edit, and undo then redo changes nothing, for every    *)
(* pattern whose history did not lose a step to the removal of another.    *)
Sets(steps, i, k) == k \in DOMAIN steps[i].new
LastOf(steps, i, k) == \A j \in (i + 1)..Len(steps) : ~Sets(steps, j, k)
NextOf(steps, i, j, k) == i < j /\ Sets(steps, j, k) /\ \A m \in (i + 1)..(j - 1) : ~Sets(steps, m, k)
Tiles(u, steps, Before(_), After(_)) ==
    \A i \in DOMAIN steps : \A k \in DOMAIN steps[i].new :
        \/ PatternOf(k) \in u.damaged
        \/ /\ LastOf(steps, i, k) => After(steps[i])[k] = u.data[k]
           /\ \A j \in DOMAIN steps : NextOf(steps, i, j, k) => After(steps[i])[k] = Before(steps[j])[k]
OldOf(step) == step.old
NewOf(step) == step.new
StepsOf(u) == IF u.step = None THEN u.past ELSE Append(u.past, u.step)
HistoryTiles == Tiles(ui, StepsOf(ui), OldOf, NewOf) /\ Tiles(ui, ui.future, NewOf, OldOf)

(* The assertion of redo: while a step is open there is nothing to redo.   *)
OpenStepHasNoFuture == ui.step # None => ui.future = <<>>

(* The history is sound: the steps fit one another and the data, whatever  *)
(* was edited, undone and redone, and what is removed.                     *)
HistoryIsSound == TypeOK /\ HistoryTiles /\ OpenStepHasNoFuture

(* A cached column never shows other triggers than the store, from one     *)
(* handler to the next, unless its pattern was removed meanwhile, also when *)
(* the instance it was made for has gone.                                  *)
CacheIsCurrent ==
    ui.last # None /\ ~ui.last.orphan => ui.last.rows = Stored(ui, ui.last.key)

(* Replace mode is never on with the typewriter disconnected, in whichever *)
(* order the two are switched.                                             *)
ReplaceNeedsConnection == ui.replace => ui.connected

(* What a handler goes by is what there is: the column it asks again and   *)
(* again, and the modes that decide whether it overwrites.                 *)
HandlersSeeTheSheet == CacheIsCurrent /\ ReplaceNeedsConnection

(* While the view follows the playback and nothing is recorded, no trigger *)
(* of a pattern that stays changes: a field or a chord that was begun      *)
(* before the playback started leaves nothing behind.                      *)
Frozen == ui.playing /\ ~ui.recording
Triggers(u) == [k \in {ColKey(p, c) : p \in UsedPatterns(ui) \cap UsedPatterns(ui)', c \in ColNums} |-> u.data[k]]
FollowingFreezesTriggers == [][Frozen /\ Frozen' => Triggers(ui') = Triggers(ui)]_vars

(* Undo and redo show the edit where its pattern instance is now: if the   *)
(* instance is still in the order list, the cursor is in it afterwards.    *)
ShowsStep(s) ==
    s.loc # None /\ SystemsOf(ui, s.pinst) # {}
        => ui'.sel.sys \in SystemsOf(ui, s.pinst) /\ ui'.sel.col = s.loc.col
HistoryShowsItsPattern ==
    [][/\ Len(ui'.future) > Len(ui.future) => ShowsStep(Last(ui'.future))
       /\ Len(ui'.future) < Len(ui.future) /\ RedoEdit => ShowsStep(Last(ui.future))]_vars

(* Playback and history act where the user looks: nothing is changed       *)
(* behind a moving view, and nothing is undone out of sight.               *)
ChangesAreSeen == FollowingFreezesTriggers /\ HistoryShowsItsPattern

(* What was cut can be pasted back: pasting at the top left corner of the  *)
(* area gives every column its triggers again, but for those of the area   *)
(* that are past the end of the pattern, which was shortened after they    *)
(* were entered: they are cut (or removed) for good.                       *)
Meaning(u) == [k \in SheetKeys |-> IF k[2] = "col" THEN ContentOf(Stored(u, k)) ELSE u.data[k]]
AreaKeys(u) == {KeyAt(u, AreaLocation(u, c)) : c \in AreaColumns(u)}
IsPastEnd(u, ts) ==
    TopLeft(u).ts <= ts /\ ts < BottomRight(u).ts /\ ts > Length(u, PatternAt(u, TopLeft(u).sys))
MeaningWithin(u) ==
    [k \in SheetKeys |->
        IF k \in AreaKeys(u)
        THEN ContentOf(Keeping(Stored(u, k), {r \in ToSet(Stored(u, k)) : ~IsPastEnd(u, r.ts)}))
        ELSE Meaning(u)[k]]
CutCanBePasted ==
    [][HasArea(ui) /\ ~HasArea(ui') /\ ui'.failed = None /\ Cut /\ ~(ui.last # None /\ ui.last.orphan)
        /\ TopLeft(ui).ts <= Length(ui, PatternAt(ui, TopLeft(ui).sys))
        => Meaning(PasteArea([ui' EXCEPT !.sel = TopLeft(ui)])) = MeaningWithin(ui)]_vars
=============================================================================
