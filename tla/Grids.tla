-------------------------------- MODULE Grids --------------------------------
(***************************************************************************)
(* The grids of the sheet: the grid editor (views/sheet/grideditor.py),    *)
(* the grid patterns (model/gridpattern.py, model/gridmanager.py) and the  *)
(* grid tools of the sheet (views/sheet/toolbar.py), which say where in a  *)
(* pattern a grid is used.                                                 *)
(*                                                                         *)
(* Every edit goes to the store at once and the widgets follow with the    *)
(* update its signals ask for.  An input finds the widgets up to date: the *)
(* updates are much faster than a hand.  The selected line is a time stamp *)
(* of the session: nothing ties it to a line that exists.  There is one    *)
(* pattern; its rows are at Rows, where the cursor may be.                 *)
(*                                                                         *)
(* First the lines (model/grid.py and the overlay grids of column.py):     *)
(* which are shown at a zoom level, where they are in a column, and those  *)
(* next to a row.                                                          *)
(*                                                                         *)
(* A time stamp is an integer.  Rows and lines are multiples of Unit; one  *)
(* is the least difference of two time stamps, Tstamp(0, 1).  Lines are    *)
(* <<time stamp, style>>, and style 0 is the major one.                    *)
(***************************************************************************)
EXTENDS Integers, Sequences, FiniteSets, SequencesExt

CONSTANTS None,
          Unit,
          Styles,        \* 0..STYLE_COUNT - 1
          DefaultGrid,   \* DEFAULT_GRID_PATTERN, the grid 0 and any that does not exist
          GridIds,       \* 1..n; grid 0 is the default one and is not edited
          Columns,
          Rows,
          PatternLength,
          Areas,         \* <<first column, last column, first row, row where it ends>>
          Lengths, Offsets, Spacings, PartCounts, Warps, Pixels, Heights,
          Beginnings,    \* [store, session]: what may be there at first
          MaxActions     \* bound of the model: inputs

TimeOf(line) == line[1]
StyleOf(line) == line[2]
Precedes(a, b) == TimeOf(a) < TimeOf(b) \/ (TimeOf(a) = TimeOf(b) /\ StyleOf(a) < StyleOf(b))
InTimeOrder(lines) ==
    [i \in 1..Cardinality(lines) |->
        CHOOSE l \in lines : Cardinality({k \in lines : Precedes(k, l)}) = i - 1]

(* The lines within the length of the grid.                                *)
Visible(grid) == SelectSeq(grid.lines, LAMBDA l : TimeOf(l) < grid.length)

(* The lines where they are shown: moved by the offset.                    *)
Shifted(grid) ==
    InTimeOrder({<<(TimeOf(l) + grid.offset) % grid.length, StyleOf(l)>> : l \in ToSet(Visible(grid))})

(* The place of a shown line in the data.                                  *)
Unshifted(grid, ts) == (ts + grid.length - grid.offset) % grid.length

-----------------------------------------------------------------------------
(* What is shown when a row of text is tr high: no two lines of a style    *)
(* and of those above it are closer than the style wants.                  *)

LeastDistance(grid, style, tr) == (grid.spacing[style] * tr) \div 2

TooClose(grid, styles, style, tr) ==
    LET lines == SelectSeq(Shifted(grid), LAMBDA l : StyleOf(l) \in styles /\ StyleOf(l) <= style)
        n == Len(lines)
        least == LeastDistance(grid, style, tr)
    IN \/ \E i \in 1..n - 1 : TimeOf(lines[i + 1]) - TimeOf(lines[i]) < least
       \/ n > 0 /\ TimeOf(lines[1]) + grid.length - TimeOf(lines[n]) < least

AllowedStyles(grid, tr) ==
    FoldLeft(LAMBDA styles, s : IF TooClose(grid, styles, s, tr) THEN styles \ {s} ELSE styles,
             Styles, [s \in 1..Cardinality(Styles) - 1 |-> s])

(* The cycles of the grid from one that is shown to the next.              *)
Cycles(grid, tr) ==
    IF grid.length >= LeastDistance(grid, 0, tr) THEN 1
    ELSE Min({c \in {2, 4, 8} : c * grid.length >= LeastDistance(grid, 0, tr)})

GridSpec(grid, tr) ==
    [length |-> grid.length, cycles |-> Cycles(grid, tr),
     lines |-> SelectSeq(Shifted(grid), LAMBDA l : StyleOf(l) \in AllowedStyles(grid, tr))]

-----------------------------------------------------------------------------
(* One grid.  The lists of lines are not empty: the major line is shown at *)
(* any zoom level.                                                         *)

(* Wrong: the line at the row itself is passed over.                       *)
IsLaterStrictly(line, pos) == TimeOf(line) > pos
IsLater(line, pos) == TimeOf(line) >= pos

NextInfo(spec, row) ==
    LET pos == row % spec.length
        later == {i \in DOMAIN spec.lines : IsLater(spec.lines[i], pos)}
        index == IF later = {} THEN 1 ELSE Min(later)
        at == row + ((spec.length + TimeOf(spec.lines[index]) - pos) % spec.length)
        over == (at \div spec.length) % spec.cycles
    IN [index |-> index, at |-> at + (IF over = 0 THEN 0 ELSE (spec.cycles - over) * spec.length)]

(* From a line to the one after it.                                        *)
Step(spec, from, to) ==
    TimeOf(spec.lines[to]) - TimeOf(spec.lines[from]) + (IF to <= from THEN spec.length ELSE 0)

PrevOfSpec(spec, row) ==
    LET next == NextInfo(spec, row)
        n == Len(spec.lines)
        index == IF next.index = 1 THEN n ELSE next.index - 1
        at == next.at - Step(spec, index, next.index)
    IN at - ((at \div spec.length) % spec.cycles) * spec.length

(* The lines from start until stop: every cycles-th of those that follow.  *)
LinesOfSpec(spec, start, stop) ==
    LET first == NextInfo(spec, start)
        n == Len(spec.lines)
        After(i) == (i % n) + 1
        walk[k \in 0..(stop - start)] ==
            IF k = 0 THEN [index |-> first.index, at |-> first.at]
            ELSE LET w == walk[k - 1]
                 IN [index |-> After(w.index), at |-> w.at + Step(spec, w.index, After(w.index))]
    IN {walk[k].at : k \in {j \in 0..(stop - start) : walk[j].at < stop /\ j % spec.cycles = 0}}

-----------------------------------------------------------------------------
(* A column: its overlay grids are <<row, grid>>, each until the row of    *)
(* the next; where there is none, or for None, the base grid is used.      *)

Before(info, ts) == SelectSeq(info, LAMBDA e : e[1] < ts)
Within(info, start, stop) == SelectSeq(info, LAMBDA e : start <= e[1] /\ e[1] < stop)

OverlaySlice(info, start, stop) ==
    LET smaller == Before(info, start)
        contained == Within(info, start, stop)
    IN IF contained # <<>> /\ contained[1][1] = start THEN contained
       ELSE <<<<start, IF smaller = <<>> THEN None ELSE Last(smaller)[2]>>>> \o contained

OverlayAt(info, row) ==
    LET i == Len(SelectSeq(info, LAMBDA e : e[1] <= row))
    IN IF i = 0 THEN None ELSE info[i][2]

(* From the row of the entry until that of the next.                       *)
OverlayRange(info, row, length) ==
    LET i == Len(SelectSeq(info, LAMBDA e : e[1] <= row))
    IN <<IF i = 0 THEN 0 ELSE info[i][1], IF i < Len(info) THEN info[i + 1][1] ELSE length + 1>>

WithoutRepeats(info) ==
    FoldLeft(LAMBDA done, e : IF e[2] = (IF done = <<>> THEN None ELSE Last(done)[2])
                              THEN done ELSE Append(done, e),
             <<>>, info)

(* The grid that is in use where the range ends.                           *)
Following(info, start, stop) == OverlayAt(info, stop)

SetOverlay(info, start, stop, id) ==
    WithoutRepeats(Before(info, start)
                   \o <<<<start, id>>, <<stop, Following(info, start, stop)>>>>
                   \o SelectSeq(info, LAMBDA e : e[1] > stop))

(* The grid that a column uses at a row.                                   *)
GridAt(info, base, row) == IF OverlayAt(info, row) = None THEN base ELSE OverlayAt(info, row)

GridOf(grids, id) == IF id \in DOMAIN grids /\ grids[id] # None THEN grids[id] ELSE DefaultGrid
PartSpec(grids, base, part, tr) == GridSpec(GridOf(grids, IF part[2] = None THEN base ELSE part[2]), tr)

(* get_next_or_current_line: in the first part with a line before its end. *)
NextLine(grids, info, base, row, length, tr) ==
    LET parts == OverlaySlice(info, row, length)
        at == [i \in DOMAIN parts |-> NextInfo(PartSpec(grids, base, parts[i], tr), parts[i][1]).at]
        found == {i \in DOMAIN parts : i = Len(parts) \/ at[i] < parts[i + 1][1]}
    IN at[Min(found)]

(* get_prev_line: in the last part with a line after its beginning.        *)
PrevLine(grids, info, base, row, tr) ==
    LET parts == OverlaySlice(info, 0, row)
        From(i) == IF i = Len(parts) THEN row ELSE parts[i + 1][1] - 1
        at == [i \in DOMAIN parts |-> PrevOfSpec(PartSpec(grids, base, parts[i], tr), From(i))]
        found == {i \in DOMAIN parts : at[i] >= parts[i][1]}
    IN IF found = {} THEN None ELSE at[Max(found)]

(* get_grid_lines                                                          *)
DrawnLines(grids, info, base, start, stop, tr) ==
    LET parts == OverlaySlice(info, start, stop)
        End(i) == IF i = Len(parts) THEN stop ELSE parts[i + 1][1]
    IN UNION {LinesOfSpec(PartSpec(grids, base, parts[i], tr), parts[i][1], End(i)) : i \in DOMAIN parts}

-----------------------------------------------------------------------------
(* The editor and the tools. *)

VARIABLES store,    \* [grids, base, overlays]
          session,  \* [grid, line, count, style, warp, default, shown, at, area]
          view,     \* the widgets of the editor and of the tool bar
          signals,
          done,     \* history variable: what the last input did
          failed,   \* an assertion of the program failed
          actions

vars == <<store, session, view, signals, done, failed, actions>>

Existing == {id \in GridIds : store.grids[id] # None}
Grid == GridOf(store.grids, session.grid)
Lines == Shifted(Grid)
StylesOfLines == [ts \in {TimeOf(l) : l \in ToSet(Lines)} |->
                     (CHOOSE l \in ToSet(Lines) : TimeOf(l) = ts)[2]]
HasLine == session.grid # None /\ session.line \in DOMAIN StylesOfLines
Effective(c, row) == GridAt(store.overlays[c], store.base, row)

(* The grid at the cursor; new patterns have it as well.                   *)
DefaultId == Effective(session.at[1], session.at[2])

-----------------------------------------------------------------------------
(* What the widgets show once they are updated.                            *)

ShownGeneral(style) ==
    IF session.grid = None THEN [view.general EXCEPT !.on = FALSE, !.style = style]
    ELSE [on |-> TRUE, style |-> style, length |-> Grid.length, offset |-> Grid.offset,
          spacing |-> Grid.spacing[style]]

ShownSubdiv == [on |-> HasLine, count |-> session.count, style |-> session.style, warp |-> session.warp]

ShownLine ==
    [on |-> HasLine, free |-> HasLine /\ StylesOfLines[session.line] # 0,
     style |-> IF HasLine /\ StylesOfLines[session.line] # 0 THEN StylesOfLines[session.line] ELSE view.line.style]

IsShown(id, items) == IF id \in items THEN id ELSE 0

LineSignals == {"selection", "line", "modified"}
ToolSignals == {"list", "grid", "cursor"}
SubdivSignals == {"selection", "line", "modified", "subdiv"}

Update ==
    /\ signals # {}
    /\ LET Got(s) == signals \cap s # {}
           id == IF Got(ToolSignals) THEN DefaultId ELSE session.default
           items == IF "list" \in signals THEN Existing \cup {0} ELSE view.tool.items
       IN /\ session' = [session EXCEPT !.default = id]
          /\ view' = [list |-> IF "list" \in signals THEN Existing ELSE view.list,
                      remove |-> IF Got({"list", "selection"})
                                 THEN Existing # {} /\ session.grid # None ELSE view.remove,
                      general |-> IF Got({"selection", "modified"})
                                  THEN ShownGeneral(view.general.style) ELSE view.general,
                      subdiv |-> IF Got(SubdivSignals) THEN ShownSubdiv ELSE view.subdiv,
                      line |-> IF Got(LineSignals) THEN ShownLine ELSE view.line,
                      tool |-> [items |-> items,
                                id |-> IF Got(ToolSignals) THEN IsShown(id, items) ELSE view.tool.id],
                      shown |-> IF "grid" \in signals THEN session.shown ELSE view.shown]
    /\ signals' = {}
    /\ done' = [name |-> "none"]
    /\ UNCHANGED <<store, failed, actions>>

Init ==
    \E b \in Beginnings :
        /\ store = b.store
        /\ session = b.session
        /\ view = [list |-> {}, remove |-> FALSE,
                   general |-> [on |-> FALSE, style |-> 0, length |-> 0, offset |-> 0, spacing |-> 0],
                   subdiv |-> [on |-> FALSE, count |-> 2, style |-> 1, warp |-> FALSE],
                   line |-> [on |-> FALSE, free |-> FALSE, style |-> 1],
                   tool |-> [items |-> {0}, id |-> 0], shown |-> TRUE]
        /\ signals = {"list", "selection", "grid"}
        /\ done = [name |-> "none"]
        /\ failed = FALSE
        /\ actions = 0

-----------------------------------------------------------------------------
(* Inputs                                                                  *)

CanAct == signals = {} /\ ~failed /\ actions < MaxActions
Acts(name, updates) ==
    /\ actions' = actions + 1
    /\ signals' = updates
    /\ done' = [name |-> name]
    /\ UNCHANGED view
Edits(grid) == store' = [store EXCEPT !.grids[session.grid] = grid]
Succeeds == UNCHANGED failed

AddGrid ==
    /\ CanAct /\ Existing # GridIds
    /\ store' = [store EXCEPT !.grids[Min(GridIds \ Existing)] = DefaultGrid]
    /\ Acts("add", {"list"}) /\ Succeeds /\ UNCHANGED session

BaseWithout(id) == IF store.base = id THEN 0 ELSE store.base

(* The overlay grids of the columns keep the id.                           *)
RemoveGrid ==
    /\ CanAct /\ view.remove
    /\ store' = [store EXCEPT !.grids[session.grid] = None, !.base = BaseWithout(session.grid)]
    /\ session' = [session EXCEPT !.grid = None, !.line = None]
    /\ Acts("remove", {"list", "modified", "selection"}) /\ Succeeds

SelectGrid ==
    /\ CanAct
    /\ \E id \in view.list :
        session' = [session EXCEPT !.grid = id, !.line = IF id = session.grid THEN session.line ELSE None]
    /\ Acts("select", {"selection"}) /\ Succeeds /\ UNCHANGED store

Distance(a, b) == IF a < b THEN b - a ELSE a - b

(* The first of the nearest lines, if one is nearer than two lengths.      *)
ClickLine ==
    /\ CanAct /\ session.grid # None
    /\ \E px \in Pixels :
        LET near == {l \in ToSet(Lines) : Distance(px, TimeOf(l)) < 2 * Grid.length}
            times == {TimeOf(l) : l \in {n \in near : \A l \in near :
                                            Distance(px, TimeOf(n)) <= Distance(px, TimeOf(l))}}
        IN /\ failed' = (near = {})
           /\ session' = IF near = {} THEN session ELSE [session EXCEPT !.line = Min(times)]
    /\ Acts("click", {"line"}) /\ UNCHANGED store

(* select_prev_line, select_next_line: the first line if none is selected. *)
LineBeside(delta) ==
    LET n == Len(Lines)
        i == CHOOSE i \in 1..n : TimeOf(Lines[i]) = session.line
    IN TimeOf(Lines[IF ~HasLine THEN 1
                    ELSE IF i + delta \in 1..n THEN i + delta ELSE i])

MoveSelection ==
    /\ CanAct /\ session.grid # None
    /\ \E delta \in {-1, 1} : session' = [session EXCEPT !.line = LineBeside(delta)]
    /\ Acts("move", {"line"}) /\ Succeeds /\ UNCHANGED store

-----------------------------------------------------------------------------
(* subdivide_interval: new lines between a place and the next line.        *)

(* Wrong: the line is looked for where it is shown.                        *)
PlaceAsShown(grid, ts) == ts
PlaceOf(grid, ts) == Unshifted(grid, ts)

NewTimes(ts, interval) ==
    [i \in 1..session.count - 1 |->
        (ts + (IF session.warp THEN (i * i * interval) \div (session.count * session.count)
               ELSE (i * interval) \div session.count)) % Grid.length]

AreNew(times, lines) ==
    Cardinality(ToSet(times) \cup {TimeOf(l) : l \in ToSet(lines)}) = Len(times) + Len(lines)

Subdivide ==
    LET lines == Visible(Grid)
        ts == PlaceOf(Grid, session.line)
        later == {TimeOf(l) : l \in {k \in ToSet(lines) : TimeOf(k) > ts}}
        first == TimeOf(lines[1])
        interval == (IF later = {} THEN first + Grid.length ELSE Min(later)) - ts
        new == NewTimes(ts, interval)
    IN IF (later = {} /\ first > ts) \/ interval <= 0
       THEN failed' = TRUE /\ UNCHANGED store
       ELSE /\ Succeeds
            /\ IF AreNew(new, lines)
               THEN Edits([Grid EXCEPT !.lines = InTimeOrder(ToSet(lines) \cup {<<t, session.style>> : t \in ToSet(new)})])
               ELSE UNCHANGED store

(* Insert: at the selected time stamp, be there a line or not.             *)
KeyInsert ==
    /\ CanAct /\ session.grid # None /\ session.line # None
    /\ Subdivide
    /\ Acts("subdivide", {"modified"}) /\ UNCHANGED session

ApplySubdivision ==
    /\ CanAct /\ view.subdiv.on
    /\ IF HasLine THEN Subdivide ELSE failed' = TRUE /\ UNCHANGED store
    /\ Acts("subdivide", {"modified"}) /\ UNCHANGED session

ChangeSubdivision ==
    /\ CanAct /\ view.subdiv.on
    /\ \E count \in PartCounts, style \in Styles \ {0}, warp \in Warps :
        /\ <<count, style, warp>> # <<session.count, session.style, session.warp>>
        /\ \/ count = session.count /\ style = session.style
           \/ count = session.count /\ warp = session.warp
           \/ style = session.style /\ warp = session.warp
        /\ session' = [session EXCEPT !.count = count, !.style = style, !.warp = warp]
    /\ Acts("parameters", {"subdiv"}) /\ Succeeds /\ UNCHANGED store

(* remove_line; lines past the end go as well.                             *)
WithoutLine(ts) == [Grid EXCEPT !.lines = SelectSeq(Visible(Grid), LAMBDA l : TimeOf(l) # PlaceOf(Grid, ts))]

(* Delete: the next line is selected, or the one before the last.          *)
KeyDelete ==
    /\ CanAct /\ HasLine /\ StylesOfLines[session.line] # 0
    /\ session' = [session EXCEPT !.line = IF LineBeside(1) = session.line THEN LineBeside(-1) ELSE LineBeside(1)]
    /\ Edits(WithoutLine(session.line))
    /\ Acts("line", {"line", "modified"}) /\ Succeeds

(* The button leaves the selection where the line was.                     *)
RemoveLine ==
    /\ CanAct /\ view.line.on /\ view.line.free
    /\ Edits(WithoutLine(session.line))
    /\ Acts("line", {"modified"}) /\ Succeeds /\ UNCHANGED session

Restyled(ts, style) ==
    [i \in DOMAIN Visible(Grid) |->
        IF TimeOf(Grid.lines[i]) = PlaceOf(Grid, ts) THEN <<PlaceOf(Grid, ts), style>> ELSE Grid.lines[i]]

ChangeLineStyle ==
    /\ CanAct /\ view.line.on /\ view.line.free
    /\ \E style \in Styles \ {0, view.line.style} :
        Edits([Grid EXCEPT !.lines = Restyled(session.line, style)])
    /\ Acts("line", {"modified"}) /\ Succeeds /\ UNCHANGED session

-----------------------------------------------------------------------------
(* The general settings of the selected grid.                              *)

(* Lines past the new end stay in the data.                                *)
ChangeLength ==
    /\ CanAct /\ view.general.on
    /\ \E length \in Lengths \ {view.general.length} : Edits([Grid EXCEPT !.length = length])
    /\ Acts("general", {"modified"}) /\ Succeeds /\ UNCHANGED session

ChangeOffset ==
    /\ CanAct /\ view.general.on
    /\ \E offset \in Offsets \ {view.general.offset} :
        Edits([Grid EXCEPT !.offset = offset, !.lines = Visible(Grid)])
    /\ Acts("general", {"modified"}) /\ Succeeds /\ UNCHANGED session

ChangeSpacing ==
    /\ CanAct /\ view.general.on
    /\ \E spacing \in Spacings \ {view.general.spacing} :
        Edits([Grid EXCEPT !.spacing[view.general.style] = spacing])
    /\ Acts("general", {"modified"}) /\ Succeeds /\ UNCHANGED session

(* The spacing of another style is shown at once.                          *)
SelectSpacingStyle ==
    /\ CanAct /\ view.general.on
    /\ \E style \in Styles \ {view.general.style} : view' = [view EXCEPT !.general = ShownGeneral(style)]
    /\ actions' = actions + 1
    /\ done' = [name |-> "style"]
    /\ Succeeds /\ UNCHANGED <<store, session, signals>>

-----------------------------------------------------------------------------
(* The sheet                                                               *)

MoveCursor ==
    /\ CanAct
    /\ \E at \in Columns \X Rows : at # session.at /\ session' = [session EXCEPT !.at = at, !.area = None]
    /\ Acts("cursor", {"cursor"}) /\ Succeeds /\ UNCHANGED store

(* An area is dragged out by the cursor, or all the rows are selected.     *)
SelectArea ==
    /\ CanAct
    /\ \E area \in Areas :
        session' = [session EXCEPT !.area = area, !.at = IF area[4] \in Rows THEN <<area[2], area[4]>> ELSE @]
    /\ Acts("cursor", {"cursor"}) /\ Succeeds /\ UNCHANGED store

ToggleGrid ==
    /\ CanAct
    /\ session' = [session EXCEPT !.shown = ~session.shown]
    /\ Acts("toggle", {"grid"}) /\ Succeeds /\ UNCHANGED store

End == PatternLength + 1
IsWhole(start, stop) == start = 0 /\ stop > PatternLength
Cells(columns, start, stop) == {x \in Columns \X Rows : x[1] \in columns /\ start <= x[2] /\ x[2] < stop}
EffectiveNow == [x \in Columns \X Rows |-> Effective(x[1], x[2])]
Chooses(id, cells) ==
    /\ done' = [name |-> "choose", id |-> id, cells |-> cells, before |-> EffectiveNow]
    /\ signals' = {"grid"}
    /\ actions' = actions + 1
    /\ Succeeds /\ UNCHANGED <<session, view>>

WithOverlay(columns, start, stop, id) ==
    [c \in Columns |-> IF c \in columns THEN SetOverlay(store.overlays[c], start, stop, id)
                       ELSE store.overlays[c]]

(* The base grid is asked for by having no grid of one's own.  The whole   *)
(* pattern gets a new base grid and no overlay grids.                      *)
ChooseForArea ==
    /\ CanAct /\ session.area # None
    /\ \E id \in view.tool.items :
        LET columns == session.area[1]..session.area[2]
            start == session.area[3]
            stop == session.area[4]
            all == columns = Columns /\ IsWhole(start, stop)
            base == IF all THEN id ELSE store.base
        IN /\ store' = [store EXCEPT !.base = base,
                            !.overlays = WithOverlay(columns, start, stop, IF id = base THEN None ELSE id)]
           /\ Chooses(id, Cells(columns, start, stop))

(* Where the cursor is in an overlay grid, its rows get the new one.       *)
ChooseForOverlay ==
    /\ CanAct /\ session.area = None
    /\ LET c == session.at[1]
           info == store.overlays[c]
           range == OverlayRange(info, session.at[2], PatternLength)
       IN /\ OverlayAt(info, session.at[2]) # None
          /\ \E id \in view.tool.items :
              /\ store' = [store EXCEPT !.overlays =
                              IF IsWhole(range[1], range[2]) /\ id = store.base
                              THEN [store.overlays EXCEPT ![c] = <<>>]
                              ELSE WithOverlay({c}, range[1], range[2], IF id = store.base THEN None ELSE id)]
              /\ Chooses(id, Cells({c}, range[1], range[2]))

(* Elsewhere the base grid is changed.                                     *)
ChooseBase ==
    /\ CanAct /\ session.area = None
    /\ OverlayAt(store.overlays[session.at[1]], session.at[2]) = None
    /\ \E id \in view.tool.items :
        /\ store' = [store EXCEPT !.base = id]
        /\ Chooses(id, {x \in Columns \X Rows : OverlayAt(store.overlays[x[1]], x[2]) = None})

-----------------------------------------------------------------------------
EditsGrids == AddGrid \/ RemoveGrid \/ SelectGrid
EditsLines ==
    \/ ClickLine \/ MoveSelection
    \/ KeyInsert \/ KeyDelete
    \/ ChangeSubdivision \/ ApplySubdivision
    \/ ChangeLineStyle \/ RemoveLine
EditsGeneral == ChangeLength \/ ChangeOffset \/ ChangeSpacing \/ SelectSpacingStyle
EditsSheet ==
    \/ MoveCursor \/ SelectArea \/ ToggleGrid
    \/ ChooseForArea \/ ChooseForOverlay \/ ChooseBase

Next == Update \/ EditsGrids \/ EditsLines \/ EditsGeneral \/ EditsSheet

Spec == Init /\ [][Next]_vars

-----------------------------------------------------------------------------
(* Properties                                                              *)

Ids == GridIds \cup {0}
IsGrid(g) ==
    /\ g.length \in Nat /\ g.offset \in Nat
    /\ DOMAIN g.spacing = Styles
    /\ \A i \in DOMAIN g.lines : TimeOf(g.lines[i]) \in Nat /\ StyleOf(g.lines[i]) \in Styles

TypeOK ==
    /\ \A id \in GridIds : store.grids[id] = None \/ IsGrid(store.grids[id])
    /\ store.base \in Ids
    /\ \A c \in Columns : \A i \in DOMAIN store.overlays[c] : store.overlays[c][i][2] \in Ids \cup {None}
    /\ session.grid \in GridIds \cup {None}
    /\ session.line \in Nat \cup {None}
    /\ session.default \in Ids \cup {None}

(* Every grid is one that _make_model_dict takes: its lines are in order   *)
(* and one of those within the length is the major one.                    *)
IsSound(g) ==
    /\ g.length >= Unit
    /\ \A i \in 1..Len(g.lines) - 1 : TimeOf(g.lines[i]) < TimeOf(g.lines[i + 1])
    /\ Len(SelectSeq(Visible(g), LAMBDA l : StyleOf(l) = 0)) = 1
GridsAreSound == \A id \in Existing : IsSound(store.grids[id])

(* The assertions of the handlers hold.                                    *)
HandlersSucceed == ~failed

(* The base grid of the pattern exists.  (Overlay grids may be gone.)      *)
BaseExists == store.base = 0 \/ store.base \in Existing

(* An input for the selected line changes no other line that is shown.     *)
OtherLines(lines, ts) == SelectSeq(lines, LAMBDA l : TimeOf(l) # ts)
LineEditsHitTheirLine ==
    [][done'.name = "line" /\ actions' # actions =>
          OtherLines(Shifted(GridOf(store'.grids, session.grid)), session.line)
            = OtherLines(Lines, session.line)]_vars

(* Subdividing leaves every line, and its lines are between the selected   *)
(* place and the line after it.                                            *)
IsSubdivided ==
    LET old == ToSet(Lines)
        new == ToSet(Shifted(GridOf(store'.grids, session.grid))) \ old
        Ahead(ts) == (ts + Grid.length - session.line) % Grid.length
    IN /\ old \subseteq ToSet(Shifted(GridOf(store'.grids, session.grid)))
       /\ \A n \in new, o \in old :
            TimeOf(o) # session.line /\ Ahead(TimeOf(o)) > 0 => Ahead(TimeOf(n)) < Ahead(TimeOf(o))
SubdivisionAddsBetween == [][done'.name = "subdivide" /\ actions' # actions => IsSubdivided]_vars

(* When no update is due, the widgets show and allow what the grids say.   *)
ViewShowsGrids ==
    signals = {} =>
        /\ view.list = Existing
        /\ view.remove = (session.grid # None)
        /\ view.general.on = (session.grid # None)
        /\ view.general.on => view.general = ShownGeneral(view.general.style)
        /\ view.subdiv = ShownSubdiv
        /\ view.line = ShownLine
        /\ view.tool.items = Existing \cup {0}
        /\ view.tool.id = IsShown(DefaultId, view.tool.items)
        /\ view.shown = session.shown

(* The overlay grids of a column are in order, and none repeats the one    *)
(* before it.                                                              *)
OverlaysAreReduced ==
    \A c \in Columns :
        LET info == store.overlays[c]
        IN \A i \in DOMAIN info :
             info[i][2] # (IF i = 1 THEN None ELSE info[i - 1][2]) /\ (i > 1 => info[i - 1][1] < info[i][1])

(* A chosen grid is used in the rows it was chosen for, and all the others *)
(* keep theirs.                                                            *)
ChoiceIsExact ==
    done.name = "choose" =>
        EffectiveNow = [x \in Columns \X Rows |-> IF x \in done.cells THEN done.id ELSE done.before[x]]

(* The lines that are drawn are those of the grids in use, and the cursor  *)
(* moves from one drawn line to the next, at every height of rows.  (Not   *)
(* where the program leaves out cycles of a grid; and moving up passes     *)
(* over a line that is right before an overlay grid.)                      *)
Specs(tr) == [id \in Ids |-> GridSpec(GridOf(store.grids, id), tr)]
DrawnByDefinition(c, specs) ==
    {t \in 0..PatternLength :
        LET spec == specs[Effective(c, t)]
        IN \E i \in DOMAIN spec.lines : TimeOf(spec.lines[i]) = t % spec.length}

CursorReachesDrawnLines ==
    done.name \in {"subdivide", "line", "general", "choose", "remove"} =>
        \A tr \in Heights :
            LET specs == Specs(tr)
            IN (\A id \in Ids : specs[id].cycles = 1) =>
                 \A c \in Columns :
                    LET drawn == DrawnByDefinition(c, specs)
                        After(row) == {d \in drawn : d > row}
                        Until(row) == {d \in drawn : d < row}
                    IN /\ DrawnLines(store.grids, store.overlays[c], store.base, 0, End, tr) = drawn
                       /\ \A row \in Rows : After(row) # {} =>
                            NextLine(store.grids, store.overlays[c], store.base, row + 1, PatternLength, tr)
                              = Min(After(row))
                       /\ \A row \in Rows : Until(row) # {} =>
                            \/ PrevLine(store.grids, store.overlays[c], store.base, row, tr) = Max(Until(row))
                            \/ \E i \in DOMAIN store.overlays[c] : store.overlays[c][i][1] = Max(Until(row)) + 1
=============================================================================
