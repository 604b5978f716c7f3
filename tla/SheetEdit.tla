----------------------------- MODULE SheetEdit -----------------------------
(***************************************************************************)
(* What the methods behind the sheet do: the selection                     *)
(* (tracker/ui/model/selection.py), the edits of the sheet manager         *)
(* (sheetmanager.py), the undo history (sheethistory.py) and the part of   *)
(* the order list that the sheet depends on (album.py, song.py).           *)
(*                                                                         *)
(* The methods call one another and read a cached column between two       *)
(* writes, so each is an operator from one state of the user interface,    *)
(* the record u, to the next.  Reading the store gives the latest data put *)
(* there (module TrackerProcesses), so data is a function of the keys.     *)
(* The album is one track; a location is [sys, col, ts, idx].              *)
(*                                                                         *)
(* An edit never changes a column (column.py): it computes the new value   *)
(* of a key, which the caller puts in the store.  The rows of a column are *)
(* a sequence of [ts, evs]: the code keeps them in a dictionary, whose     *)
(* order is the order in which the rows were made and not the order of     *)
(* their time stamps, and stores them in that order.  A time stamp is a    *)
(* number of the smallest unit, and a trigger a value.                     *)
(***************************************************************************)
EXTENDS Naturals, SequencesExt, FiniteSets

CONSTANTS None,
          MaxPattern, MaxInstance,  \* the highest numbers a pattern and an instance can have
          MaxColumn,                \* the last column, COLUMNS_MAX - 1
          MaxSystems,               \* rows of the order list, a bound of the model
          DefaultLength             \* of a pattern that has no length key

ASSUME SheetAssumption ==
    /\ MaxPattern \in Nat /\ MaxInstance \in Nat /\ MaxColumn \in Nat /\ MaxSystems \in Nat
    /\ DefaultLength \in Nat \ {0}

(* A transaction of one key, and two of which the first has its way.       *)
Change(k, v) == [x \in {k} |-> v]
Joined(f, g) == [k \in DOMAIN f \union DOMAIN g |-> IF k \in DOMAIN f THEN f[k] ELSE g[k]]

(* The elements of a sequence that are in a set, in their order.           *)
Keeping(s, S) ==
    LET Kept[n \in 0..Len(s)] ==
            IF n = 0 THEN <<>> ELSE IF s[n] \in S THEN Append(Kept[n - 1], s[n]) ELSE Kept[n - 1]
    IN Kept[Len(s)]

-----------------------------------------------------------------------------
(* Columns: the edits of their triggers and of their rows.                 *)

Rest(s, i) == SubSeq(s, i, Len(s))

RowIndices(rows, ts) == {i \in DOMAIN rows : rows[i].ts = ts}
Positions(rows) == {rows[i].ts : i \in DOMAIN rows}
PositionsInRange(rows, start, stop) == {ts \in Positions(rows) : start <= ts /\ ts < stop}
RowAt(rows, ts) == rows[CHOOSE i \in RowIndices(rows, ts) : TRUE].evs
HasRow(rows, ts) == RowIndices(rows, ts) # {}
CountAt(rows, ts) == Len(RowAt(rows, ts))
HasTrigger(rows, ts, index) == HasRow(rows, ts) /\ index < CountAt(rows, ts)
TriggerAt(rows, ts, index) == RowAt(rows, ts)[index + 1]

(* A slice assignment of Python: the bounds are clamped to the list.       *)
Clamp(i, n) == IF i < n THEN i ELSE n
Slice(evs, start, stop) == SubSeq(evs, Clamp(start, Len(evs)) + 1, Clamp(stop, Len(evs)))
Splice(evs, start, stop, new) ==
    SubSeq(evs, 1, Clamp(start, Len(evs))) \o new
        \o Rest(evs, Clamp(IF stop < start THEN start ELSE stop, Len(evs)) + 1)

(* The raw data is made of triggers: a row that has none disappears.       *)
RawData(rows) == Keeping(rows, {r \in ToSet(rows) : r.evs # <<>>})

WithRow(rows, ts, evs) ==
    IF HasRow(rows, ts)
    THEN [i \in DOMAIN rows |-> IF rows[i].ts = ts THEN [rows[i] EXCEPT !.evs = evs] ELSE rows[i]]
    ELSE Append(rows, [ts |-> ts, evs |-> evs])
WithoutRows(rows, S) == Keeping(rows, {r \in ToSet(rows) : r.ts \notin S})
RowOrEmpty(rows, ts) == IF HasRow(rows, ts) THEN RowAt(rows, ts) ELSE <<>>

EditInsertSlice(rows, ts, index, evs) ==
    RawData(WithRow(rows, ts, Splice(RowOrEmpty(rows, ts), index, index, evs)))

EditInsert(rows, ts, index, ev) == EditInsertSlice(rows, ts, index, <<ev>>)

EditReplaceOrInsert(rows, ts, index, ev) ==
    IF HasTrigger(rows, ts, index)
    THEN RawData(WithRow(rows, ts, ReplaceAt(RowAt(rows, ts), index + 1, ev)))
    ELSE EditInsert(rows, ts, index, ev)

EditRemove(rows, ts, index) ==
    RawData(WithRow(rows, ts, Splice(RowAt(rows, ts), index, index + 1, <<>>)))

EditReplaceSlice(rows, ts, start, stop, evs) ==
    RawData(WithRow(rows, ts, Splice(RowAt(rows, ts), start, stop, evs)))

EditRemoveSlice(rows, ts, start, stop) ==
    IF start = 0 /\ stop >= CountAt(rows, ts)
    THEN RawData(WithoutRows(rows, {ts}))
    ELSE RawData(WithRow(rows, ts, Splice(RowAt(rows, ts), start, stop, <<>>)))

EditRemoveRows(rows, start, stop) ==
    RawData(WithoutRows(rows, PositionsInRange(rows, start, stop)))

(* The pasted rows are relative to start; those below the end of the       *)
(* pattern are left out.                                                   *)
EditReplaceRows(rows, start, stop, new, length) ==
    LET kept == WithoutRows(rows, PositionsInRange(rows, start, stop))
        shifted == [i \in DOMAIN new |-> [ts |-> start + new[i].ts, evs |-> new[i].evs]]
        fits == Keeping(shifted, {r \in ToSet(shifted) : r.ts <= length})
        Pasted[n \in 0..Len(fits)] ==
            IF n = 0 THEN kept ELSE WithRow(Pasted[n - 1], fits[n].ts, fits[n].evs)
    IN RawData(Pasted[Len(fits)])

(* Wrong: the first row of an area is left out.                            *)
RowsAfter(rows, start, stop) ==
    LET cut == Keeping(rows, {r \in ToSet(rows) : start < r.ts /\ r.ts < stop})
    IN [i \in DOMAIN cut |-> [ts |-> cut[i].ts - start, evs |-> cut[i].evs]]

(* The rows of an area, relative to its start. *)
RowsInRange(rows, start, stop) ==
    LET cut == Keeping(rows, {r \in ToSet(rows) : start <= r.ts /\ r.ts < stop})
    IN [i \in DOMAIN cut |-> [ts |-> cut[i].ts - start, evs |-> cut[i].evs]]

(* What a column says, whatever the order of its rows. *)
ContentOf(rows) == [ts \in Positions(rows) |-> RowAt(rows, ts)]

-----------------------------------------------------------------------------
(* The keys of the store.                                                  *)

Patterns == 0..MaxPattern
ColNums == 0..MaxColumn
ColKey(p, c) == <<p, "col", c>>
LengthKey(p) == <<p, "length", 0>>
SheetKeys == {ColKey(p, c) : p \in Patterns, c \in ColNums} \union {LengthKey(p) : p \in Patterns}
PatternOf(k) == k[1]

Fail(u) == [u EXCEPT !.failed = "assertion"]
Raise(u) == [u EXCEPT !.failed = "index"]   \* an IndexError or a KeyError
Put(u, t) == [u EXCEPT !.data = [k \in SheetKeys |-> IF k \in DOMAIN t THEN t[k] ELSE @[k]]]

----------------------------------------------------------------------------
(* The order list. *)

HasAlbum(u) == u.order # <<>>
PatternAt(u, sys) == u.order[sys + 1][1]
InAlbum(u, loc) == loc.sys < Len(u.order)
Length(u, p) == IF u.data[LengthKey(p)] = None THEN DefaultLength ELSE u.data[LengthKey(p)]
Stored(u, k) == IF u.data[k] = None THEN <<>> ELSE u.data[k]
InstancesOf(u, p) == {u.order[i][2] : i \in {j \in DOMAIN u.order : u.order[j][1] = p}}
SystemsOf(u, pinst) == {i - 1 : i \in {j \in DOMAIN u.order : u.order[j] = pinst}}

(* get_new_pattern_num, get_new_pattern_instance_num: the smallest free    *)
(* number.                                                                 *)
SmallestFree(used, max) == CHOOSE n \in 0..max : n \notin used /\ \A m \in 0..max : m \notin used => n <= m
UsedPatterns(u) == {u.order[i][1] : i \in DOMAIN u.order}
NewPattern(u) == SmallestFree(UsedPatterns(u), MaxPattern)
NewInstance(u, p) == SmallestFree(InstancesOf(u, p), MaxInstance)

InsertPatternInstance(u, sys, pinst) ==
    [u EXCEPT !.order = InsertAt(@, Clamp(sys, Len(@)) + 1, pinst)]

MovePatternInstance(u, from, to) ==
    LET rest == RemoveAt(u.order, from + 1)
    IN [u EXCEPT !.order = InsertAt(rest, Clamp(to, Len(rest)) + 1, u.order[from + 1])]

----------------------------------------------------------------------------
(* The history. *)

Touches(step, p) == \E k \in DOMAIN step.new : PatternOf(k) = p
TouchedBy(steps) == UNION {{PatternOf(k) : k \in DOMAIN s.new} : s \in steps}

Commit(u) ==
    IF u.step = None THEN u ELSE [u EXCEPT !.past = Append(@, u.step), !.step = None]

(* Wrong: the old value is the one before the latest transaction.          *)
ExtendStepAnew(u, step, t, loc) ==
    LET located == step.loc = None /\ loc # None
    IN [old |-> Joined([k \in DOMAIN t |-> u.data[k]], step.old),
        new |-> Joined(t, step.new),
        loc |-> IF located THEN loc ELSE step.loc,
        pinst |-> IF located THEN u.order[loc.sys + 1] ELSE step.pinst]

(* Step.add_transaction: the old value of a key is its value before the    *)
(* first transaction of the step that has it.                              *)
ExtendStep(u, step, t, loc) ==
    LET fresh == [k \in DOMAIN t \ DOMAIN step.old |-> u.data[k]]
        located == step.loc = None /\ loc # None
    IN [old |-> Joined(fresh, step.old),
        new |-> Joined(t, step.new),
        loc |-> IF located THEN loc ELSE step.loc,
        pinst |-> IF located THEN u.order[loc.sys + 1] ELSE step.pinst]

NewStep == [old |-> <<>>, new |-> <<>>, loc |-> None, pinst |-> None]

AddStep(u, t, loc, commit) ==
    LET u1 == [u EXCEPT !.step = ExtendStep(u, IF u.step = None THEN NewStep ELSE u.step, t, loc),
                        !.future = <<>>]
    IN IF commit THEN Commit(u1) ELSE u1

(* remove_pattern_changes looks at the steps of the past and of the        *)
(* future, and not at the one that is still open.  "damaged" records the   *)
(* patterns whose history loses a step: those that share a step with the   *)
(* removed pattern.                                                        *)
RemovePatternChanges(u, p) ==
    LET Kept(steps) == Keeping(steps, {s \in ToSet(steps) : ~Touches(s, p)})
        Dropped == {s \in ToSet(u.past) \union ToSet(u.future) : Touches(s, p)}
        Open == IF u.step # None /\ Touches(u.step, p) THEN TouchedBy({u.step}) ELSE {}
    IN [u EXCEPT !.past = Kept(@), !.future = Kept(@),
                 !.damaged = @ \union (TouchedBy(Dropped) \ {p}) \union Open]

(* Album.remove_pattern_instance: the last instance takes the pattern with *)
(* it.  "orphan" marks a cached column whose pattern is gone; one whose    *)
(* instance alone is gone stays as it is.                                  *)
RemovePatternInstance(u, sys) ==
    LET p == PatternAt(u, sys)
        gone == [k \in {j \in SheetKeys : PatternOf(j) = p} |-> None]
        u1 == [u EXCEPT !.order = RemoveAt(@, sys + 1)]
    IN IF Cardinality(InstancesOf(u, p)) > 1 THEN u1
       ELSE [Put(RemovePatternChanges(u1, p), gone) EXCEPT
                !.last = IF @ # None /\ PatternOf(@.key) = p THEN [@ EXCEPT !.orphan = TRUE] ELSE @]

----------------------------------------------------------------------------
(* The selection.  get_location clamps the selected location to the album  *)
(* and keeps the result; Located is the state it leaves.                   *)

Fallback == [sys |-> 0, col |-> 0, ts |-> 0, idx |-> 0]

Location(u) ==
    IF u.sel = None \/ ~HasAlbum(u) THEN Fallback
    ELSE LET sys == Clamp(u.sel.sys, Len(u.order) - 1)
         IN [u.sel EXCEPT !.sys = sys, !.ts = Clamp(@, Length(u, PatternAt(u, sys)))]

Located(u) == IF u.sel = None \/ ~HasAlbum(u) THEN u ELSE [u EXCEPT !.sel = Location(u)]

(* get_column_at_location returns the cached column if it is the same one. *)
KeyAt(u, loc) == ColKey(PatternAt(u, loc.sys), loc.col)
IsCached(u, loc) == u.last # None /\ u.last.key = KeyAt(u, loc)
RowsAt(u, loc) == IF IsCached(u, loc) THEN u.last.rows ELSE Stored(u, KeyAt(u, loc))
Cached(u, loc) ==
    IF ~HasAlbum(u) \/ IsCached(u, loc) THEN u
    ELSE [u EXCEPT !.last = [key |-> KeyAt(u, loc), inst |-> u.order[loc.sys + 1][2],
                             rows |-> Stored(u, KeyAt(u, loc)), orphan |-> FALSE]]

(* The same column is one of the same pattern, but it remembers the        *)
(* instance that it was made for and asserts that this is in the album     *)
(* when it is read after a flush or asked for the length of the pattern.   *)
IsPlaced(u, loc) == IsCached(u, loc) => <<PatternOf(u.last.key), u.last.inst>> \in ToSet(u.order)

ClampedLocation(u, loc) ==
    IF ~HasAlbum(u) THEN None
    ELSE [loc EXCEPT !.idx = IF HasTrigger(RowsAt(u, loc), loc.ts, 0)
                             THEN Clamp(@, CountAt(RowsAt(u, loc), loc.ts)) ELSE 0]

(* The control whose events are played at a location: the one selected by  *)
(* the nearest preceding audio unit event, where "nearest" means nearest   *)
(* in the order in which the rows were made.                               *)
CONSTANT Selects(_)   \* the control that a trigger selects, or None
LastControl(evs) ==
    LET I == {i \in DOMAIN evs : Selects(evs[i]) # None}
    IN IF I = {} THEN None ELSE Selects(evs[CHOOSE i \in I : \A j \in I : j <= i])

InferredControl(rows, loc) ==
    LET here == IF HasTrigger(rows, loc.ts, 0) THEN Slice(RowAt(rows, loc.ts), 0, loc.idx) ELSE <<>>
        above == {i \in DOMAIN rows : rows[i].ts < loc.ts /\ LastControl(rows[i].evs) # None}
    IN IF LastControl(here) # None THEN LastControl(here)
       ELSE IF above = {} THEN 0
       ELSE LastControl(rows[CHOOSE i \in above : \A j \in above : j <= i].evs)

SetLocation(u, loc) ==
    LET u1 == Located([u EXCEPT !.sel = loc])
        u2 == Cached(u1, Location(u1))
    IN [u2 EXCEPT !.control =
            IF HasAlbum(u2) THEN InferredControl(RowsAt(u2, Location(u2)), ClampedLocation(u2, Location(u2)))
            ELSE 0]

AddColumnUpdate(u, loc) == [u EXCEPT !.last = None]   \* _on_column_update
FlushColumn(u) == [u EXCEPT !.last = None]

(* Columns are visited from the left: only the first can be the cached     *)
(* one, for it is forgotten at the second.                                 *)
Visited(u, first, loc) == IF loc.col = first.col THEN u ELSE FlushColumn(u)
VisitedRows(u, first, loc) == RowsAt(Visited(u, first, loc), loc)

(* Selection.clear_area, and the tests of the selected area. *)
ClearArea(u) == [u EXCEPT !.start = None, !.stop = None]
TrySetStart(u, loc) == IF u.start = None THEN [u EXCEPT !.start = loc] ELSE u
SetStop(u, loc) == IF u.start # None /\ u.start.sys = loc.sys THEN [u EXCEPT !.stop = loc] ELSE Fail(u)
HasArea(u) == u.start # None /\ u.stop # None /\ u.start # u.stop
IsSlice(u) == HasArea(u) /\ u.start.col = u.stop.col /\ u.start.ts = u.stop.ts
Lower(a, b) == IF a < b THEN a ELSE b
Upper(a, b) == IF a < b THEN b ELSE a
Corner(u, Pick(_, _)) ==
    [sys |-> u.start.sys, col |-> Pick(u.start.col, u.stop.col), ts |-> Pick(u.start.ts, u.stop.ts),
     idx |-> IF IsSlice(u) THEN Pick(u.start.idx, u.stop.idx) ELSE 0]
TopLeft(u) == Corner(u, Lower)
BottomRight(u) == Corner(u, Upper)
=============================================================================
