------------------------------- MODULE Envelope -------------------------------
(***************************************************************************)
(* The envelope editor: EnvelopeView (tracker/ui/views/envelope.py) and    *)
(* the widget that keeps it and the store alike                            *)
(* (audiounit/autimeenv.py).                                               *)
(*                                                                         *)
(* The user drags nodes and loop markers.  Each change goes to the store   *)
(* at once, but the view has it only after the next update, and the mouse  *)
(* may move, and the button be released, in between.  Positions are        *)
(* integers and epsilon is one; the zoom of the view is left out, so a     *)
(* pointer is a position of the envelope.  Indices are from one.           *)
(***************************************************************************)
EXTENDS Integers, Sequences, SequencesExt

CONSTANTS None,
          Kinds,      \* the envelopes: their ranges, locks, limits and data at first
          Pointers,
          Near,       \* node_focus_dist_max
          HandleDist, \* loop_handle_focus_dist_max
          RemoveDist, \* node_remove_dist_min
          Far,        \* stands for infinity: further than any pointer
          MaxActions  \* bound of the model: presses and toggles

VARIABLES store,   \* [kind, nodes, marks, enabled, loop]: the data
          view,    \* EnvelopeView and the toggles
          signals,
          done,    \* history variable: the last input, or the last press in a drag
          actions

vars == <<store, view, signals, done, actions>>

Kind == store.kind
Abs(n) == IF n < 0 THEN -n ELSE n
Least(a, b) == IF a < b THEN a ELSE b
Most(a, b) == IF a > b THEN a ELSE b
Clamp(n, lo, hi) == Least(Most(lo, n), hi)
Dist(a, b) == Most(Abs(a[1] - b[1]), Abs(a[2] - b[2]))

(* The first of the indices with the least distance.                       *)
FirstNearest(indices, D(_)) ==
    CHOOSE i \in indices :
        \A j \in indices : D(i) < D(j) \/ (D(i) = D(j) /\ i <= j)

Nodes == view.nodes
Indices == 1..Len(Nodes)

FocusedNode(p) ==
    LET near == FirstNearest(Indices, LAMBDA i : Dist(p, Nodes[i]))
    IN IF Dist(p, Nodes[near]) <= Near THEN Nodes[near] ELSE None

(* The handles of the markers are at the top and the bottom of the area.   *)
HandleDistance(p, m) ==
    Abs(p[1] - Nodes[view.marks[m]][1]) + Abs(p[2] - Kind.rangeY[3 - m])

FocusedMarker(p) ==
    IF view.marks = <<>> THEN None
    ELSE IF HandleDistance(p, 1) < HandleDist THEN 1
    ELSE IF HandleDistance(p, 2) < HandleDist THEN 2
    ELSE None

Locks(i) == IF i = 1 THEN Kind.first ELSE IF i = Len(Nodes) THEN Kind.last ELSE <<FALSE, FALSE>>
IsLocked(l) == l[1] \/ l[2]

(* A side of a range that adjusts itself bounds nothing.                   *)
Bounds(range, adjust) == <<IF adjust[1] THEN -Far ELSE range[1], IF adjust[2] THEN Far ELSE range[2]>>

BetweenNeighbours(i, bounds) ==
    <<IF i = 1 THEN bounds[1] ELSE Most(bounds[1], Nodes[i - 1][1] + 1),
      IF i = Len(Nodes) THEN bounds[2] ELSE Least(bounds[2], Nodes[i + 1][1] - 1)>>

(* Where the node being moved comes to be for a position.                  *)
Clamped(i, to) ==
    LET x == BetweenNeighbours(i, Bounds(Kind.rangeX, Kind.adjustX))
        y == Bounds(Kind.rangeY, Kind.adjustY)
    IN <<IF Locks(i)[1] THEN view.focus[1] ELSE Clamp(to[1], x[1], x[2]),
         IF Locks(i)[2] THEN view.focus[2] ELSE Clamp(to[2], y[1], y[2])>>

Init ==
    \E k \in Kinds :
        /\ store = [kind |-> k, nodes |-> k.nodes, marks |-> k.marks, enabled |-> k.enabled, loop |-> FALSE]
        /\ view = [nodes |-> k.nodes, marks |-> k.marks, enabled |-> k.enabled, loop |-> FALSE,
                   state |-> "idle", button |-> FALSE, focus |-> None, marker |-> None,
                   index |-> None, offset |-> <<0, 0>>]
        /\ signals = {}
        /\ done = [name |-> "none", others |-> <<>>, marked |-> <<>>]
        /\ actions = 0

(* _envelope_changed                                                       *)
EnvelopeChanged(nodes, marks) ==
    /\ store' = [store EXCEPT !.nodes = nodes, !.marks = marks, !.enabled = TRUE]
    /\ signals' = {"envelope"}

(* Wrong: a marker on the node at the place stays and loses its node.      *)
MarksAfterInsertBefore(pos) ==
    [m \in DOMAIN view.marks |-> IF view.marks[m] <= pos THEN view.marks[m] ELSE view.marks[m] + 1]
MarksAfterInsert(pos) ==
    [m \in DOMAIN view.marks |-> IF view.marks[m] < pos THEN view.marks[m] ELSE view.marks[m] + 1]
MarksAfterRemove(i) ==
    [m \in DOMAIN view.marks |-> IF view.marks[m] < i THEN view.marks[m] ELSE Most(1, view.marks[m] - 1)]

(* The nodes that are marked, for the history.                             *)
Marked(nodes, marks) == [m \in DOMAIN marks |-> nodes[marks[m]]]
Input(name, others, marks) == [name |-> name, others |-> others, marked |-> Marked(Nodes, marks)]

CanPress == view.enabled /\ ~view.button /\ view.state = "idle" /\ signals = {} /\ actions < MaxActions
Pressed == actions' = actions + 1

PressNode(p) ==
    LET node == FocusedNode(p)
        i == CHOOSE j \in Indices : Nodes[j] = node
    IN /\ CanPress
       /\ node # None
       /\ view' = [view EXCEPT !.state = "moving", !.button = TRUE, !.focus = node, !.index = i,
                               !.offset = <<node[1] - p[1], node[2] - p[2]>>]
       /\ done' = Input("press", RemoveAt(Nodes, i), <<>>)
       /\ Pressed
       /\ UNCHANGED <<store, signals>>

PressMarker(p) ==
    /\ CanPress
    /\ FocusedNode(p) = None
    /\ FocusedMarker(p) # None
    /\ view' = [view EXCEPT !.state = "moving marker", !.button = TRUE, !.marker = FocusedMarker(p)]
    /\ done' = Input("marker", Nodes, <<>>)
    /\ Pressed
    /\ UNCHANGED <<store, signals>>

(* Where a new node would go, and between which positions.                 *)
InsertPos(p) ==
    LET after == {i \in Indices : Nodes[i][1] >= p[1]}
    IN IF after = {} THEN Len(Nodes) + 1 ELSE CHOOSE i \in after : \A j \in after : i <= j

InsertBounds(p) ==
    LET pos == InsertPos(p)
        free == Bounds(Kind.rangeX, Kind.adjustX)
    IN <<IF pos > 1 THEN Nodes[pos - 1][1] + 1
         ELSE IF IsLocked(Kind.first) THEN Nodes[1][1] + 1 ELSE free[1],
         IF pos <= Len(Nodes) THEN Nodes[pos][1] - 1
         ELSE IF IsLocked(Kind.last) THEN Nodes[Len(Nodes)][1] - 1 ELSE free[2]>>

(* The view waits for the nodes with the new one.                          *)
AfterInsert == "waiting"

PressInsert(p) ==
    LET pos == InsertPos(p)
        x == InsertBounds(p)
        y == Bounds(Kind.rangeY, Kind.adjustY)
        node == <<Clamp(p[1], x[1], x[2]), Clamp(p[2], y[1], y[2])>>
    IN /\ CanPress
       /\ FocusedNode(p) = None
       /\ FocusedMarker(p) = None
       /\ Len(Nodes) < Kind.max
       /\ x[1] <= x[2]
       /\ EnvelopeChanged(InsertAt(Nodes, pos, node), MarksAfterInsert(pos))
       /\ view' = [view EXCEPT !.state = AfterInsert, !.button = TRUE, !.focus = node, !.index = pos,
                               !.offset = <<0, 0>>]
       /\ done' = Input("insert", Nodes, view.marks)
       /\ Pressed

(* A node with a lock cannot be removed.                                   *)
IsKept(i) == IsLocked(Locks(i))

(* The pointer is so far from where it holds the node that the node goes.  *)
IsDraggedOff(p) ==
    /\ Len(Nodes) > 2
    /\ ~IsKept(view.index)
    /\ Dist(p, <<view.focus[1] - view.offset[1], view.focus[2] - view.offset[2]>>) >= RemoveDist

AfterRemove == "idle"

MoveRemoves(p) ==
    LET i == view.index
    IN /\ view.state = "moving"
       /\ IsDraggedOff(p)
       /\ EnvelopeChanged(RemoveAt(Nodes, i), MarksAfterRemove(i))
       /\ view' = [view EXCEPT !.state = AfterRemove, !.focus = None]
       /\ done' = [Input("remove", RemoveAt(Nodes, i), view.marks) EXCEPT
                       !.marked = [m \in DOMAIN view.marks |->
                                       IF view.marks[m] = i THEN None ELSE @[m]]]
       /\ UNCHANGED actions

(* The offset shrinks when the node is stopped and the pointer goes on.    *)
Reduced(offset, node, to, p) ==
    [c \in 1..2 |-> IF node[c] # to[c] /\ Abs(node[c] - p[c]) < Abs(offset[c]) THEN node[c] - p[c] ELSE offset[c]]

MoveNode(p) ==
    LET i == view.index
        to == <<p[1] + view.offset[1], p[2] + view.offset[2]>>
        node == Clamped(i, to)
    IN /\ view.state = "moving"
       /\ ~IsDraggedOff(p)
       /\ EnvelopeChanged([Nodes EXCEPT ![i] = node], store.marks)
       /\ view' = [view EXCEPT !.focus = node, !.offset = Reduced(@, node, to, p)]
       /\ UNCHANGED <<done, actions>>

MarkersMoved(m, i) ==
    [view.marks EXCEPT ![m] = IF m = 1 THEN Least(i, view.marks[2]) ELSE Most(view.marks[1], i)]

(* Nothing is written when the marker is where the view has it.            *)
MoveMarker(p) ==
    LET near == FirstNearest(Indices, LAMBDA i : Abs(p[1] - Nodes[i][1]))
        marks == MarkersMoved(view.marker, near)
    IN /\ view.state = "moving marker"
       /\ marks # view.marks
       /\ EnvelopeChanged(store.nodes, marks)
       /\ UNCHANGED <<view, done, actions>>

Hover(p) ==
    /\ view.state = "idle"
    /\ view.enabled
    /\ view' = [view EXCEPT !.focus = FocusedNode(p), !.marker = FocusedMarker(p)]
    /\ UNCHANGED <<store, signals, done, actions>>

(* Of this or of another button.                                           *)
Release(p) ==
    /\ view.button
    /\ \E down \in BOOLEAN :
        view' = [view EXCEPT !.state = "idle", !.button = down, !.focus = FocusedNode(p),
                             !.marker = FocusedMarker(p), !.index = None, !.offset = <<0, 0>>]
    /\ done' = [done EXCEPT !.others = <<>>]
    /\ UNCHANGED <<store, signals, actions>>

(* While a button is down the view keeps the mouse.                        *)
Leave ==
    /\ ~view.button
    /\ view' = [view EXCEPT !.focus = None]
    /\ UNCHANGED <<store, signals, done, actions>>

CanToggle == ~view.button /\ signals = {} /\ actions < MaxActions

ToggleEnabled ==
    /\ CanToggle
    /\ store' = [store EXCEPT !.enabled = ~view.enabled]
    /\ signals' = {"envelope"}
    /\ Pressed
    /\ UNCHANGED <<view, done>>

ToggleLoop ==
    /\ CanToggle
    /\ view.enabled
    /\ Kind.marks # <<>>
    /\ store' = [store EXCEPT !.loop = ~view.loop]
    /\ signals' = {"envelope"}
    /\ Pressed
    /\ UNCHANGED <<view, done>>

(* _update_envelope with set_nodes and set_loop_markers                    *)
Update ==
    /\ signals # {}
    /\ view' = [view EXCEPT !.nodes = store.nodes, !.marks = store.marks, !.enabled = store.enabled,
                            !.loop = store.loop,
                            !.state = IF @ = "waiting" THEN "moving" ELSE @]
    /\ signals' = {}
    /\ UNCHANGED <<store, done, actions>>

Next ==
    \/ \E p \in Pointers :
        \/ PressNode(p)
        \/ PressMarker(p)
        \/ PressInsert(p)
        \/ MoveRemoves(p)
        \/ MoveNode(p)
        \/ MoveMarker(p)
        \/ Hover(p)
        \/ Release(p)
    \/ Leave
    \/ ToggleEnabled
    \/ ToggleLoop
    \/ Update

Spec == Init /\ [][Next]_vars

-----------------------------------------------------------------------------
States == {"idle", "waiting", "moving", "moving marker"}

(* A drag has its node, in the view or, when it waits, in the store; the   *)
(* assertions of mouseMoveEvent hold.                                      *)
TypeOK ==
    /\ store.enabled \in BOOLEAN /\ store.loop \in BOOLEAN
    /\ view.state \in States
    /\ view.state = "moving" => view.index \in Indices /\ view.focus # None
    /\ view.state = "waiting" => view.index \in 1..Len(store.nodes) /\ view.focus # None
    /\ view.state = "moving marker" => view.marker \in {1, 2}
    /\ signals \in SUBSET {"envelope"}

IsInOrder(nodes) == \A i \in 1..Len(nodes) - 1 : nodes[i][1] < nodes[i + 1][1]
IsWithin(n, bounds) == bounds[1] <= n /\ n <= bounds[2]

(* However nodes are dragged, inserted and removed, the envelope stays one *)
(* that the engine takes: two nodes or more and no more than its maximum,  *)
(* one after the other, and within the ranges that do not adjust.          *)
EnvelopeIsSound ==
    /\ Len(store.nodes) \in 2..Most(Kind.max, Len(Kind.nodes))
    /\ IsInOrder(store.nodes)
    /\ \A i \in 1..Len(store.nodes) :
        /\ IsWithin(store.nodes[i][1], Bounds(Kind.rangeX, Kind.adjustX))
        /\ IsWithin(store.nodes[i][2], Bounds(Kind.rangeY, Kind.adjustY))

(* A coordinate that is locked in the first or the last node never         *)
(* changes, whichever nodes come and go next to it.                        *)
LocksHold ==
    \A c \in 1..2 :
        /\ Kind.first[c] => store.nodes[1][c] = Kind.nodes[1][c]
        /\ Kind.last[c] => store.nodes[Len(store.nodes)][c] = Kind.nodes[Len(Kind.nodes)][c]

(* The loop markers are nodes that exist, the start not after the end, in  *)
(* the data and in the view.                                               *)
MarksAreNodes ==
    \A s \in {store, view} :
        s.marks # <<>> => s.marks[1] >= 1 /\ s.marks[1] <= s.marks[2] /\ s.marks[2] <= Len(s.nodes)

(* An insertion and a removal move the markers with their nodes; only the  *)
(* marker of the node that goes is moved to another.                       *)
MarksFollowTheirNodes ==
    done.name \in {"insert", "remove"} /\ signals # {} /\ view.state \in {"idle", "waiting"} =>
        \A m \in DOMAIN done.marked :
            done.marked[m] # None => store.nodes[store.marks[m]] = done.marked[m]

(* From the press to the release the node that moves is the one under the  *)
(* pointer and all others stay what they were, although the view has the   *)
(* changes only later.                                                     *)
DragMovesOneNode ==
    view.state \in {"moving", "waiting"} =>
        /\ store.nodes[view.index] = view.focus
        /\ RemoveAt(store.nodes, view.index) = done.others

(* When no update is due the view shows the data.                          *)
ViewShowsEnvelope ==
    signals = {} =>
        /\ view.nodes = store.nodes /\ view.marks = store.marks
        /\ view.enabled = store.enabled /\ view.loop = store.loop
=============================================================================
