------------------------------- MODULE Album -------------------------------
(***************************************************************************)
(* The order list and its tool bar (tracker/ui/views/orderlisteditor.py,   *)
(* orderlist.py, songeditor.py) over the album (module AlbumEdit).         *)
(*                                                                         *)
(* The tree of the order list is a copy of the album that is made anew in  *)
(* the next update (Tick) after a change.  Until then its nodes show songs *)
(* and patterns that may be gone or somewhere else, and the handlers look  *)
(* up what the selected node stands for.  Keys repeat faster than updates, *)
(* which is why the key handlers wait for the update; the tool bar and the *)
(* mouse do not, and only the time a hand takes keeps them apart           *)
(* (Impatient lifts that).                                                 *)
(***************************************************************************)
EXTENDS AlbumEdit

CONSTANTS Grids,       \* the grid patterns a pattern can have
          Impatient,   \* whether the mouse can be faster than an update
          MaxActions,  \* bound of the model: how many handlers run
          Beginnings   \* the contents of the album at first

VARIABLES store,
          selection,   \* orderlist_selection of the session: <<track, system>> or None
          track,       \* selected_track_num of the session
          tree,        \* the songs of the tree: [song, order]
          current,     \* the current row: <<track>>, <<track, system>> or None
          waiting,     \* _waiting_for_update
          buttons,     \* of the tool bar: what they are for, and which are enabled
          signals,     \* the signals of the next update
          done,        \* history variable: what the last handler did, and to what
          device,      \* history variable: where the last handler came from
          failed,      \* why a handler raised an exception
          actions

vars == <<store, selection, track, tree, current, waiting, buttons, signals, done, device, failed, actions>>

MakeNodes(d) == [i \in 1..TrackCount(d) |-> [song |-> SongAt(d, i - 1), order |-> OrderAt(d, i - 1)]]

IsPattern(row) == row # None /\ Len(row) = 2
IsSong(row) == row # None /\ Len(row) = 1
NodePattern(row) == tree[row[1] + 1].order[row[2] + 1]
SelectedObject ==
    CASE IsPattern(current) -> NodePattern(current)
      [] IsSong(current) -> <<tree[current[1] + 1].song>>
      [] OTHER -> None

(* get_selected_track_num *)
SelectedTrack == Smaller(track, TrackCount(store) - 1)

EnabledFor(obj) ==
    IF obj = None THEN {"new song"}
    ELSE IF Len(obj) = 1 THEN {"new pattern", "new song", "remove song"}
    ELSE IF Location(store, obj) = None THEN {"new pattern"}
    ELSE {"new pattern", "reuse", "remove"}

Init ==
    /\ store \in Beginnings
    /\ selection = None /\ track = 0
    /\ tree = MakeNodes(store) /\ current = None
    /\ waiting = FALSE /\ buttons = [obj |-> None, enabled |-> {"new song"}]
    /\ signals = {} /\ done = None /\ device = "mouse"
    /\ failed = None /\ actions = 0

ASSUME AlbumsAtFirst == \A d \in Beginnings : AlbumType(d) /\ Consistent(d)

----------------------------------------------------------------------------
(* A handler of the keyboard or of the mouse.  The tree is fresh when no   *)
(* change waits for an update.                                             *)

Fresh == "order list" \notin signals
Can(from) ==
    /\ failed = None /\ actions < MaxActions
    /\ \/ Fresh \/ Impatient
       \/ device = "key" /\ from = "key"
    /\ device' = from /\ actions' = actions + 1

Key == Can("key") /\ ~waiting

Changes(d, sel, what, wait) ==
    /\ store' = d /\ selection' = sel /\ done' = what
    /\ signals' = signals \union {"order list"}
    /\ waiting' = (waiting \/ wait)
    /\ UNCHANGED <<track, tree, current, buttons, failed>>

Raises(why) ==
    /\ failed' = why
    /\ UNCHANGED <<store, selection, track, tree, current, waiting, buttons, signals, done>>

(* Unpacking the location of a pattern that is gone, and naming a pattern  *)
(* or an instance that has no number.                                      *)
Located == Location(store, NodePattern(current))

InsertAtRow(where, pinst, wait) ==
    CASE pinst[1] = None \/ pinst[2] = None -> Raises("full")
      [] OTHER -> Changes(InsertPatternInstance(store, where[1], where[2], pinst), where, <<"made", pinst>>, wait)

NewAfter(where, wait) ==
    IF where = None THEN Raises("location")
    ELSE InsertAtRow(<<where[1], where[2] + 1>>, <<NewPattern(store), 0>>, wait)

Reuse(wait) ==
    LET p == NodePattern(current)[1]
    IN IF Located = None THEN Raises("location")
       ELSE InsertAtRow(<<Located[1], Located[2] + 1>>, <<p, NewInstance(store, p)>>, wait)

(* Afterwards the selection is the system that took the place, or the last *)
(* one; -1 when the song is gone.                                          *)
RemoveSelected(wait) ==
    LET song == SongAt(store, Located[1])
        d == RemovePatternInstance(store, Located[1], Located[2])
    IN IF Located = None THEN Raises("location")
       ELSE Changes(d, <<Located[1], Smaller(Located[2], SystemCount(d, song) - 1)>>, <<"removed">>, wait)

KeyInsert == Key /\ IsPattern(current) /\ NewAfter(Located, TRUE)
KeyReuse == Key /\ IsPattern(current) /\ Reuse(TRUE)
KeyDelete == Key /\ IsPattern(current) /\ RemoveSelected(TRUE)
KeyMove == \E offset \in {-1, 1} :
    /\ Key /\ IsPattern(current)
    /\ IF Located = None THEN Raises("location")
       ELSE LET to == Located[2] + offset
            IN /\ to \in 0..(Len(OrderAt(store, Located[1])) - 1)
               /\ Changes(MovePatternInstance(store, Located[1], Located[2], Located[1], to),
                          <<Located[1], to>>, <<"moved", SelectedObject>>, TRUE)

Click(button) == Can("mouse") /\ button \in buttons.enabled

AddPattern ==
    /\ Click("new pattern") /\ current # None
    /\ NewAfter(IF IsPattern(current) THEN Located
                ELSE IF current[1] < TrackCount(store) THEN <<current[1], Len(OrderAt(store, current[1]))>>
                ELSE None, FALSE)
RemoveClicked == Click("remove") /\ IsPattern(current) /\ RemoveSelected(FALSE)
ReuseClicked == Click("reuse") /\ IsPattern(current) /\ Reuse(FALSE)
AddSong ==
    /\ Click("new song")
    /\ Changes(InsertSong(store, IF IsSong(current) THEN current[1] + 1 ELSE TrackCount(store) + 1),
               selection, <<"added">>, FALSE)
RemoveSongClicked ==
    /\ Click("remove song") /\ IsSong(current)
    /\ IF current[1] < TrackCount(store) THEN Changes(RemoveSong(store, current[1]), selection, <<"removed">>, FALSE)
       ELSE Raises("location")

(* A row is clicked: the song of the row is edited from now on.            *)
Select(row) ==
    /\ Can("mouse") /\ row # current
    /\ current' = row /\ track' = row[1]
    /\ signals' = signals \union {"song", "order list selection"}
    /\ UNCHANGED <<store, selection, tree, waiting, buttons, done, failed>>
SelectRow ==
    \E t \in DOMAIN tree : \/ Select(<<t - 1>>)
                           \/ \E s \in DOMAIN tree[t].order : Select(<<t - 1, s - 1>>)

(* A row is dragged and dropped between two rows or onto another.          *)
DropSong == \E to \in 0..TrackCount(store) :
    /\ Can("mouse") /\ IsSong(current)
    /\ IF current[1] >= TrackCount(store) THEN Raises("location")
       ELSE Changes(MoveSong(store, current[1], to), selection, <<"moved", SelectedObject>>, FALSE)
DropPattern == \E to \in Tracks(store) : \E system \in 0..Len(OrderAt(store, to)) :
    /\ Can("mouse") /\ IsPattern(current)
    /\ IF Located = None THEN Raises("location")
       ELSE Changes(MovePatternInstance(store, Located[1], Located[2], to, system), selection,
                    <<"moved", SelectedObject>>, FALSE)

(* The name of the selected song, the triggers and the grid of a pattern.  *)
Rename ==
    /\ Can("mouse") /\ SelectedTrack >= 0
    /\ LET d == Put(store, Change(<<"song", SongAt(store, SelectedTrack), "name">>, "name"))
       IN Changes(d, selection, <<"edited">>, FALSE)
Edit == \E pinst \in UsedInstances(store) :
    /\ Can("mouse")
    /\ \/ store' = Put(store, Change(PatternKey(pinst[1], "triggers"), "triggers"))
       \/ \E g \in Grids : store' = Put(store, Change(PatternKey(pinst[1], "grid"), g))
    /\ done' = <<"edited">>
    /\ UNCHANGED <<selection, track, tree, current, waiting, buttons, signals, failed>>

----------------------------------------------------------------------------
(* perform_updates.  The deferred signals come first, so the buttons are   *)
(* brought up to date with the tree as it was, and once more in the update *)
(* after the one that makes the tree anew.                                 *)

UpdatedButtons ==
    IF SelectedObject = buttons.obj \/ signals \intersect {"order list updated", "order list selection"} = {}
    THEN buttons
    ELSE [obj |-> SelectedObject, enabled |-> EnabledFor(SelectedObject)]

(* Wrong: the selection is clamped to the tracks only.                     *)
FixedTrack ==
    LET t == Smaller(selection[1], TrackCount(store) - 1)
    IN IF selection = None \/ t < 0 THEN None ELSE <<t, selection[2]>>

(* Orderlist._update_model: the selection is clamped to the album.         *)
FixedSelection ==
    LET last == TrackCount(store) - 1
        t == Smaller(selection[1], last)
        wanted == IF selection[1] > last THEN 0 ELSE selection[2]
        s == Smaller(wanted, Len(OrderAt(store, t)) - 1)
    IN IF selection = None \/ last < 0 \/ s < 0 THEN None ELSE <<t, s>>

UpdateModel ==
    /\ tree' = MakeNodes(store)
    /\ selection' = FixedSelection /\ current' = FixedSelection
    /\ waiting' = FALSE /\ signals' = {"order list updated"}

Tick ==
    /\ failed = None /\ signals # {}
    /\ buttons' = UpdatedButtons
    /\ done' = None
    /\ \/ ~Fresh /\ UpdateModel
       \/ Fresh /\ signals' = {} /\ UNCHANGED <<tree, selection, current, waiting>>
    /\ UNCHANGED <<store, track, device, failed, actions>>

Next ==
    \/ KeyInsert \/ KeyReuse \/ KeyDelete \/ KeyMove
    \/ AddPattern \/ RemoveClicked \/ ReuseClicked \/ AddSong \/ RemoveSongClicked
    \/ SelectRow \/ DropSong \/ DropPattern \/ Rename \/ Edit
    \/ Tick

Spec == Init /\ [][Next]_vars

----------------------------------------------------------------------------
(* Properties. *)

InTree(row) ==
    /\ row \in Seq(Nat) /\ (IsSong(row) \/ IsPattern(row))
    /\ row[1] + 1 \in DOMAIN tree
    /\ IsPattern(row) => row[2] + 1 \in DOMAIN tree[row[1] + 1].order
TypeOK ==
    /\ AlbumType(store)
    /\ current # None => InTree(current)
    /\ signals \subseteq {"order list", "song", "order list selection", "order list updated"}
    /\ waiting \in BOOLEAN /\ device \in {"key", "mouse"}
    /\ failed \in {None, "location", "full"}

(* The keys that the operations set one by one always add up to an album:  *)
(* numbers, order lists and the patterns that exist agree (Consistent).    *)
AlbumIsConsistent == Consistent(store)

(* Removing an instance, a song or the album never touches the triggers of *)
(* a pattern that is still used elsewhere, and moving changes no pattern.  *)
Triggers(p) == store[PatternKey(p, "triggers")]
UsedPatternsKeepTriggers ==
    [][\A p \in Patterns : Triggers(p)' # Triggers(p) => done' = <<"edited">> \/ InstancesOf(store, p)' = {}]_vars

(* A pattern that is added is empty, even when its number was used before. *)
NewPatternIsEmpty ==
    [][\A p \in Patterns : InstancesOf(store, p) = {} /\ InstancesOf(store, p)' # {} => Triggers(p)' = None]_vars

(* Moving a pattern or a song by the keys or by dropping it anywhere, even *)
(* the last pattern of a song into another, loses none, and the others of  *)
(* every song keep their order (AlbumIsConsistent: nor is any doubled).    *)
Precedes(d, s, x, y) ==
    \E i, j \in DOMAIN OrderList(d, s) : i < j /\ OrderList(d, s)[i] = x /\ OrderList(d, s)[j] = y
Moves(what) == what # None /\ what[1] = "moved"
MovesKeepPatterns ==
    [][Moves(done') =>
        /\ UsedInstances(store)' = UsedInstances(store)
        /\ \A s \in Songs : \A x, y \in UsedInstances(store) \ {done'[2]} :
            Precedes(store, s, x, y) <=> Precedes(store', s, x, y)]_vars

(* No handler looks for a pattern or a song that is gone, however fast the *)
(* keys repeat: only an album without free numbers makes one fail.         *)
HandlersFindTheirRow == failed # "location"

(* The update selects the pattern instance that the last handler made.     *)
Made(what) == what # None /\ what[1] = "made"
UpdateShowsWhatWasMade ==
    [][Made(done) /\ ~Fresh /\ Fresh' => IsPattern(current') /\ SelectedObject' = done[2]]_vars

(* When no update is due, the tool bar offers what can be done with the    *)
(* current row, and the selection of the session is in the album.          *)
ToolBarFollowsSelection == signals = {} => buttons.enabled = EnabledFor(SelectedObject)
SelectionIsInAlbum ==
    Fresh /\ selection # None =>
        selection[1] \in Tracks(store) /\ selection[2] \in 0..(Len(OrderAt(store, selection[1])) - 1)

(* The list, the tool bar and the session agree with the album: what is    *)
(* selected exists, is found, and can be used as the buttons say.          *)
ListShowsAlbum == TypeOK /\ HandlersFindTheirRow /\ ToolBarFollowsSelection /\ SelectionIsInAlbum

(* Changing the album changes no music: what stays is what it was, where   *)
(* it was; what is new is empty, and is what the user is shown.            *)
ChangesKeepPatterns ==
    UsedPatternsKeepTriggers /\ NewPatternIsEmpty /\ MovesKeepPatterns /\ UpdateShowsWhatWasMade
=============================================================================
