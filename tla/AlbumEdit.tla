----------------------------- MODULE AlbumEdit -----------------------------
(***************************************************************************)
(* The album (tracker/ui/model/album.py, song.py, pattern.py and           *)
(* patterninstance.py): which songs, patterns and pattern instances there  *)
(* are, as keys of the store.                                              *)
(*                                                                         *)
(* A method computes a transaction from the store d and puts it; here it   *)
(* is an operator from d to d with the transaction put.  None stands for a *)
(* key that is not there.  An instance of a pattern is <<pattern, number>>;*)
(* tracks and systems count from 0.                                        *)
(***************************************************************************)
EXTENDS Integers, FiniteSets, SequencesExt

CONSTANTS None,
          MaxSong, MaxPattern, MaxInstance,  \* the highest numbers
          DefaultGrid                        \* of a new pattern, or None

Songs == 0..MaxSong
Patterns == 0..MaxPattern
Instances == Patterns \X (0..MaxInstance)

ASSUME AlbumAssumption ==
    /\ MaxSong \in Nat /\ MaxPattern \in Nat /\ MaxInstance \in Nat
    /\ None \notin Int /\ None \notin Seq(Int) /\ None \notin Seq(Songs) /\ None \notin Seq(Instances)
    /\ None # {} /\ None # "location"

AlbumKey == <<"album">>
TracksKey == <<"tracks">>
SongKeys(s) == {<<"song", s, name>> : name \in {"manifest", "order", "name"}}
OrderKey(s) == <<"song", s, "order">>
PatternKey(p, name) == <<"pattern", p, name>>
InstanceKey(pinst) == <<"instance", pinst>>
PatternKeys(p) == {PatternKey(p, name) : name \in {"manifest", "grid", "triggers"}}
                  \union {InstanceKey(pinst) : pinst \in {i \in Instances : i[1] = p}}
AlbumKeys == {AlbumKey, TracksKey} \union (UNION {SongKeys(s) : s \in Songs})
             \union (UNION {PatternKeys(p) : p \in Patterns})

Exists(d, k) == d[k] # None
Put(d, t) == [k \in AlbumKeys |-> IF k \in DOMAIN t THEN t[k] ELSE d[k]]
Removal(keys) == [k \in keys |-> None]
Change(k, v) == [x \in {k} |-> v]
f ++ g == [k \in DOMAIN f \union DOMAIN g |-> IF k \in DOMAIN f THEN f[k] ELSE g[k]]
Smaller(a, b) == IF a < b THEN a ELSE b
InsertItem(s, i, x) == InsertAt(s, Smaller(i, Len(s)) + 1, x)

TrackList(d) == IF Exists(d, TracksKey) THEN d[TracksKey] ELSE <<>>
TrackCount(d) == IF Exists(d, AlbumKey) THEN Len(TrackList(d)) ELSE 0
SongAt(d, track) == TrackList(d)[track + 1]
OrderList(d, s) == IF Exists(d, OrderKey(s)) THEN d[OrderKey(s)] ELSE <<>>
OrderAt(d, track) == OrderList(d, SongAt(d, track))
SystemCount(d, s) == Len(OrderList(d, s))
Tracks(d) == 0..(TrackCount(d) - 1)

UsedSongs(d) == {SongAt(d, t) : t \in Tracks(d)}
UsedInstances(d) == UNION {ToSet(OrderAt(d, t)) : t \in Tracks(d)}
InstancesOf(d, p) == {i \in Instances : i[1] = p /\ Exists(d, InstanceKey(i))}

(* get_pattern_instance_location: the first place of an instance.          *)
Systems(d, track) == 0..(Len(OrderAt(d, track)) - 1)
Places(d, pinst) == UNION {{<<t, s>> : s \in {x \in Systems(d, t) : OrderAt(d, t)[x + 1] = pinst}} : t \in Tracks(d)}
Location(d, pinst) ==
    IF Places(d, pinst) = {} THEN None
    ELSE CHOOSE a \in Places(d, pinst) :
            \A b \in Places(d, pinst) : a[1] < b[1] \/ (a[1] = b[1] /\ a[2] <= b[2])

Smallest(free) == IF free = {} THEN None ELSE CHOOSE n \in free : \A m \in free : n <= m
NewSong(d) == Smallest(Songs \ UsedSongs(d))
NewPattern(d) == Smallest(Patterns \ {i[1] : i \in UsedInstances(d)})
NewInstance(d, p) == Smallest({n \in 0..MaxInstance : <<p, n>> \notin UsedInstances(d)})

----------------------------------------------------------------------------

CreateInstance(pinst) == Change(InstanceKey(pinst), {})
CreatePattern(p) ==
    (IF DefaultGrid = None THEN <<>> ELSE Change(PatternKey(p, "grid"), DefaultGrid))
        ++ Change(PatternKey(p, "manifest"), {})

InsertPatternInstance(d, track, system, pinst) ==
    Put(d, Change(OrderKey(SongAt(d, track)), InsertItem(OrderAt(d, track), system, pinst))
            ++ CreatePattern(pinst[1]) ++ CreateInstance(pinst))

InsertSong(d, track) ==
    LET s == NewSong(d)
        pinst == <<NewPattern(d), 0>>
    IN IF s = None \/ NewPattern(d) = None THEN d
       ELSE Put(d, Change(OrderKey(s), InsertItem(OrderList(d, s), 0, pinst)) ++ Change(<<"song", s, "manifest">>, {})
                    ++ CreatePattern(pinst[1]) ++ CreateInstance(pinst)
                    ++ Change(AlbumKey, {}) ++ Change(TracksKey, InsertItem(TrackList(d), track, s)))

(* The track list without a track; the last track takes the album along.   *)
RemoveTrack(d, track) ==
    IF Len(TrackList(d)) = 1 THEN Removal({TracksKey, AlbumKey})
    ELSE Change(TracksKey, RemoveAt(TrackList(d), track + 1))

RemovePattern(p) == Removal(PatternKeys(p))

(* Wrong: the song that loses its last pattern stays in the track list.    *)
RemovePatternInstanceOnly(d, track, system) ==
    LET pinst == OrderAt(d, track)[system + 1]
    IN Put(d, (IF InstancesOf(d, pinst[1]) = {pinst} THEN RemovePattern(pinst[1]) ELSE <<>>)
               ++ Removal({InstanceKey(pinst)})
               ++ Change(OrderKey(SongAt(d, track)), RemoveAt(OrderAt(d, track), system + 1)))

RemovePatternInstance(d, track, system) ==
    LET s == SongAt(d, track)
        pinst == OrderAt(d, track)[system + 1]
        isLastInstance == InstancesOf(d, pinst[1]) \ {pinst} = {}
        isLastSystem == SystemCount(d, s) = 1
    IN Put(d, (IF isLastSystem THEN RemoveTrack(d, track) ++ Removal(SongKeys(s)) ELSE <<>>)
               ++ (IF isLastInstance THEN RemovePattern(pinst[1]) ELSE <<>>)
               ++ Removal({InstanceKey(pinst)})
               ++ Change(OrderKey(s), RemoveAt(OrderAt(d, track), system + 1)))

(* The patterns of which every instance is in the song go with it.         *)
RemoveSong(d, track) ==
    LET here == ToSet(OrderAt(d, track))
        inSong(p) == Cardinality({n \in DOMAIN OrderAt(d, track) : OrderAt(d, track)[n][1] = p})
        gone == {p \in {i[1] : i \in here} : inSong(p) = Cardinality(InstancesOf(d, p))}
    IN Put(d, RemoveTrack(d, track) ++ Removal(SongKeys(SongAt(d, track)))
               ++ Removal(UNION {PatternKeys(p) : p \in gone})
               ++ Removal({InstanceKey(i) : i \in here}))

Moved(s, from, to) == InsertItem(RemoveAt(s, from + 1), to, s[from + 1])

(* Wrong: a pattern is dropped in a song before it is taken from its own.  *)
MoveInstanceInPlace(d, fromTrack, fromSystem, toTrack, toSystem) ==
    LET pinst == OrderAt(d, fromTrack)[fromSystem + 1]
    IN Put(d, Change(OrderKey(SongAt(d, fromTrack)), RemoveAt(OrderAt(d, fromTrack), fromSystem + 1))
               ++ Change(OrderKey(SongAt(d, toTrack)), InsertItem(OrderAt(d, toTrack), toSystem, pinst)))

MovePatternInstance(d, fromTrack, fromSystem, toTrack, toSystem) ==
    LET s == SongAt(d, fromTrack)
        order == OrderList(d, s)
        shortened == Change(OrderKey(s), RemoveAt(order, fromSystem + 1))
        lengthened == Change(OrderKey(SongAt(d, toTrack)),
                             InsertItem(OrderAt(d, toTrack), toSystem, order[fromSystem + 1]))
    IN IF fromTrack = toTrack THEN Put(d, Change(OrderKey(s), Moved(order, fromSystem, toSystem)))
       ELSE IF Len(order) > 1 THEN Put(d, lengthened ++ shortened)
       ELSE Put(d, Change(TracksKey, RemoveAt(TrackList(d), fromTrack + 1)) ++ Removal(SongKeys(s)) ++ lengthened)

MoveSong(d, fromTrack, toTrack) == Put(d, Change(TracksKey, Moved(TrackList(d), fromTrack, toTrack)))

----------------------------------------------------------------------------
(* What the keys of an album hold, and how they add up: every song is in   *)
(* the track list once and has patterns, every instance is in one order    *)
(* list once and exists, a pattern exists as long as it has an instance,   *)
(* and nothing is left of what was removed.                                *)

AlbumType(d) ==
    /\ DOMAIN d = AlbumKeys
    /\ TrackList(d) \in Seq(Songs)
    /\ \A s \in Songs : OrderList(d, s) \in Seq(Instances)

SongsAreWhole(d) ==
    \A s \in Songs :
        IF s \in UsedSongs(d) THEN Exists(d, <<"song", s, "manifest">>) /\ OrderList(d, s) # <<>>
        ELSE \A k \in SongKeys(s) : ~Exists(d, k)
InstancesAreOnce(d) ==
    /\ \A s \in Songs : IsInjective(OrderList(d, s))
    /\ \A s, u \in Songs : s # u => ToSet(OrderList(d, s)) \intersect ToSet(OrderList(d, u)) = {}
PatternsAreWhole(d) ==
    \A p \in Patterns :
        IF InstancesOf(d, p) # {} THEN Exists(d, PatternKey(p, "manifest"))
        ELSE \A k \in PatternKeys(p) : ~Exists(d, k)

Consistent(d) ==
    /\ Exists(d, AlbumKey) <=> Exists(d, TracksKey)
    /\ IsInjective(TrackList(d))
    /\ SongsAreWhole(d) /\ InstancesAreOnce(d) /\ PatternsAreWhole(d)
    /\ \A pinst \in Instances : Exists(d, InstanceKey(pinst)) <=> pinst \in UsedInstances(d)
=============================================================================
