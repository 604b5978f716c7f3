------------------------------ MODULE MCAlbum ------------------------------
(***************************************************************************)
(* Small albums for TLC: none, one song, and two songs that share a        *)
(* pattern.                                                                *)
(***************************************************************************)
EXTENDS Album

Nothing == [k \in AlbumKeys |-> None]
OneSong == InsertSong(Nothing, 0)
Shared == InsertPatternInstance(InsertSong(OneSong, 1), 1, 1, <<0, 1>>)
Written == Put(Shared, Change(PatternKey(0, "triggers"), "triggers"))
MCBeginnings == {Nothing, OneSong, Written}
=============================================================================
