------------------------------ MODULE Typewriter ------------------------------
(***************************************************************************)
(* The typewriter: playing notes and hits with the keys of the keyboard    *)
(* (views/typewriter.py, views/typewriterbutton.py, keyboardmapper.py and  *)
(* model/typewritermanager.py), the choice of keymap and octave, and the   *)
(* channels of the notes (controller/notechannelmapper.py).                *)
(*                                                                         *)
(* The manager keeps the map of the buttons until it is told that the      *)
(* notation has changed.  A note belongs to the key that started it until  *)
(* another note needs its channel.  Notation 0 is the shared one, those    *)
(* from 1 on are the custom ones in their order.  There is a control to    *)
(* play, and an input finds the widgets up to date.                        *)
(***************************************************************************)
EXTENDS Notations

CONSTANTS Shared,       \* the notation that comes with the program
          HitKeys,      \* the keymap of hits
          HitsThere,    \* the hits that the played unit has
          Channels,     \* 0..n
          Beginnings,   \* [store, session]: what may be there at first
          MaxActions,   \* bounds of the model: inputs
          MaxPlayed     \* inputs, those that play included

VARIABLES store,      \* [custom, tables]
          session,
          held,       \* the note of each button that is held down
          sounding,   \* history variable: the button that each channel sounds for
          view, signals,
          done,       \* history variable: the last input
          failed,     \* an exception: "no", "error" or one that is known
          actions

player == <<held, sounding>>

NotationIn(st, id) == IF id = 0 THEN Shared ELSE st.custom[id]
IdsIn(st) == 0..Len(st.custom)

(* Custom notations come before shared ones when the chosen one is gone.   *)
ChosenIn(st, se) ==
    IF se.chosen \in IdsIn(st) THEN se.chosen ELSE IF Len(st.custom) > 0 THEN 1 ELSE 0

KeysIn(st, se) == IF se.hits THEN HitKeys ELSE NotationIn(st, ChosenIn(st, se)).keys
OctaveIn(st, se) ==
    IF se.octave # None THEN se.octave
    ELSE IF se.hits THEN 0 ELSE NotationIn(st, ChosenIn(st, se)).base

Keys == KeysIn(store, session)
Octave == OctaveIn(store, session)
OctaveExists == Octave \in Indices(Keys)

-----------------------------------------------------------------------------
(* The cached map of the buttons                                           *)

IsCached == session.version = session.chosen
Map == IF IsCached THEN session.map ELSE ButtonMap(Keys, Octave)
WithMap(se, map) == [se EXCEPT !.version = se.chosen, !.map = map]

WithOctaveSet(se, octave) == [se EXCEPT !.octave = octave, !.version = None]

IsHeld == \E b \in Buttons : held[b] # None

(* notify_notation_changed; changed: the keys have got other meanings      *)
(* while one is held.                                                      *)
Notified(se, id) ==
    IF se.version = id THEN [se EXCEPT !.version = None, !.changed = @ \/ IsHeld] ELSE se

IsPlayable(b) ==
    LET p == ParamOf(Map, b) IN p # None /\ (session.hits => p \in HitsThere)

(* The name of a pitch needs a note to name it after.                      *)
IsNamed == session.hits \/ NotationIn(store, ChosenIn(store, session)).notes # <<>>
    \/ \A b \in Buttons : ParamOf(Map, b) = None

-----------------------------------------------------------------------------
(* Updates of the typewriter panel                                         *)

Got(s) == signals \cap s # {}

ButtonSignals == {"notation", "octave"}

TypewriterFailure ==
    IF ~Got(ButtonSignals) THEN "no"
    ELSE IF ~IsCached /\ ~OctaveExists THEN "octave"
    ELSE IF ~IsNamed THEN "name" ELSE "no"

ShownOctaves(shown) ==
    LET count == Len(Keys)
    IN [count |-> IF Got({"keymap", "notation"}) THEN count ELSE shown.count,
        pressed |-> IF Got({"octave"}) \/ (Got({"keymap", "notation"}) /\ count > shown.count)
                    THEN Octave ELSE shown.pressed]

ShownTypewriter(shown) ==
    [items |-> IF Got({"notation", "list"}) THEN Len(store.custom) + 1 ELSE shown.items,
     item |-> IF Got({"notation", "list"}) THEN ChosenIn(store, session) ELSE shown.item,
     on |-> IF Got({"keymap"}) THEN ~session.hits ELSE shown.on,
     octaves |-> ShownOctaves(shown.octaves),
     buttons |-> IF Got(ButtonSignals) THEN {b \in Buttons : IsPlayable(b)} ELSE shown.buttons]

SessionShown == IF Got(ButtonSignals) THEN WithMap(session, Map) ELSE session

-----------------------------------------------------------------------------
(* Inputs                                                                  *)

CanPlay == signals = {} /\ failed = "no" /\ actions < MaxPlayed
CanAct == CanPlay /\ actions < MaxActions
Tells(name, updates) ==
    /\ actions' = actions + 1
    /\ signals' = updates
    /\ done' = [name |-> name]
Acts(name, updates) == Tells(name, updates) /\ UNCHANGED view
Succeeds == UNCHANGED failed

IsFree(c) == \A b \in DOMAIN held : held[b] = None \/ held[b].channel # c \/ ~held[b].alive
FreeChannel(channel) ==
    LET n == Cardinality(Channels)
        free == {i \in 0..n - 1 : IsFree((channel + i) % n)}
    IN IF free = {} THEN channel ELSE (channel + Min(free)) % n

(* A note whose channel is taken is not stopped any more by its own key.   *)
Killed(c) == [b \in DOMAIN held |-> IF held[b] # None /\ held[b].channel = c
                                   THEN [held[b] EXCEPT !.alive = FALSE] ELSE held[b]]

Kind == IF session.hits THEN "h" ELSE "n+"

PressKey ==
    /\ CanPlay /\ (IsCached \/ OctaveExists)
    /\ \E b \in Buttons, preferred \in Channels :
        LET param == ParamOf(Map, b)
            c == FreeChannel(preferred)
            known == [WithMap(session, Map) EXCEPT !.changed = @ /\ (IsHeld \/ session.chord # {})]
        IN /\ held[b] = None /\ param # None
           /\ held' = [Killed(c) EXCEPT ![b] = [channel |-> c, alive |-> TRUE]]
           /\ sounding' = [sounding EXCEPT ![c] = b]
           /\ session' = IF session.editing
                         THEN [known EXCEPT !.chordMode = TRUE, !.chord = @ \cup {<<Kind, param>>}]
                         ELSE known
    /\ Acts("press", {}) /\ Succeeds /\ UNCHANGED store

(* Wrong: every key that is released stops its channel.                    *)
RestAlways(note) == TRUE
IsStopped(note) == note.alive

ChordWithout(chord, param) == chord \ {<<Kind, param>>}

(* The note that leaves the chord is the one under the button now.         *)
ReleaseKey ==
    /\ CanPlay /\ (IsCached \/ OctaveExists)
    /\ \E b \in {k \in Buttons : held[k] # None} :
        LET known == WithMap(session, Map)
            chord == ChordWithout(session.chord, ParamOf(Map, b))
        IN /\ sounding' = IF IsStopped(held[b]) THEN [sounding EXCEPT ![held[b].channel] = None] ELSE sounding
           /\ held' = [held EXCEPT ![b] = None]
           /\ session' = [known EXCEPT !.chord = chord,
                                       !.chordMode = IF chord = {} THEN FALSE ELSE known.chordMode]
    /\ Acts("release", {}) /\ Succeeds /\ UNCHANGED store

Changes(se) == session' = [se EXCEPT !.changed = @ \/ IsHeld]

ChangeOctave ==
    /\ CanAct /\ failed = "no"
    /\ \/ Changes(WithOctaveSet(session, Max({0, Octave - 1})))
       \/ Changes(WithOctaveSet(session, Min({Len(Keys) - 1, Octave + 1})))
       \/ \E o \in 0..view.type.octaves.count - 1 : Changes(WithOctaveSet(session, o))
    /\ Acts("octave", {"octave"}) /\ Succeeds /\ UNCHANGED <<store, player>>

(* The check box and Ctrl+H.                                               *)
ToggleHits ==
    /\ CanAct
    /\ LET to == [session EXCEPT !.hits = ~@]
           base == IF to.hits THEN 0 ELSE NotationIn(store, ChosenIn(store, to)).base
       IN Changes(WithOctaveSet(to, base))
    /\ Acts("hits", {"octave", "keymap"}) /\ Succeeds /\ UNCHANGED <<store, player>>

ClampedOctave(octave, count) == Min({octave, count - 1})

ChooseNotation ==
    /\ CanAct /\ view.type.on
    /\ \E id \in IdsIn(store) \ {view.type.item} :
        LET to == [session EXCEPT !.chosen = id, !.moved = FALSE]
            octave == ClampedOctave(Octave, Len(NotationIn(store, id).names))
        IN IF octave # Octave
           THEN Changes(WithOctaveSet(to, octave)) /\ Acts("choose", {"notation", "octave"})
           ELSE Changes(to) /\ Acts("choose", {"notation"})
    /\ Succeeds /\ UNCHANGED <<store, player>>

(* The lamps of the buttons are drawn after each round of audio.           *)
ShowLamps ==
    /\ signals = {} /\ failed = "no" /\ ~IsCached
    /\ IF OctaveExists THEN session' = WithMap(session, Map) /\ Succeeds
       ELSE failed' = "octave" /\ UNCHANGED session
    /\ UNCHANGED <<store, player, view, signals, done, actions>>

TypewriterStep ==
    \/ PressKey \/ ReleaseKey \/ ChangeOctave \/ ToggleHits \/ ChooseNotation \/ ShowLamps

-----------------------------------------------------------------------------
(* The map of the buttons is that of the notation and the octave in use;   *)
(* session.moved says that a custom notation has been removed at or before *)
(* the one in use, after which its id stands for another.                  *)
ButtonsPlayTheirKeys ==
    (failed = "no" /\ IsCached /\ ~session.moved) => (OctaveExists /\ session.map = ButtonMap(Keys, Octave))

(* The current octave is one of the keymap in use.                         *)
OctaveIsOfKeymap == (failed = "no" /\ ~session.moved) => OctaveExists

(* A channel sounds for the key that is held and started the last note on  *)
(* it; releasing a key silences its own note and no other.                 *)
NoNoteHangs ==
    /\ \A c \in Channels : sounding[c] # None => held[sounding[c]] # None /\ held[sounding[c]].channel = c
    /\ \A b \in Buttons : held[b] # None => (held[b].alive <=> sounding[held[b].channel] = b)

(* Chord mode ends with the last key of the chord, if the keys have meant  *)
(* the same all the while.                                                 *)
ChordEndsWithItsKeys == (session.chordMode /\ ~session.changed) => IsHeld

(* The panel shows the notation and the octave in use and the buttons that *)
(* have something to play, once it has followed the signals of an input.   *)
TypewriterShowsKeymap ==
    (signals = {} /\ failed = "no" /\ ~session.moved) =>
        /\ view.type.items = Len(store.custom) + 1
        /\ view.type.item = ChosenIn(store, session)
        /\ view.type.on = ~session.hits
        /\ view.type.octaves.count = Len(Keys)
        /\ session.octave # None => view.type.octaves.pressed = Octave
        /\ (session.octave # None /\ IsCached) => view.type.buttons = {b \in Buttons : IsPlayable(b)}
=============================================================================
