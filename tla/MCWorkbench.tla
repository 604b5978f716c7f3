----------------------------- MODULE MCWorkbench -----------------------------
(***************************************************************************)
(* Instances of the editors around the sheet: the notation editor with the *)
(* typewriter, the event bindings, a tuning table, the dialogs that ask    *)
(* for files and directories, the settings with their themes, the event    *)
(* map of an audio unit, and the variables and channel defaults of a song. *)
(* They do not meet: a behaviour is one of one of them.                    *)
(***************************************************************************)
EXTENDS Integers, Sequences, FiniteSets, TLC

CONSTANTS None, MaxActions, MaxPlayed, MoreActions,
          Width, UpperKeys, LowerKeys, Shared, HitKeys, HitsThere, Channels, TableIds, TemplateOctaves, Cents,
          MaxCustom, MaxOctaves, MaxNotes, MaxKeys, KeyboardBeginnings,
          AllEvents, DefaultSource, DefaultTested, PreferredTarget, Arguments, Texts, Offsets, MaxBindings, MaxRows,
          BindingBeginnings,
          Names, Pitches, Params, NewName, Default, MaxTableNotes, TableBeginnings,
          Root, Home, HomeName, Order, Hidden, Modes, Typed, Disks, WrittenKinds, MaxChanges,
          Paths, NameRank, DirDisks, Starts,
          Colours, Values, DefaultValue, Stock, TypedNames, DirTexts, Faults, ThemeBeginnings, MaxStarts,
          ValueLevels,
          StreamDevices, EventTyped, StreamTyped, ArgTypes, ArgExpressions, EventMaps, MaxEvents,
          VariableNames, SongChannels, Controls, Expressions, Songs, MaxVariables

VARIABLES which, store, session, view, signals, done, failed, actions, held, sounding

player == <<held, sounding>>
vars == <<which, store, session, view, signals, done, failed, actions, player>>

N == INSTANCE NotationEditor WITH Beginnings <- KeyboardBeginnings
B == INSTANCE Bindings WITH Beginnings <- BindingBeginnings, MaxActions <- MoreActions
T == INSTANCE TuningTable WITH Beginnings <- TableBeginnings, MaxNotes <- MaxTableNotes, MaxActions <- MoreActions
F == INSTANCE FileDialog
D == INSTANCE DirDialog
S == INSTANCE Themes WITH Typed <- TypedNames, Beginnings <- ThemeBeginnings

-----------------------------------------------------------------------------
(* Notations: the shared one has two octaves of two keys, the second       *)
(* custom one three octaves, one of them with more keys than the buttons   *)
(* of the upper rows.  A last one has a single note and a single key.      *)
MCShared == [names |-> <<0, 1>>, base |-> 1, notes |-> <<0, 1>>, keys |-> <<<<0, 1>>, <<2, 3>>>>,
             octaves |-> <<0, 1, 1>>, scale |-> <<>>]
Wide == [names |-> <<0, 1, 2>>, base |-> 2, notes |-> <<0, 1, 3>>, keys |-> <<<<0>>, <<1, None, 3>>, <<4, 5>>>>,
         octaves |-> <<0, 1, 2>>, scale |-> <<0, 1>>]
MCHitKeys == <<<<0, 1>>, <<2, 3>>>>

Untouched == [notation |-> None, octaveAt |-> None, note |-> None, key |-> None, templateNote |-> None,
              table |-> None, open |-> {}, chosen |-> 0, octave |-> None, hits |-> FALSE, version |-> None,
              map |-> [upper |-> <<>>, lower |-> <<>>], chord |-> {}, chordMode |-> FALSE, editing |-> TRUE,
              changed |-> FALSE, moved |-> FALSE, lowered |-> FALSE]
Fresh == [store |-> [custom |-> <<>>, tables |-> {}], session |-> Untouched]
Used == [store |-> [custom |-> <<MCShared, Wide>>, tables |-> {0}],
         session |-> [Untouched EXCEPT !.notation = 2, !.octaveAt = 2, !.note = 2, !.key = 1,
                                       !.templateNote = 1, !.table = 0, !.open = {0}, !.chosen = 2, !.octave = 2]]
First == [Used EXCEPT !.session = [Untouched EXCEPT !.notation = 1, !.octaveAt = 0, !.chosen = 2, !.octave = 1,
                                                    !.editing = FALSE]]
Hitting == [Used EXCEPT !.session.hits = TRUE, !.session.octave = 0, !.session.octaveAt = 1, !.session.key = 2]
OneNote == [First EXCEPT !.store.custom[1].names = <<0>>, !.store.custom[1].base = 0, !.store.custom[1].notes = <<0>>,
                         !.store.custom[1].keys = <<<<0>>>>, !.session.octave = 0, !.session.note = 0]
MCKeyboardBeginnings == {Fresh, First, Hitting, OneNote}

(* Bindings: none, and two that already fire one another in a row.         *)
NoBindings == [store |-> <<>>, session |-> [selected |-> None]]
Bound(source, constraints, targets) == [source |-> source, constraints |-> constraints, targets |-> targets]
Chained == [store |-> <<Bound("a", <<>>, <<<<0, "b", "">>>>),
                       Bound("b", <<<<"a", "x">>, <<"c", "">>>>, <<<<1, "c", None>>, <<0, "call", "x">>>>)>>,
            session |-> [selected |-> 2]]
MCBindingBeginnings == {NoBindings, Chained}

(* Tuning tables: a new one, and one whose names are fewer than its notes. *)
MCDefaultTable == [notes |-> <<0>>, names |-> <<"A">>, centre |-> 0, param |-> 0]
FewNames == [notes |-> <<0, 1, 1>>, names |-> <<"B">>, centre |-> 1, param |-> 1]
MCTableBeginnings == {[store |-> MCDefaultTable, session |-> None], [store |-> FewNames, session |-> <<2, 1>>]}

(* Files: a directory with a file that passes the filter, one that does    *)
(* not, and a hidden one.                                                  *)
File(kind) == [kind |-> kind, time |-> 1]
MCOrder == <<"..", "home", ".h", "a", "c">>
MCDisks == {("root" :> ("a" :> File("locked")))
            @@ ("home" :> (("a" :> File("kqt")) @@ ("c" :> File("other")) @@ (".h" :> File("kqt"))))}

(* Directories: a tree of three levels at most, and places to begin: the   *)
(* root, a directory, one that is not there.                               *)
MCPaths == {<<"a">>, <<"c">>, <<"a", "a">>, <<"a", "b">>, <<"a", "a", "b">>}
MCNameRank == [a |-> 1, b |-> 2, c |-> 3]
MCDirDisks == {{<<"a">>, <<"a", "a">>, <<"c">>}}
MCStarts == {<<>>, <<"a", "a">>, <<"a", "b">>}

(* Themes: no files yet, two themes whose names give the same file name,   *)
(* and the settings of an older version with a style of their own.         *)
MCDefaultValue == [k \in {"c1", "c2", "font", "slider"} |-> 0]
ThemeOf(name, v) == [k \in {"c1", "c2", "font", "slider", "name"} |-> IF k = "name" THEN name ELSE v]
MCStock == [id |-> <<"share", <<6>>>>, data |-> [ThemeOf(<<6>>, 1) EXCEPT !["font"] = None]]
Stored(data) == [main |-> data, old |-> None]
Settings(selected, style) == [selected |-> selected, dir |-> "x", chord |-> TRUE, style |-> style]
MCThemeBeginnings ==
    {<<>>,
     (<<1>> :> Stored(ThemeOf(<<11>>, 1))) @@ (<<1, -9>> :> Stored(ThemeOf(<<1>>, 0)))
        @@ (<<>> :> Stored(Settings(<<"custom", <<1>>>>, None))),
     (<<>> :> Stored(Settings(None, [ThemeOf(None, None) EXCEPT !["font"] = 1])))}
MCTypedNames == {<<1>>, <<11>>}
MCFaults == [at : {1, 2}, how : {"write", "moved", "left"}, dead : {FALSE}] \union [at : {2}, how : {"write", "moved", "left"}, dead : {TRUE}]

(* Event maps: an empty one, and one with a typed and a repeated name.     *)
DevicesInOrder == <<"au_00", "proc_00", "proc_01">>
EventNamesInOrder == <<"event01", "event02", "event03", "event04">>
StreamNamesInOrder == <<"var01", "var02", "var03", "var04">>
Binding(dev, event, type, expr) == [dev |-> dev, event |-> event, type |-> type, expr |-> expr]
MCEventMaps ==
    {[events |-> <<>>, streams |-> <<>>, devices |-> {"proc_00"}],
     [events |-> <<[name |-> "event02", type |-> "int",
                    bindings |-> <<Binding("proc_00", "event01", "int", "$"), Binding("proc_01", "a", "none", "")>>],
                   [name |-> "event01", type |-> "none", bindings |-> <<>>]>>,
      streams |-> <<[name |-> "var02", target |-> "proc_00"]>>, devices |-> {"proc_00", "proc_01"}]}
E == INSTANCE EventMap WITH DeviceOrder <- DevicesInOrder, MadeNames <- EventNamesInOrder,
        MadeStreams <- StreamNamesInOrder, TypedNames <- EventTyped, TypedStreams <- StreamTyped,
        Expressions <- ArgExpressions, MaxActions <- MoreActions

(* Songs: a new one, and one with two variables and two controls.          *)
Variable(type, name, value) == [type |-> type, name |-> name, value |-> value]
MCSongs ==
    {[vars |-> <<>>, defaults |-> <<>>, controls |-> {0}],
     [vars |-> <<Variable("int", "a", 2), Variable("float", "b", 1)>>,
      defaults |-> <<[control |-> 1, expr |-> "x"]>>, controls |-> {0, 1}]}
V == INSTANCE Variables WITH Typed <- VariableNames, Values <- ValueLevels, Channels <- SongChannels

-----------------------------------------------------------------------------
Silent == held = <<>> /\ sounding = <<>>
Init ==
    \/ which = "keyboard" /\ N!Init
    \/ which = "bindings" /\ B!Init /\ Silent
    \/ which = "tuning" /\ T!Init /\ Silent
    \/ which = "files" /\ F!Init /\ Silent
    \/ which = "directories" /\ D!Init /\ Silent
    \/ which = "settings" /\ S!Init /\ Silent
    \/ which = "events" /\ E!Init /\ Silent
    \/ which = "song" /\ V!Init /\ Silent

KeyboardStep ==
    /\ which = "keyboard"
    /\ N!Next
    /\ UNCHANGED which

BindingStep ==
    /\ which = "bindings"
    /\ B!Next
    /\ UNCHANGED <<which, player>>

TuningStep ==
    /\ which = "tuning"
    /\ T!Next
    /\ UNCHANGED <<which, player>>

FileStep ==
    /\ which = "files"
    /\ F!Next
    /\ UNCHANGED <<which, player>>

DirectoryStep ==
    /\ which = "directories"
    /\ D!Next
    /\ UNCHANGED <<which, player>>

SettingsStep ==
    /\ which = "settings"
    /\ S!Next
    /\ UNCHANGED <<which, player>>

EventStep ==
    /\ which = "events"
    /\ E!Next
    /\ UNCHANGED <<which, player>>

SongStep ==
    /\ which = "song"
    /\ V!Next
    /\ UNCHANGED <<which, player>>

Next == KeyboardStep \/ BindingStep \/ TuningStep \/ FileStep \/ DirectoryStep \/ SettingsStep
    \/ EventStep \/ SongStep

Spec == Init /\ [][Next]_vars

-----------------------------------------------------------------------------
OfKeyboard(Formula) == which = "keyboard" => Formula
OfBindings(Formula) == which = "bindings" => Formula
OfTuning(Formula) == which = "tuning" => Formula
OfFiles(Formula) == which = "files" => Formula
OfDirectories(Formula) == which = "directories" => Formula
OfSettings(Formula) == which = "settings" => Formula
OfEvents(Formula) == which = "events" => Formula
OfSong(Formula) == which = "song" => Formula

NotationTypeOK == OfKeyboard(N!NotationTypeOK)
(* What is selected in the lists of the notation editor exists.            *)
SelectionsExist == OfKeyboard(N!SelectionsExist)
(* Handlers and updates find what they refer to.                           *)
NotationHandlersSucceed == OfKeyboard(N!HandlersSucceed)
(* The base octave stays the same octave when another one is removed.      *)
BaseFollowsItsOctave ==
    [][ (which = "keyboard" /\ done'.name = "removeOctave" /\ actions' # actions /\ failed' = "no") =>
            N!KeepsBase ]_vars
(* A notation made from its template plays the template.                   *)
CreatedKeymapPlaysTemplate == OfKeyboard(N!CreatedKeymapPlaysTemplate)
(* The three octaves of a template stay in order.                          *)
TemplateOctavesInOrder == OfKeyboard(N!TemplateOctavesInOrder)
(* The notation editor shows the data once it has followed the signals.    *)
EditorShowsNotation == OfKeyboard(N!EditorShowsNotation)
(* The buttons of the typewriter play the keys of the current octave.      *)
ButtonsPlayTheirKeys == OfKeyboard(N!ButtonsPlayTheirKeys)
(* The current octave is one of the keymap in use.                         *)
OctaveIsOfKeymap == OfKeyboard(N!OctaveIsOfKeymap)
(* A channel sounds for the key that is held and started its note.         *)
NoNoteHangs == OfKeyboard(N!NoNoteHangs)
(* Chord mode ends when the last key is released.                          *)
ChordEndsWithItsKeys == OfKeyboard(N!ChordEndsWithItsKeys)
(* The typewriter shows the keymap in use.                                 *)
TypewriterShowsKeymap == OfKeyboard(N!TypewriterShowsKeymap)

BindingsTypeOK == OfBindings(B!BindingsTypeOK)
(* Only a row left over by a removal can close a circle of events.         *)
OnlyLeftOversCloseCircles ==
    [][ (which = "bindings" /\ done'.name \notin {"leftover event", "leftover text"}) => B!ClosesNoCircle ]_vars
(* A target has an expression just when its event takes an argument.       *)
OnlyLeftOversMisfit ==
    [][ (which = "bindings" /\ done'.name # "leftover text") => \A t \in B!TargetsOf(store') : B!FitsOrIsOld(t) ]_vars
(* The selected binding exists.                                            *)
SelectedBindingExists == OfBindings(B!SelectedBindingExists)
(* The rows of the binding editor show the binding.                        *)
RowsShowBinding == OfBindings(B!RowsShowBinding)

TableTypeOK == OfTuning(T!TableTypeOK)
(* The tuning centre and the selected row are notes of the table.          *)
TableNotesExist == OfTuning(T!TableNotesExist)
(* Notes keep their names, and the tuning centre stays the same note.      *)
NotesKeepTheirNames ==
    [][(which = "tuning" /\ actions' # actions /\ done'.name \in {"add", "removeNote", "edit"}) =>
          T!KeepsNotes]_vars
(* The editor of the tuning table shows it.                                *)
EditorShowsTable == OfTuning(T!EditorShowsTable)

FileDialogTypeOK == OfFiles(F!FileDialogTypeOK)
(* The list of files shows what is known to be offered, in order.          *)
ListingIsSound == OfFiles(F!ListingIsSound)
(* The list of files comes to show what the directory holds.               *)
ListingCatchesUp == OfFiles(F!ListingCatchesUp)
(* The chosen entries are the ones highlighted.                            *)
ChoiceIsHighlighted == OfFiles(F!ChoiceIsHighlighted)
(* The button that ends the dialog can be pressed just when it may be.     *)
ButtonFollowsChoice == OfFiles(F!ButtonFollowsChoice)
(* The name to save under and the highlighted file agree.                  *)
NameIsHighlighted == OfFiles(F!NameIsHighlighted)
(* The dialog returns files of the directory it shows.                     *)
ReturnsFiles == OfFiles(F!ReturnsFiles)
(* The assertions of the dialog hold.                                      *)
FileDialogHandlersSucceed == OfFiles(F!FileDialogHandlersSucceed)

DirDialogTypeOK == OfDirectories(D!DirDialogTypeOK)
(* A scan fails only for a directory that was removed while it waited.     *)
ScansFailForRemovedOnly == OfDirectories(D!ScansFailForRemovedOnly)
(* Open and selected directories are watched, and no others.               *)
WatchesFollow == OfDirectories(D!WatchesFollow)
(* Open and selected directories come to show what is in them.             *)
TreeCatchesUp == OfDirectories(D!TreeCatchesUp)
(* The dialog begins with the directory it was given.                      *)
StartIsReached == OfDirectories(D!StartIsReached)

ThemesTypeOK == OfSettings(S!ThemesTypeOK)
(* Every theme is what its edits were meant to make of it.                 *)
EditsReachFiles == OfSettings(S!EditsReachFiles)
(* The selected theme exists.                                              *)
SelectedThemeExists == OfSettings(S!SelectedThemeExists)
(* The settings show the configuration and the selected theme.             *)
SettingsShown == OfSettings(S!SettingsShown)
(* The colour editor shows the colour it edits.                            *)
EditorShowsColour == OfSettings(S!EditorShowsColour)
(* Only custom themes are changed.                                         *)
StockThemesStay == OfSettings(S!StockThemesStay)
(* If a theme stores one colour, it stores them all.                       *)
ColoursStoredTogether == OfSettings(S!ColoursStoredTogether)
(* The configuration that is loaded is the one that was saved last.        *)
ConfigSurvives == OfSettings(S!ConfigSurvives)
(* Sizes are taken from the font of the theme that is selected.            *)
FontInUse == OfSettings(S!FontInUse)
(* Reverting brings back the colour the editor was opened with.            *)
RevertRestores ==
    [][(which = "settings" /\ session.on /\ done'.name = "revert" /\ actions' # actions /\ failed' = "no") =>
          S!Reverts]_vars
(* A new theme and a renamed one leave the others alone.                   *)
OthersAreKept ==
    [][(which = "settings" /\ done'.name \in {"add", "rename", "start"} /\ <<store, signals>> # <<store', signals'>>) =>
          S!KeepsOthers]_vars

EventMapTypeOK == OfEvents(E!EventMapTypeOK)
(* The lists of events and streams are what the rows were meant to make.   *)
ListsAreAsMeant == OfEvents(E!ListsAreAsMeant)
(* No two events and no two streams have the same name.                    *)
EventNamesAreUnique == OfEvents(E!EventNamesAreUnique)
(* The rows show the events, their bindings and the streams.               *)
EditorShowsEvents == OfEvents(E!EditorShowsEvents)

VariablesTypeOK == OfSong(V!VariablesTypeOK)
(* The adder fails only for a text that has outlived an update.            *)
AdderFailsAfterUpdateOnly == OfSong(V!AdderFailsAfterUpdateOnly)
(* The variables are what the rows were meant to make.                     *)
VariablesAreAsMeant == OfSong(V!VariablesAreAsMeant)
(* No two variables have the same name.                                    *)
VariableNamesAreUnique == OfSong(V!VariableNamesAreUnique)
(* The rows show the variables, the boxes what the channels start with.    *)
EditorShowsSong == OfSong(V!EditorShowsSong)
(* When a control goes no channel keeps it while another one is left.      *)
NoChannelKeepsControl ==
    [][(which = "song" /\ store'.controls # {}) => V!ControlsAreLeft]_vars
(* Setting a channel leaves every other channel as it was.                 *)
OtherChannelsStay ==
    [][(which = "song" /\ done'.name = "channel" /\ actions' # actions) => V!OthersStay]_vars

-----------------------------------------------------------------------------
(* What an editor has selected, and what data refers to, exists, and six   *)
(* failures are all that any handler or update meets: the key editor       *)
(* changes a key that the count has left out, a keymap loses its octave    *)
(* under the typewriter, the keys of a notation without notes are named,   *)
(* the adder of variables is pressed for a taken name after an update, a   *)
(* directory is removed while its scan waits, and a colour editor is left  *)
(* open over a theme that cannot be changed.  Each of them has its cause   *)
(* behind it; no other sequence of inputs, and of changes by others, leads *)
(* to a failing assertion or to an item that is not there.                 *)
FailuresAreKnown ==
    /\ NotationTypeOK /\ SelectionsExist /\ NotationHandlersSucceed /\ OctaveIsOfKeymap
    /\ BindingsTypeOK /\ SelectedBindingExists
    /\ TableTypeOK /\ TableNotesExist
    /\ FileDialogTypeOK /\ FileDialogHandlersSucceed
    /\ DirDialogTypeOK /\ ScansFailForRemovedOnly
    /\ EventMapTypeOK
    /\ VariablesTypeOK /\ AdderFailsAfterUpdateOnly
    /\ StockThemesStay

(* What is stored is what the inputs meant, though rows are edited by      *)
(* their number, their name or their place and the data is shared: lists,  *)
(* names and orders, a keymap like its template, and event bindings that   *)
(* no choice closes into a circle but one in a row that is left over after *)
(* a removal.                                                              *)
DataIsAsMeant ==
    /\ [](/\ CreatedKeymapPlaysTemplate /\ TemplateOctavesInOrder
          /\ ListsAreAsMeant /\ EventNamesAreUnique
          /\ VariablesAreAsMeant /\ VariableNamesAreUnique)
    /\ OnlyLeftOversCloseCircles /\ OnlyLeftOversMisfit

(* When its signals were followed an editor shows what is stored, whatever *)
(* other editor or undone edit changed it.                                 *)
EditorsShowData ==
    /\ EditorShowsNotation /\ RowsShowBinding /\ EditorShowsTable
    /\ EditorShowsEvents /\ EditorShowsSong

(* Notes of the typewriter end with the key that began them and are the    *)
(* ones its buttons show, whatever keymap or octave is chosen meanwhile.   *)
NotesEnd == NoNoteHangs /\ ChordEndsWithItsKeys /\ ButtonsPlayTheirKeys /\ TypewriterShowsKeymap

(* The dialogs follow files and directories that others make and remove,   *)
(* and what is chosen, highlighted and returned is one thing.              *)
DialogsFollowFiles ==
    /\ ListingIsSound /\ ListingCatchesUp /\ ChoiceIsHighlighted
    /\ ButtonFollowsChoice /\ NameIsHighlighted /\ ReturnsFiles
    /\ WatchesFollow /\ TreeCatchesUp /\ StartIsReached

(* Settings and themes survive writes that fail, a program that is killed  *)
(* between two steps of a write, and the next start.                       *)
SettingsSurvive ==
    /\ ThemesTypeOK /\ EditsReachFiles /\ ConfigSurvives /\ SelectedThemeExists
    /\ StockThemesStay /\ ColoursStoredTogether
    /\ SettingsShown /\ EditorShowsColour /\ FontInUse

(* An edit changes what it was made for and nothing beside it: notes keep  *)
(* their names, channels their controls, a theme the colours that a revert *)
(* brings back.                                                            *)
EditsLeaveOthers ==
    /\ BaseFollowsItsOctave /\ NotesKeepTheirNames
    /\ RevertRestores /\ OthersAreKept
    /\ NoChannelKeepsControl /\ OtherChannelsStay
=============================================================================
