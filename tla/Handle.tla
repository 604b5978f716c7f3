------------------------------ MODULE Handle ------------------------------
(***************************************************************************)
(* The calls of a Kunquat Handle (src/src/lib/Handle.c, Handle_player.c)   *)
(* and the keys that change what the player renders                        *)
(* (src/src/lib/init/Parse_manager.c).                                     *)
(*                                                                         *)
(* Data arrives key by key.  A key that is accepted makes the Handle not   *)
(* validated, and a key that touches the signal paths sets                 *)
(* update_connections, so that the next kqt_Handle_validate builds the     *)
(* player's signal plans anew.  Each call is one action: the library is    *)
(* not reentrant, and its threads are modelled elsewhere.                  *)
(***************************************************************************)
EXTENDS DeviceGraph

CONSTANTS
    Keys,      \* the optional keys the client uses, a subset of OptionalKeys
    Failures   \* what may fail, a subset of FailureKinds

(***************************************************************************)
(* "remove_au":             the manifest of the audio unit is removed.     *)
(* "remove_au_connections": its connections are removed.                   *)
(* "effect":                it may be an effect instead of an instrument.  *)
(***************************************************************************)
OptionalKeys == {"remove_au", "remove_au_connections", "effect"}

(***************************************************************************)
(* "memory":       a key is refused for want of memory before it changes   *)
(*                 anything.                                               *)
(* "late_memory":  the manifest of a processor fails after it has removed  *)
(*                 the old device state.                                   *)
(* "mixing":       no memory for a signal plan.                            *)
(***************************************************************************)
FailureKinds == {"memory", "late_memory", "mixing"}

ASSUME KeysAssumption == Keys \subseteq OptionalKeys
ASSUME HandleFailuresAssumption == Failures \subseteq FailureKinds

\* No call tells one processor from another by more than its key.
ProcSymmetry == {[r \in Procs |-> IF r = p THEN q ELSE IF r = q THEN p ELSE r] : p, q \in Procs}

VARIABLES
    isValid,            \* handle->data_is_valid
    isValidated,        \* handle->data_is_validated
    updateConnections,  \* handle->update_connections
    error,              \* the type of handle->error
    validationError,    \* the type of handle->validation_error
    top,                \* whether the audio unit is connected to the output
    au,                 \* the audio unit and its connections
    procs,              \* its processors and their device states
    created,            \* how many processors and device states were created
    contentOK,          \* whether the rest of the composition is consistent
    loaderFailed,       \* a background task has failed
    mixedPlan,          \* player->mixed_signal_plan
    voicePlan,          \* the voice_signal_plan of the audio unit's state
    voiceBuilt,         \* history: the last preparation built that plan
    crashed             \* the player has followed a pointer that leads nowhere

flags == <<isValid, isValidated, updateConnections>>
errors == <<error, validationError>>
graph == <<top, au, procs, created>>
content == <<contentOK, loaderFailed>>
plans == <<mixedPlan, voicePlan, voiceBuilt>>
vars == <<flags, errors, graph, content, plans, crashed>>

ErrorTypes == {"none", "argument", "format", "memory"}

TypeOK ==
    /\ isValid \in BOOLEAN
    /\ isValidated \in BOOLEAN
    /\ updateConnections \in BOOLEAN
    /\ error \in ErrorTypes
    /\ validationError \in {"none", "format"}
    /\ top \in BOOLEAN
    /\ au \in AudioUnits
    /\ procs \in [Procs -> Processors]
    /\ created \in Numbers
    /\ contentOK \in BOOLEAN
    /\ loaderFailed \in BOOLEAN
    /\ mixedPlan \in Refs(Plans)
    /\ voicePlan \in Refs(Plans)
    /\ voiceBuilt \in BOOLEAN
    /\ crashed \in BOOLEAN

Init ==
    /\ isValid = TRUE
    /\ isValidated = TRUE
    /\ updateConnections = FALSE
    /\ error = "none"
    /\ validationError = "none"
    /\ top = FALSE
    /\ au = [exists |-> FALSE, type |-> "none", conns |-> Null]
    /\ procs = [p \in Procs |-> NoProcessor]
    /\ created = 0
    /\ contentOK = TRUE
    /\ loaderFailed = FALSE
    /\ mixedPlan = Ref({})
    /\ voicePlan = Null
    /\ voiceBuilt = FALSE
    /\ crashed = FALSE

(***************************************************************************)
(* Calls that are refused before they look at their arguments.             *)
(***************************************************************************)

\* Nothing works any more on a Handle whose data is invalid.
CallInvalid ==
    /\ ~isValid
    /\ UNCHANGED <<flags, errors, graph, content, plans, crashed>>

\* The player's calls insist on validated data.
CallNotValidated ==
    /\ isValid
    /\ ~isValidated
    /\ error' = "argument"
    /\ UNCHANGED <<flags, validationError, graph, content, plans, crashed>>

\* Wrong: the error goes although the data stays invalid.
ClearErrorAlways ==
    /\ error' = "none"
    /\ UNCHANGED <<flags, validationError, graph, content, plans, crashed>>

ClearError ==
    /\ isValid
    /\ error' = "none"
    /\ UNCHANGED <<flags, validationError, graph, content, plans, crashed>>

(***************************************************************************)
(* kqt_Handle_set_data: what happens before and around the key's function. *)
(***************************************************************************)

\* A bad key, or data that does not go with its length.
SetDataBadArgument ==
    /\ isValid
    /\ error' = "argument"
    /\ UNCHANGED <<flags, validationError, graph, content, plans, crashed>>

\* After invalid data further keys are taken without a look.
SetDataIgnored ==
    /\ isValid
    /\ validationError # "none"
    /\ UNCHANGED <<flags, errors, graph, content, plans, crashed>>

Parses == isValid /\ validationError = "none"

\* The macro set_error of the parser: a format error waits for validation.
SetDataBadFormat ==
    /\ Parses
    /\ validationError' = "format"
    /\ UNCHANGED <<flags, error, graph, content, plans, crashed>>

\* An unknown type of a device is reported at once and forgotten.
SetDataBadType ==
    /\ Parses
    /\ error' = "format"
    /\ UNCHANGED <<flags, validationError, graph, content, plans, crashed>>

\* A manifest that is no dictionary, or a string that does not end.
SetDataUnreadable ==
    /\ Parses
    /\ UNCHANGED <<flags, errors, graph, content, plans, crashed>>

SetDataNoMemory ==
    /\ Parses
    /\ "memory" \in Failures
    /\ error' = "memory"
    /\ UNCHANGED <<flags, validationError, graph, content, plans, crashed>>

\* What an accepted key leaves behind, apart from its own effect.
Accepted ==
    /\ Parses
    /\ isValidated' = FALSE
    /\ UNCHANGED <<isValid, errors, plans, crashed>>

(***************************************************************************)
(* The keys.                                                               *)
(***************************************************************************)

SetConnections(connected) ==
    /\ Accepted
    /\ top' = connected
    /\ updateConnections' = TRUE
    /\ UNCHANGED <<au, procs, created, content>>

SetAuManifest(type) ==
    /\ Accepted
    /\ type = "instrument" \/ "effect" \in Keys
    /\ au' = [au EXCEPT !.exists = TRUE, !.type = type]
    /\ UNCHANGED <<updateConnections, top, procs, created, content>>

RemoveAuManifest ==
    /\ Accepted
    /\ "remove_au" \in Keys
    /\ au' = [au EXCEPT !.exists = FALSE]
    /\ UNCHANGED <<updateConnections, top, procs, created, content>>

\* Wrong: the plans are not marked for an update.
SetAuConnectionsQuietly(conns) ==
    /\ Accepted
    /\ conns = Null => "remove_au_connections" \in Keys
    /\ au' = [au EXCEPT !.conns = conns]
    /\ UNCHANGED <<updateConnections, top, procs, created, content>>

SetAuConnections(conns) ==
    /\ Accepted
    /\ conns = Null => "remove_au_connections" \in Keys
    /\ au' = [au EXCEPT !.conns = conns]
    /\ updateConnections' = TRUE
    /\ UNCHANGED <<top, procs, created, content>>

\* add_processor: the processor that is there, or a new one.
IdOf(p) == IF procs[p].id = 0 THEN created + 1 ELSE procs[p].id

\* Wrong: only a new processor asks for new plans.
SetProcManifestOnce(p) ==
    /\ Accepted
    /\ created < MaxDevices
    /\ created' = created + 1
    /\ procs' = [procs EXCEPT ![p].exists = TRUE, ![p].state = created + 1, ![p].id = IdOf(p)]
    /\ updateConnections' = (updateConnections \/ ~procs[p].exists)
    /\ UNCHANGED <<top, au, content>>

\* A manifest over an old one replaces the device state too.
SetProcManifest(p) ==
    /\ Accepted
    /\ created < MaxDevices
    /\ created' = created + 1
    /\ procs' = [procs EXCEPT ![p].exists = TRUE, ![p].state = created + 1, ![p].id = IdOf(p)]
    /\ updateConnections' = TRUE
    /\ UNCHANGED <<top, au, content>>

SetProcManifestFails(p) ==
    /\ Parses
    /\ "late_memory" \in Failures
    /\ created < MaxDevices
    /\ created' = created + 1
    /\ procs' = [procs EXCEPT ![p].state = 0, ![p].id = IdOf(p)]
    /\ error' = "memory"
    /\ UNCHANGED <<flags, validationError, top, au, content, plans, crashed>>

RemoveProc(p) ==
    /\ Accepted
    /\ procs' = [procs EXCEPT ![p] = NoProcessor]
    /\ UNCHANGED <<updateConnections, top, au, created, content>>

SetProcSignalType(p, signals) ==
    /\ Accepted
    /\ procs[p].id = 0 => created < MaxDevices
    /\ created' = IF procs[p].id = 0 THEN created + 1 ELSE created
    /\ procs' = [procs EXCEPT ![p].signals = signals, ![p].id = IdOf(p)]
    /\ updateConnections' = TRUE
    /\ UNCHANGED <<top, au, content>>

\* Songs, patterns, samples and the rest; a sample may be loaded in the
\* background and fail there.
SetOther ==
    /\ Accepted
    /\ contentOK' \in BOOLEAN
    /\ loaderFailed' \in {loaderFailed, TRUE}
    /\ UNCHANGED <<updateConnections, graph>>

(***************************************************************************)
(* kqt_Handle_validate and the player.                                     *)
(***************************************************************************)

IsInstrument == au.exists /\ au.type = "instrument"

\* Only an instrument with connections gets a plan for its voices.
HasVoicePlan == IsInstrument /\ au.conns.given

\* The connections of the audio unit are walked for either plan, and a device
\* without a state stops the program there.
CanBuild ==
    top \/ IsInstrument => \A p \in Connected(au) : procs[p].exists => procs[p].state # 0

\* An audio unit that is no instrument or has no connections keeps the plan
\* it has.
PrepareVoices ==
    /\ voicePlan' = IF HasVoicePlan THEN Ref(VoicePlan(au, procs)) ELSE voicePlan
    /\ voiceBuilt' = HasVoicePlan

\* Player_prepare_mixing
PrepareMixing ==
    /\ mixedPlan' = Ref(MixedPlan(top, au, procs))
    /\ PrepareVoices
    /\ crashed' = (crashed \/ ~CanBuild)

\* The old mixed signal plan goes first, then memory may run out before the
\* voice signal plan is replaced or after it.
PrepareMixingFails ==
    /\ "mixing" \in Failures
    /\ mixedPlan' = Null
    /\ PrepareVoices \/ (UNCHANGED voicePlan /\ voiceBuilt' = FALSE)
    /\ error' = "memory"
    /\ UNCHANGED crashed

\* A format error of a key comes back now.
ValidateRejects ==
    /\ isValid
    /\ validationError # "none"
    /\ error' = validationError
    /\ isValid' = FALSE
    /\ UNCHANGED <<isValidated, updateConnections, validationError, graph, content,
                   plans, crashed>>

DataIsOK == ~loaderFailed /\ contentOK /\ ConnectionsOK(top, au, procs)

\* There is no way back from invalid data.
ValidateFindsError ==
    /\ Parses
    /\ ~DataIsOK
    /\ error' = "format"
    /\ isValid' = FALSE
    /\ UNCHANGED <<isValidated, updateConnections, validationError, graph, content,
                   plans, crashed>>

Validate ==
    /\ Parses
    /\ DataIsOK
    /\ isValidated' = TRUE
    /\ updateConnections' = FALSE
    /\ IF updateConnections THEN PrepareMixing ELSE UNCHANGED <<plans, crashed>>
    /\ UNCHANGED <<isValid, errors, graph, content>>

ValidateNoMemory ==
    /\ Parses
    /\ DataIsOK
    /\ isValidated' = TRUE
    /\ updateConnections
    /\ PrepareMixingFails
    /\ UNCHANGED <<isValid, updateConnections, validationError, graph, content>>

Ready == isValid /\ isValidated

\* kqt_Handle_set_player_thread_count builds the plans for the new count.
SetPlayerThreadCount ==
    /\ Ready
    /\ PrepareMixing
    /\ UNCHANGED <<flags, errors, graph, content>>

SetPlayerThreadCountFails ==
    /\ Ready
    /\ PrepareMixingFails
    /\ UNCHANGED <<flags, validationError, graph, content>>

\* A note is started on every processor with voice signals.
NoteVoices ==
    IF au.type = "instrument"
    THEN {p \in Procs : procs[p].exists /\ procs[p].signals = "voice"} ELSE {}

\* What the player relies on when it renders: there is a mixed signal plan
\* (Player.c:1693), and every device a plan or a note names has its state
\* (Device_states.c:201).
CanRender(note) ==
    /\ mixedPlan.given /\ MixedPlanIntact(mixedPlan.set, procs)
    /\ note /\ NoteVoices # {} =>
          /\ \A p \in NoteVoices : procs[p].state # 0
          /\ VoicePlanIntact(voicePlan.set, procs)

\* kqt_Handle_play, with or without a note of the audio unit.
Play(note) ==
    /\ Ready
    /\ crashed' = (crashed \/ ~CanRender(note))
    /\ UNCHANGED <<flags, errors, graph, content, plans>>

SetData ==
    \/ SetDataBadArgument \/ SetDataIgnored
    \/ SetDataBadFormat \/ SetDataBadType \/ SetDataUnreadable \/ SetDataNoMemory
    \/ \E connected \in BOOLEAN : SetConnections(connected)
    \/ \E type \in {"instrument", "effect"} : SetAuManifest(type)
    \/ RemoveAuManifest
    \/ \E conns \in {Null} \cup {Ref(S) : S \in SUBSET Procs} : SetAuConnections(conns)
    \/ \E p \in Procs :
          \/ SetProcManifest(p) \/ SetProcManifestFails(p) \/ RemoveProc(p)
          \/ \E signals \in {"voice", "mixed"} : SetProcSignalType(p, signals)
    \/ SetOther

Next ==
    /\ ~crashed
    /\ \/ CallInvalid \/ CallNotValidated \/ ClearError
       \/ SetData
       \/ ValidateRejects \/ ValidateFindsError \/ Validate \/ ValidateNoMemory
       \/ SetPlayerThreadCount \/ SetPlayerThreadCountFails
       \/ \E note \in BOOLEAN : Play(note)

Spec == Init /\ [][Next]_vars

(***************************************************************************)
(* Properties.                                                             *)
(***************************************************************************)

\* Every processor has its device state: no manifest has failed late, or each
\* that has was set again.
StatesWhole == \A p \in Procs : procs[p].exists => procs[p].state # 0

\* The mixed signal plan of a Handle that may be played is the one its present
\* connections and devices ask for, although most keys leave the plan alone;
\* a preparation without memory leaves no plan rather than an old one.
MixedPlanCurrent ==
    Ready /\ StatesWhole /\ mixedPlan.given => mixedPlan = Ref(MixedPlan(top, au, procs))

\* So is the voice signal plan of an instrument, if the last preparation built
\* one.  It builds none for an effect, which may become an instrument without
\* a new preparation, and none when the connections were removed
\* (Player.c:513); an older plan stays there.
VoicePlanCurrent ==
    Ready /\ IsInstrument /\ voiceBuilt => voicePlan.set = VoicePlan(au, procs)

\* No device is missing, there is a mixed signal plan, and no voice signal
\* plan is left from before the last preparation or from an audio unit that
\* has been removed.
NothingLeftOver ==
    /\ StatesWhole
    /\ mixedPlan.given
    /\ voicePlan.given => voiceBuilt /\ au.exists

\* The player never renders, or builds a plan, with a pointer to a device
\* state that is gone or without a plan (the assertions at Player.c:1693 and
\* Device_states.c:201), whatever keys were set between two validations, as
\* long as nothing is left over; and building a plan needs only the states.
PlayerIsSafe ==
    Ready =>
        /\ StatesWhole => CanBuild
        /\ NothingLeftOver => \A note \in BOOLEAN : CanRender(note)

\* What is heard is what the data says and can be heard: both plans are the
\* present ones, of whatever keys were set since they were made.
PlansAreCurrent == MixedPlanCurrent /\ VoicePlanCurrent /\ PlayerIsSafe

\* A Handle that was declared invalid keeps the error that says why: no later
\* call clears or replaces it with nothing.
InvalidHandleHasError == ~isValid => error # "none"

(***************************************************************************)
(* The inductive invariant behind the plans.                               *)
(***************************************************************************)

AllConnectedExist == \A p \in Connected(au) : procs[p].exists
AllConnectedWhole == \A p \in Connected(au) : procs[p].exists /\ procs[p].state # 0

\* A processor has an id and only a processor has a device state; data that
\* counts as validated passed the checks.
GraphOK ==
    /\ \A p \in Procs : procs[p].exists => procs[p].id # 0
    /\ \A p \in Procs : procs[p].state # 0 => procs[p].exists
    /\ isValidated => ConnectionsOK(top, au, procs)

\* No key has asked for new plans since the last ones were made.
PlansKept == isValidated \/ ~updateConnections

\* Until a key asks for new plans, the mixed signal plan stays right for any
\* data that can pass the checks.
MixedPlanKept ==
    PlansKept /\ mixedPlan.given =>
        /\ ~top => mixedPlan.set = {}
        /\ top /\ AllConnectedWhole =>
              mixedPlan.set = {<<p, procs[p].state>> : p \in Connected(au)}

\* So does the voice signal plan, if it was built.
VoicePlanKept ==
    PlansKept /\ voiceBuilt /\ AllConnectedExist => voicePlan.set = VoicePlan(au, procs)

\* What makes PlansAreCurrent true in every state.
PlansInv == TypeOK /\ GraphOK /\ MixedPlanKept /\ VoicePlanKept

=============================================================================
