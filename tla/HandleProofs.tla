---------------------------- MODULE HandleProofs ----------------------------
(***************************************************************************)
(* An invalid Handle keeps its error; and the signal plans of a Handle     *)
(* that may be played are the ones its connections and devices ask for.    *)
(* Both hold for any number of processors, whatever keys a client uses and *)
(* whatever fails.                                                         *)
(***************************************************************************)
EXTENDS Handle, TLAPS

\* The plans the player builds are plans.
LEMMA PlanTypes ==
    ASSUME TypeOK
    PROVE  /\ MixedPlan(top, au, procs) \in Plans
           /\ VoicePlan(au, procs) \in Plans
           /\ Ref(MixedPlan(top, au, procs)) \in Refs(Plans)
           /\ Ref(VoicePlan(au, procs)) \in Refs(Plans)
           /\ Null \in Refs(Plans)
<1>1. /\ Connected(au) \subseteq Procs
      /\ \A p \in Procs : procs[p].state \in Numbers /\ procs[p].id \in Numbers
  BY DEF TypeOK, Connected, AudioUnits, Refs, Processors
<1>2. MixedPlan(top, au, procs) \in Plans  BY <1>1 DEF MixedPlan, Plans
<1>3. VoicePlan(au, procs) \in Plans  BY <1>1 DEF VoicePlan, Plans
<1>4. \A S \in Plans : Ref(S) \in Refs(Plans)  BY DEF Ref, Refs
<1>5. Null \in Refs(Plans)  BY DEF Null, Refs, Plans
<1> QED  BY <1>2, <1>3, <1>4, <1>5

LEMMA DeviceTypes ==
    ASSUME TypeOK, NEW p \in Procs
    PROVE  /\ NoProcessor \in Processors
           /\ procs[p] \in Processors
           /\ created < MaxDevices => created + 1 \in Numbers /\ IdOf(p) \in Numbers
           /\ procs[p].id # 0 => IdOf(p) \in Numbers
BY MaxDevicesAssumption DEF TypeOK, Numbers, NoProcessor, Processors, Signals, IdOf

LEMMA InitTypeOK == Init => TypeOK
<1> SUFFICES ASSUME Init PROVE TypeOK  OBVIOUS
<1>1. 0 \in Numbers  BY MaxDevicesAssumption DEF Numbers
<1>2. procs \in [Procs -> Processors]  BY <1>1 DEF Init, NoProcessor, Processors, Signals
<1>3. Null \in Refs(Plans) /\ Ref({}) \in Refs(Plans) /\ Null \in Refs(SUBSET Procs)  BY DEF Null, Ref, Refs, Plans
<1> QED  BY <1>1, <1>2, <1>3 DEF Init, TypeOK, ErrorTypes, AudioUnits, AuTypes

LEMMA NextTypeOK == TypeOK /\ [Next]_vars => TypeOK'
<1> SUFFICES ASSUME TypeOK, [Next]_vars PROVE TypeOK'  OBVIOUS
<1> USE DEF TypeOK, ErrorTypes, flags, errors, graph, content, plans
<1>1. CASE CallInvalid \/ CallNotValidated  BY <1>1 DEF CallInvalid, CallNotValidated
<1>2. CASE ClearError  BY <1>2 DEF ClearError
<1>3. CASE \/ SetDataBadArgument \/ SetDataIgnored \/ SetDataBadFormat
           \/ SetDataBadType \/ SetDataUnreadable \/ SetDataNoMemory
  <2>1. CASE SetDataBadArgument  BY <2>1 DEF SetDataBadArgument
  <2>2. CASE SetDataIgnored  BY <2>2 DEF SetDataIgnored
  <2>3. CASE SetDataBadFormat  BY <2>3 DEF SetDataBadFormat
  <2>4. CASE SetDataBadType  BY <2>4 DEF SetDataBadType
  <2>5. CASE SetDataUnreadable  BY <2>5 DEF SetDataUnreadable
  <2>6. CASE SetDataNoMemory  BY <2>6 DEF SetDataNoMemory
  <2> QED  BY <1>3, <2>1, <2>2, <2>3, <2>4, <2>5, <2>6
<1>4. ASSUME NEW connected \in BOOLEAN, SetConnections(connected) PROVE TypeOK'  BY <1>4 DEF SetConnections, Accepted
<1>5. ASSUME NEW type \in {"instrument", "effect"}, SetAuManifest(type) PROVE TypeOK'
  <2>1. [au EXCEPT !.exists = TRUE, !.type = type] \in AudioUnits  BY <1>5 DEF AudioUnits, AuTypes
  <2> QED  BY <1>5, <2>1 DEF SetAuManifest, Accepted
<1>6. CASE RemoveAuManifest
  <2>1. [au EXCEPT !.exists = FALSE] \in AudioUnits  BY DEF AudioUnits
  <2> QED  BY <1>6, <2>1 DEF RemoveAuManifest, Accepted
<1>7. ASSUME NEW conns \in {Null} \cup {Ref(S) : S \in SUBSET Procs}, SetAuConnections(conns)
      PROVE  TypeOK'
  <2>1. conns \in Refs(SUBSET Procs)
    <3>1. Null \in Refs(SUBSET Procs)  BY DEF Null, Refs
    <3>2. \A S \in SUBSET Procs : Ref(S) \in Refs(SUBSET Procs)  BY DEF Ref, Refs
    <3> QED  BY <3>1, <3>2
  <2>2. [au EXCEPT !.conns = conns] \in AudioUnits  BY <2>1 DEF AudioUnits
  <2> QED  BY <1>7, <2>2 DEF SetAuConnections, Accepted
<1>8. ASSUME NEW p \in Procs, SetProcManifest(p) \/ SetProcManifestFails(p) PROVE TypeOK'
  <2>1. created + 1 \in Numbers /\ IdOf(p) \in Numbers /\ 0 \in Numbers
    BY <1>8, DeviceTypes, MaxDevicesAssumption DEF SetProcManifest, SetProcManifestFails, Numbers
  <2>2. CASE SetProcManifest(p)
    <3> DEFINE x == [procs[p] EXCEPT !.exists = TRUE, !.state = created + 1, !.id = IdOf(p)]
    <3>1. x \in Processors  BY <2>1, DeviceTypes DEF Processors
    <3>2. procs' = [procs EXCEPT ![p] = x]  BY <2>2 DEF SetProcManifest
    <3> HIDE DEF x
    <3>3. procs' \in [Procs -> Processors]  BY <3>1, <3>2 DEF TypeOK
    <3> QED  BY <2>1, <2>2, <3>3 DEF SetProcManifest, Accepted
  <2>3. CASE SetProcManifestFails(p)
    <3>1. procs' \in [Procs -> Processors]  BY <2>1, <2>3 DEF SetProcManifestFails, Processors
    <3> QED  BY <2>1, <2>3, <3>1 DEF SetProcManifestFails
  <2> QED  BY <1>8, <2>2, <2>3
<1>9. ASSUME NEW p \in Procs, RemoveProc(p) PROVE TypeOK'  BY <1>9, DeviceTypes DEF RemoveProc, Accepted
<1>10. ASSUME NEW p \in Procs, NEW signals \in {"voice", "mixed"}, SetProcSignalType(p, signals)
       PROVE  TypeOK'
  <2>1. IdOf(p) \in Numbers /\ created' \in Numbers  BY <1>10, DeviceTypes DEF SetProcSignalType
  <2>2. procs' \in [Procs -> Processors]
    <3> DEFINE x == [procs[p] EXCEPT !.signals = signals, !.id = IdOf(p)]
    <3>1. x \in Processors  BY <2>1, DeviceTypes DEF Processors, Signals
    <3>2. procs' = [procs EXCEPT ![p] = x]  BY <1>10 DEF SetProcSignalType
    <3> HIDE DEF x
    <3> QED  BY <3>1, <3>2 DEF TypeOK
  <2> QED  BY <1>10, <2>1, <2>2 DEF SetProcSignalType, Accepted
<1>11. CASE SetOther  BY <1>11 DEF SetOther, Accepted
<1>12. CASE ValidateRejects \/ ValidateFindsError
  <2>1. CASE ValidateRejects  BY <2>1 DEF ValidateRejects
  <2>2. CASE ValidateFindsError  BY <2>2 DEF ValidateFindsError
  <2> QED  BY <1>12, <2>1, <2>2
<1>13. CASE Validate \/ SetPlayerThreadCount
  <2>1. ASSUME PrepareMixing
        PROVE  /\ mixedPlan' \in Refs(Plans) /\ voicePlan' \in Refs(Plans)
               /\ voiceBuilt' \in BOOLEAN /\ crashed' \in BOOLEAN
    BY <2>1, PlanTypes DEF PrepareMixing, PrepareVoices, HasVoicePlan, IsInstrument
  <2>2. CASE Validate  BY <2>1, <2>2 DEF Validate
  <2>3. CASE SetPlayerThreadCount  BY <2>1, <2>3 DEF SetPlayerThreadCount
  <2> QED  BY <1>13, <2>2, <2>3
<1>14. CASE ValidateNoMemory \/ SetPlayerThreadCountFails
  <2>1. ASSUME PrepareMixingFails
        PROVE  /\ mixedPlan' \in Refs(Plans) /\ voicePlan' \in Refs(Plans)
               /\ voiceBuilt' \in BOOLEAN /\ error' \in ErrorTypes /\ crashed' \in BOOLEAN
    BY <2>1, PlanTypes DEF PrepareMixingFails, PrepareVoices, HasVoicePlan, IsInstrument
  <2>2. CASE ValidateNoMemory  BY <2>1, <2>2 DEF ValidateNoMemory
  <2>3. CASE SetPlayerThreadCountFails  BY <2>1, <2>3 DEF SetPlayerThreadCountFails
  <2> QED  BY <1>14, <2>2, <2>3
<1>15. ASSUME NEW note \in BOOLEAN, Play(note) PROVE TypeOK'  BY <1>15 DEF Play
<1>16. CASE UNCHANGED vars  BY <1>16 DEF vars
<1> QED
  BY <1>1, <1>2, <1>3, <1>4, <1>5, <1>6, <1>7, <1>8, <1>9, <1>10, <1>11, <1>12, <1>13, <1>14, <1>15, <1>16 DEF Next,
     SetData

\* Every variable of the Handle keeps its type.
THEOREM TypeCorrect == Spec => []TypeOK
<1>1. Init => TypeOK  BY InitTypeOK
<1>2. TypeOK /\ [Next]_vars => TypeOK'  BY NextTypeOK
<1> QED  BY <1>1, <1>2, PTL DEF Spec

\* A Handle that was declared invalid keeps an error that says why, whatever
\* is called on it later (Handle.c: check_handle, kqt_Handle_clear_error).
THEOREM InvalidKeepsError == Spec => []InvalidHandleHasError
<1>1. Init => InvalidHandleHasError  BY DEF Init, InvalidHandleHasError
<1>2. InvalidHandleHasError /\ [Next]_vars => InvalidHandleHasError'
  <2> SUFFICES ASSUME InvalidHandleHasError, [Next]_vars PROVE InvalidHandleHasError'  OBVIOUS
  <2> USE DEF InvalidHandleHasError, flags, errors
  <2>1. CASE CallInvalid \/ CallNotValidated  BY <2>1 DEF CallInvalid, CallNotValidated
  <2>2. CASE ClearError  BY <2>2 DEF ClearError
  <2>3. CASE SetData
    <3>1. isValid /\ isValid' = isValid
      BY <2>3 DEF SetData, SetDataBadArgument, SetDataIgnored, SetDataBadFormat, SetDataBadType, SetDataUnreadable,
         SetDataNoMemory, SetConnections, SetAuManifest, RemoveAuManifest, SetAuConnections, SetProcManifest,
         SetProcManifestFails, RemoveProc, SetProcSignalType, SetOther, Accepted, Parses
    <3> QED  BY <3>1
  <2>4. CASE ValidateRejects \/ ValidateFindsError  BY <2>4 DEF ValidateRejects, ValidateFindsError
  <2>5. CASE Validate \/ ValidateNoMemory  BY <2>5 DEF Validate, ValidateNoMemory, Parses
  <2>6. CASE SetPlayerThreadCount \/ SetPlayerThreadCountFails
    BY <2>6 DEF SetPlayerThreadCount, SetPlayerThreadCountFails, Ready
  <2>7. ASSUME NEW note, Play(note) PROVE InvalidHandleHasError'  BY <2>7 DEF Play
  <2>8. CASE UNCHANGED vars  BY <2>8 DEF vars
  <2> QED  BY <2>1, <2>2, <2>3, <2>4, <2>5, <2>6, <2>7, <2>8 DEF Next
<1> QED  BY <1>1, <1>2, PTL DEF Spec

\* The signal plans.

PlanParts == GraphOK /\ MixedPlanKept /\ VoicePlanKept

LEMMA InitPlanParts == Init => PlanParts
    BY DEF Init, PlanParts, GraphOK, MixedPlanKept, VoicePlanKept,
           ConnectionsOK, NoProcessor, Null, Ref

\* A call that touches neither the graph nor the plans, and validates nothing.
LEMMA QuietStep ==
    ASSUME PlanParts,
           UNCHANGED <<top, au, procs, updateConnections, mixedPlan, voicePlan, voiceBuilt>>,
           isValidated' => isValidated
    PROVE  PlanParts'
<1>1. /\ AllConnectedExist' = AllConnectedExist /\ AllConnectedWhole' = AllConnectedWhole
      /\ PlansKept' => PlansKept  BY DEF AllConnectedExist, AllConnectedWhole, PlansKept
<1> QED  BY <1>1 DEF PlanParts, GraphOK, MixedPlanKept, VoicePlanKept

\* A key that asks for new plans leaves only the processors to look at.
LEMMA MarkingStep ==
    ASSUME updateConnections' = TRUE, isValidated' = FALSE,
           \A p \in Procs : procs'[p].exists => procs'[p].id # 0,
           \A p \in Procs : procs'[p].state # 0 => procs'[p].exists
    PROVE  PlanParts'
BY DEF PlanParts, GraphOK, MixedPlanKept, VoicePlanKept, PlansKept

\* A manifest of the audio unit changes none of the connections.
LEMMA AuManifestStep ==
    ASSUME PlanParts, au'.conns = au.conns, isValidated' = FALSE,
           UNCHANGED <<top, procs, updateConnections, mixedPlan, voicePlan, voiceBuilt>>
    PROVE  PlanParts'
<1>1. Connected(au') = Connected(au)  BY DEF Connected
<1>2. /\ AllConnectedExist' = AllConnectedExist /\ AllConnectedWhole' = AllConnectedWhole
      /\ PlansKept' => PlansKept  BY <1>1 DEF AllConnectedExist, AllConnectedWhole, PlansKept
<1>3. VoicePlan(au', procs) = VoicePlan(au, procs)  BY <1>1 DEF VoicePlan
<1> QED  BY <1>1, <1>2, <1>3 DEF PlanParts, GraphOK, MixedPlanKept, VoicePlanKept

\* A key that takes a processor or its state away breaks the connections if
\* they name it, and touches no plan if they do not.
LEMMA LossStep ==
    ASSUME PlanParts, NEW p \in Procs, Connected(au) \subseteq Procs,
           UNCHANGED <<top, au, updateConnections, mixedPlan, voicePlan, voiceBuilt>>,
           isValidated' => isValidated /\ ConnectionsOK(top, au, procs'),
           \A q \in Procs : q # p => procs'[q] = procs[q],
           procs'[p].state = 0,
           procs'[p].exists => procs[p].exists /\ procs'[p].id = procs[p].id
                                 /\ procs'[p].signals = procs[p].signals
    PROVE  PlanParts'
<1>1. PlansKept' => PlansKept  BY DEF PlansKept
<1>2. ASSUME AllConnectedWhole'
      PROVE  AllConnectedWhole /\ \A q \in Connected(au) : procs'[q] = procs[q]
  BY <1>2 DEF AllConnectedWhole, Connected
<1>3. MixedPlanKept'  BY <1>1, <1>2 DEF PlanParts, MixedPlanKept
<1>4. ASSUME AllConnectedExist' PROVE AllConnectedExist /\ VoicePlan(au', procs') = VoicePlan(au, procs)
  <2>1. \A q \in Connected(au) : /\ procs'[q].exists /\ procs[q].exists
                                 /\ procs'[q].id = procs[q].id /\ procs'[q].signals = procs[q].signals
    BY <1>4 DEF AllConnectedExist, Connected
  <2> QED  BY <2>1 DEF VoicePlan, AllConnectedExist
<1>5. VoicePlanKept'  BY <1>1, <1>4 DEF PlanParts, VoicePlanKept
<1>6. GraphOK'  BY DEF PlanParts, GraphOK
<1> QED  BY <1>3, <1>5, <1>6 DEF PlanParts

\* The plans built for connections that passed the checks are right.
LEMMA PrepareMixingStep ==
    ASSUME PlanParts, PrepareMixing, ConnectionsOK(top, au, procs),
           Connected(au) \subseteq Procs, UNCHANGED <<top, au, procs>>
    PROVE  PlanParts'
<1>1. mixedPlan' = Ref(MixedPlan(top, au, procs)) /\ PrepareVoices  BY DEF PrepareMixing
<1>2. top => au.exists /\ AllConnectedExist  BY DEF ConnectionsOK, AllConnectedExist
<1>3. MixedPlanKept'
  <2>1. ~top => mixedPlan'.set = {}  BY <1>1 DEF Ref, MixedPlan
  <2>2. top => mixedPlan'.set = {<<p, procs[p].state>> : p \in Connected(au)}
    BY <1>1, <1>2 DEF Ref, MixedPlan, AllConnectedExist
  <2> QED  BY <2>1, <2>2 DEF MixedPlanKept
<1>4. voiceBuilt' => voicePlan'.set = VoicePlan(au, procs)  BY <1>1 DEF PrepareVoices, Ref
<1>5. VoicePlanKept'  BY <1>4 DEF VoicePlanKept
<1> QED  BY <1>3, <1>5 DEF PlanParts, GraphOK

\* A preparation that fails leaves no mixed signal plan, and a new voice signal
\* plan or one that does not count as built.
LEMMA PrepareMixingFailsStep ==
    ASSUME PlanParts, PrepareMixingFails, ConnectionsOK(top, au, procs), UNCHANGED <<top, au, procs>>
    PROVE  PlanParts'
<1>1. MixedPlanKept'  BY DEF PrepareMixingFails, Null, MixedPlanKept
<1>2. voiceBuilt' => voicePlan'.set = VoicePlan(au, procs)
  <2>1. PrepareVoices => (voiceBuilt' => voicePlan'.set = VoicePlan(au, procs))  BY DEF PrepareVoices, Ref
  <2> QED  BY <2>1 DEF PrepareMixingFails
<1>3. VoicePlanKept'  BY <1>2 DEF VoicePlanKept
<1> QED  BY <1>1, <1>3 DEF PlanParts, GraphOK

LEMMA NextPlanParts == TypeOK /\ PlanParts /\ [Next]_vars => PlanParts'
<1> SUFFICES ASSUME TypeOK, PlanParts, [Next]_vars PROVE PlanParts'  OBVIOUS
<1> USE DEF flags, errors, graph, content, plans
<1>0. Connected(au) \subseteq Procs /\ procs \in [Procs -> Processors] /\ created \in Nat
  BY MaxDevicesAssumption DEF TypeOK, Connected, AudioUnits, Refs, Numbers
<1>1. CASE CallInvalid \/ CallNotValidated  BY <1>1, QuietStep DEF CallInvalid, CallNotValidated
<1>2. CASE ClearError  BY <1>2, QuietStep DEF ClearError
<1>3. CASE \/ SetDataBadArgument \/ SetDataIgnored \/ SetDataBadFormat
           \/ SetDataBadType \/ SetDataUnreadable \/ SetDataNoMemory
  BY <1>3, QuietStep DEF SetDataBadArgument, SetDataIgnored, SetDataBadFormat, SetDataBadType, SetDataUnreadable,
     SetDataNoMemory
<1>4. ASSUME NEW connected \in BOOLEAN, SetConnections(connected) PROVE PlanParts'
  BY <1>4, MarkingStep DEF SetConnections, Accepted, PlanParts, GraphOK
<1>5. ASSUME NEW type \in {"instrument", "effect"}, SetAuManifest(type) PROVE PlanParts'
  BY <1>5, AuManifestStep DEF SetAuManifest, Accepted, TypeOK, AudioUnits
<1>6. CASE RemoveAuManifest  BY <1>6, AuManifestStep DEF RemoveAuManifest, Accepted, TypeOK, AudioUnits
<1>7. ASSUME NEW conns \in {Null} \cup {Ref(S) : S \in SUBSET Procs}, SetAuConnections(conns)
      PROVE  PlanParts'
  BY <1>7, MarkingStep DEF SetAuConnections, Accepted, PlanParts, GraphOK
<1>8. ASSUME NEW p \in Procs, SetProcManifest(p) PROVE PlanParts'
  <2>1. \A q \in Procs : procs'[q].exists => procs'[q].id # 0
    BY <1>0, <1>8 DEF PlanParts, GraphOK, IdOf, SetProcManifest, Processors
  <2>2. \A q \in Procs : procs'[q].state # 0 => procs'[q].exists
    BY <1>0, <1>8 DEF PlanParts, GraphOK, SetProcManifest, Processors
  <2> QED  BY <2>1, <2>2, MarkingStep, <1>8 DEF SetProcManifest, Accepted
<1>9. ASSUME NEW p \in Procs, SetProcManifestFails(p) PROVE PlanParts'
  <2>1. /\ procs' = [procs EXCEPT ![p].state = 0, ![p].id = IdOf(p)]
        /\ UNCHANGED <<top, au, updateConnections, isValidated, mixedPlan, voicePlan, voiceBuilt>>
    BY <1>9 DEF SetProcManifestFails
  <2>2. /\ \A q \in Procs : q # p => procs'[q] = procs[q]
        /\ \A q \in Procs : procs'[q].exists = procs[q].exists /\ procs'[q].signals = procs[q].signals
        /\ procs'[p].state = 0 /\ procs'[p].id = IdOf(p)  BY <1>0, <2>1 DEF Processors
  <2>3. procs[p].exists => IdOf(p) = procs[p].id  BY DEF PlanParts, GraphOK, IdOf
  <2>4. isValidated => ConnectionsOK(top, au, procs')
    BY <1>0, <2>2 DEF PlanParts, GraphOK, ConnectionsOK
  <2> QED  BY <1>0, <2>1, <2>2, <2>3, <2>4, LossStep
<1>10. ASSUME NEW p \in Procs, RemoveProc(p) PROVE PlanParts'
  <2>1. /\ procs' = [procs EXCEPT ![p] = NoProcessor] /\ isValidated' = FALSE
        /\ UNCHANGED <<top, au, updateConnections, mixedPlan, voicePlan, voiceBuilt>>
    BY <1>10 DEF RemoveProc, Accepted
  <2>2. /\ \A q \in Procs : q # p => procs'[q] = procs[q]
        /\ procs'[p].state = 0 /\ ~procs'[p].exists  BY <1>0, <2>1 DEF NoProcessor
  <2> QED  BY <1>0, <2>1, <2>2, LossStep
<1>11. ASSUME NEW p \in Procs, NEW signals \in {"voice", "mixed"}, SetProcSignalType(p, signals)
       PROVE  PlanParts'
  <2>1. \A q \in Procs : procs'[q].exists => procs'[q].id # 0
    BY <1>0, <1>11 DEF PlanParts, GraphOK, IdOf, SetProcSignalType, Processors
  <2>2. \A q \in Procs : procs'[q].state # 0 => procs'[q].exists
    BY <1>0, <1>11 DEF PlanParts, GraphOK, SetProcSignalType, Processors
  <2> QED  BY <2>1, <2>2, MarkingStep, <1>11 DEF SetProcSignalType, Accepted
<1>12. CASE SetOther  BY <1>12, QuietStep DEF SetOther, Accepted
<1>13. CASE ValidateRejects  BY <1>13, QuietStep DEF ValidateRejects
<1>14. CASE ValidateFindsError  BY <1>14, QuietStep DEF ValidateFindsError
<1>15. CASE Validate
  <2>1. ConnectionsOK(top, au, procs) /\ UNCHANGED <<top, au, procs>>  BY <1>15 DEF Validate, DataIsOK
  <2>2. CASE updateConnections  BY <1>0, <1>15, <2>1, <2>2, PrepareMixingStep DEF Validate
  <2>3. CASE ~updateConnections
    <3>1. UNCHANGED <<mixedPlan, voicePlan, voiceBuilt>>  BY <1>15, <2>3 DEF Validate
    <3>2. /\ AllConnectedExist' = AllConnectedExist /\ AllConnectedWhole' = AllConnectedWhole
          /\ PlansKept  BY <2>1, <2>3 DEF AllConnectedExist, AllConnectedWhole, PlansKept
    <3> QED  BY <3>1, <3>2, <2>1 DEF PlanParts, GraphOK, MixedPlanKept, VoicePlanKept
  <2> QED  BY <2>2, <2>3 DEF TypeOK
<1>16. CASE SetPlayerThreadCount
  BY <1>0, <1>16, PrepareMixingStep DEF SetPlayerThreadCount, Ready, PlanParts, GraphOK
<1>17. CASE ValidateNoMemory  BY <1>17, PrepareMixingFailsStep DEF ValidateNoMemory, DataIsOK
<1>18. CASE SetPlayerThreadCountFails
  BY <1>18, PrepareMixingFailsStep DEF SetPlayerThreadCountFails, Ready, PlanParts, GraphOK
<1>19. ASSUME NEW note \in BOOLEAN, Play(note) PROVE PlanParts'  BY <1>19, QuietStep DEF Play
<1>20. CASE UNCHANGED vars  BY <1>20, QuietStep DEF vars
<1> QED
  BY <1>1, <1>2, <1>3, <1>4, <1>5, <1>6, <1>7, <1>8, <1>9, <1>10, <1>11, <1>12, <1>13, <1>14, <1>15, <1>16, <1>17,
     <1>18, <1>19, <1>20 DEF Next, SetData

\* The inductive invariant behind the plans: which keys ask for new plans, and
\* why the others need not (Parse_manager.c, Player_prepare_mixing).
THEOREM PlansInvariant == Spec => []PlansInv
<1>1. Init => TypeOK /\ PlanParts  BY InitTypeOK, InitPlanParts
<1>2. TypeOK /\ PlanParts /\ [Next]_vars => (TypeOK /\ PlanParts)'  BY NextTypeOK, NextPlanParts
<1>3. TypeOK /\ PlanParts => PlansInv  BY DEF PlanParts, PlansInv
<1> QED  BY <1>1, <1>2, <1>3, PTL DEF Spec

LEMMA MixedCurrent == PlansInv => MixedPlanCurrent
<1> SUFFICES ASSUME PlansInv, Ready, StatesWhole, mixedPlan.given
             PROVE  mixedPlan = Ref(MixedPlan(top, au, procs))  BY DEF MixedPlanCurrent
<1>1. PlansKept /\ ConnectionsOK(top, au, procs)  BY DEF PlansInv, Ready, GraphOK, PlansKept
<1>2. Connected(au) \subseteq Procs  BY DEF PlansInv, TypeOK, Connected, AudioUnits, Refs
<1>3. top => au.exists /\ AllConnectedWhole  BY <1>1, <1>2 DEF ConnectionsOK, AllConnectedWhole, StatesWhole
<1>4. mixedPlan.set = MixedPlan(top, au, procs)
  <2>1. CASE ~top  BY <1>1, <2>1 DEF PlansInv, MixedPlanKept, MixedPlan
  <2>2. CASE top  BY <1>1, <1>3, <2>2 DEF PlansInv, MixedPlanKept, MixedPlan, AllConnectedWhole
  <2> QED  BY <2>1, <2>2
<1> QED  BY <1>4 DEF PlansInv, TypeOK, Refs, Ref

LEMMA VoiceCurrent == PlansInv /\ Ready /\ au.exists /\ voiceBuilt => voicePlan.set = VoicePlan(au, procs)
    BY DEF Ready, PlansInv, GraphOK, PlansKept, VoicePlanKept, ConnectionsOK, AllConnectedExist

\* A Handle that may be played and has all its device states can build its
\* plans, and can render them unless something is left over.
LEMMA SafePlayer == PlansInv => PlayerIsSafe
<1> SUFFICES ASSUME PlansInv, Ready, StatesWhole
             PROVE  /\ CanBuild
                    /\ NothingLeftOver => \A note \in BOOLEAN : CanRender(note)
  BY DEF PlayerIsSafe, NothingLeftOver
<1>1. Connected(au) \subseteq Procs  BY DEF PlansInv, TypeOK, Connected, AudioUnits, Refs
<1>2. CanBuild  BY <1>1 DEF CanBuild, StatesWhole
<1>3. ASSUME NothingLeftOver PROVE \A note \in BOOLEAN : CanRender(note)
  <2>1. mixedPlan.given /\ mixedPlan.set = MixedPlan(top, au, procs)
    BY <1>3, MixedCurrent DEF MixedPlanCurrent, NothingLeftOver, Ref
  <2>2. MixedPlanIntact(mixedPlan.set, procs)  BY <1>1, <2>1 DEF MixedPlan, MixedPlanIntact, StatesWhole
  <2>3. VoicePlanIntact(voicePlan.set, procs)
    <3>1. CASE ~voicePlan.given  BY <3>1 DEF PlansInv, TypeOK, Refs, VoicePlanIntact
    <3>2. CASE voicePlan.given
      <4>1. voicePlan.set = VoicePlan(au, procs)  BY <1>3, <3>2, VoiceCurrent DEF NothingLeftOver
      <4> QED  BY <1>1, <4>1 DEF VoicePlan, VoicePlanIntact, StatesWhole
    <3> QED  BY <3>1, <3>2
  <2>4. \A p \in NoteVoices : procs[p].state # 0  BY DEF NoteVoices, StatesWhole
  <2> QED  BY <2>1, <2>2, <2>3, <2>4 DEF CanRender
<1> QED  BY <1>2, <1>3

\* A Handle that may be played has a mixed signal plan only if it is the one
\* its present connections and devices ask for, whatever failed on the way
\* (Player_prepare_mixing), as long as no device state is missing.
THEOREM MixedPlanIsCurrent == Spec => []MixedPlanCurrent
<1> QED  BY PlansInvariant, MixedCurrent, PTL

\* An instrument whose voice signal plan was built by the last preparation
\* renders by the plan its present connections and processors ask for.
THEOREM VoicePlanIsCurrent == Spec => []VoicePlanCurrent
<1>1. PlansInv => VoicePlanCurrent  BY VoiceCurrent DEF VoicePlanCurrent, IsInstrument
<1> QED  BY <1>1, PlansInvariant, PTL

\* A Handle that may be played renders and mixes by its present data, however
\* few of the keys set since the plans were made asked for new ones, and what
\* it renders is there.
THEOREM PlansCurrent == Spec => []PlansAreCurrent
<1>1. PlansInv => PlayerIsSafe  BY SafePlayer
<1>2. MixedPlanCurrent /\ VoicePlanCurrent /\ PlayerIsSafe => PlansAreCurrent  BY DEF PlansAreCurrent
<1> QED  BY <1>1, <1>2, PlansInvariant, MixedPlanIsCurrent, VoicePlanIsCurrent, PTL

\* The player follows no pointer to a device state that is gone, and renders
\* with a plan (Device_states.c:201, Player.c:1693): a call stops the program
\* only if something was left over before it.
THEOREM CrashNeedsLeftovers == Spec => [][NothingLeftOver => crashed' = crashed]_vars
<1>1. PlansInv /\ [Next]_vars => [NothingLeftOver => crashed' = crashed]_vars
  <2> SUFFICES ASSUME PlansInv, Next, NothingLeftOver PROVE crashed' = crashed  BY DEF vars
  <2>1. CanBuild
    BY DEF NothingLeftOver, StatesWhole, CanBuild, PlansInv, TypeOK, Connected, AudioUnits, Refs
  <2>2. crashed \in BOOLEAN  BY DEF PlansInv, TypeOK
  <2>3. ASSUME PrepareMixing PROVE crashed' = crashed  BY <2>1, <2>2, <2>3 DEF PrepareMixing
  <2>4. CASE CallInvalid \/ CallNotValidated \/ ClearError
    BY <2>4 DEF CallInvalid, CallNotValidated, ClearError
  <2>5. CASE SetData
    BY <2>5 DEF SetData, SetDataBadArgument, SetDataIgnored, SetDataBadFormat, SetDataBadType, SetDataUnreadable,
       SetDataNoMemory, SetConnections, SetAuManifest, RemoveAuManifest, SetAuConnections, SetProcManifest,
       SetProcManifestFails, RemoveProc, SetProcSignalType, SetOther, Accepted
  <2>6. CASE ValidateRejects \/ ValidateFindsError  BY <2>6 DEF ValidateRejects, ValidateFindsError
  <2>7. CASE Validate \/ SetPlayerThreadCount  BY <2>3, <2>7 DEF Validate, SetPlayerThreadCount
  <2>8. CASE ValidateNoMemory \/ SetPlayerThreadCountFails
    BY <2>8 DEF ValidateNoMemory, SetPlayerThreadCountFails, PrepareMixingFails
  <2>9. ASSUME NEW note \in BOOLEAN, Play(note) PROVE crashed' = crashed
    BY <2>2, <2>9, SafePlayer DEF Play, PlayerIsSafe
  <2> QED  BY <2>4, <2>5, <2>6, <2>7, <2>8, <2>9 DEF Next
<1> QED  BY <1>1, PlansInvariant, PTL DEF Spec

=============================================================================
