------------------------- MODULE StepStartStates_proofs ------------------------
(*****************************************************************************)
(* Proofs about StepStartStates, for every set of configurations, of service *)
(* lists and of pages.                                                       *)
(*****************************************************************************)
EXTENDS StepStartStates, TLAPS

\* What has been computed comes from what was listed, and what was listed is
\* enabled; a project that is its own target has one list.
Computed ==
  /\ phase # "done" => startStates = {} /\ skipped = {}
  /\ phase = "done" => startStates = enabledSteps(config, listed)
  /\ skipped # {} =>
       /\ config.useEnablementsForStepStartStates
       /\ skipped = apiServices \ intersectedEnabledServices(config, listed)

\* The services are listed, and the states computed from them, only when the
\* configuration says so.
OnlyInCompute ==
  phase \in Project \cup {"compute"} => config.useEnablementsForStepStartStates

OneProject == config.projectId # "other" => services["target"] = services["main"]

IInv == TypeOK /\ Computed /\ OnlyInCompute /\ OneProject

\* Finding fewer services enables fewer steps.
LEMMA FewerServices ==
  ASSUME NEW c, NEW few, NEW many,
         few.main \subseteq many.main, few.target \subseteq many.target
  PROVE  enabledSteps(c, few) \subseteq enabledSteps(c, many)
<1>1. intersectedEnabledServices(c, few) \subseteq intersectedEnabledServices(c, many)
  BY DEF intersectedEnabledServices
<1>2. ASSUME NEW id \in stepIds, serviceEnabled(c, few, id)
      PROVE  serviceEnabled(c, many, id)
  BY <1>1, <1>2 DEF serviceEnabled
<1> QED
  BY <1>2 DEF enabledSteps

LEMMA EnabledAreSteps ==
  ASSUME NEW c, NEW found
  PROVE  enabledSteps(c, found) \subseteq stepIds
BY DEF enabledSteps

LEMMA InitOK == Init => IInv
<1> SUFFICES ASSUME Init PROVE IInv
  OBVIOUS
<1>1. TypeOK
  BY PagesAssumption DEF Init, TypeOK, Project
<1>2. Computed /\ OnlyInCompute /\ OneProject
  BY DEF Init, Computed, OnlyInCompute, OneProject, Project
<1> QED
  BY <1>1, <1>2 DEF IInv

LEMMA StepOK == IInv /\ [Next]_vars => IInv'
<1> SUFFICES ASSUME IInv, [Next]_vars PROVE IInv'
  OBVIOUS
<1> USE PagesAssumption DEF IInv
<1>1. CASE ValidateInvocation
  BY <1>1 DEF ValidateInvocation, TypeOK, Computed, OnlyInCompute, OneProject, Project
<1>2. CASE FailValidation
  BY <1>2 DEF FailValidation, TypeOK, Computed, OnlyInCompute, OneProject, Project
<1>3. CASE GetDefaultStepStartStates
  BY <1>3, EnabledAreSteps
     DEF GetDefaultStepStartStates, TypeOK, Computed, OnlyInCompute, OneProject, Project
<1>4. CASE StartListing
  BY <1>4 DEF StartListing, TypeOK, Computed, OnlyInCompute, OneProject, Project
<1>5. CASE ListPage
  BY <1>5 DEF ListPage, TypeOK, Computed, OnlyInCompute, OneProject, Project
<1>6. CASE EndListing
  BY <1>6 DEF EndListing, phaseAfter, TypeOK, Computed, OnlyInCompute, OneProject, Project
<1>7. CASE RefusePage
  BY <1>7 DEF RefusePage, phaseAfter, TypeOK, Computed, OnlyInCompute, OneProject, Project
<1>8. CASE FailListing
  BY <1>8 DEF FailListing, TypeOK, Computed, OnlyInCompute, OneProject, Project
<1>9. CASE GetStepStartStatesUsingServiceEnablements
  <2>1. /\ TypeOK' /\ OneProject' /\ OnlyInCompute'
        /\ phase' = "done" /\ startStates' = enabledSteps(config', listed')
    BY <1>9, EnabledAreSteps
       DEF GetStepStartStatesUsingServiceEnablements, TypeOK, Computed, OnlyInCompute, OneProject,
           Project
  <2>2. config'.useEnablementsForStepStartStates
        /\ skipped' = apiServices \ intersectedEnabledServices(config', listed')
    BY <1>9 DEF GetStepStartStatesUsingServiceEnablements, OnlyInCompute
  <2> QED
    BY <2>1, <2>2 DEF Computed
<1>10. CASE UNCHANGED vars
  BY <1>10 DEF vars, TypeOK, Computed, OnlyInCompute, OneProject
<1> QED
  BY <1>1, <1>2, <1>3, <1>4, <1>5, <1>6, <1>7, <1>8, <1>9, <1>10 DEF Next

THEOREM Invariance == Spec => []IInv
BY InitOK, StepOK, PTL DEF Spec

-----------------------------------------------------------------------------

\* Whatever the lists and however they were cut short, an enabled step has a
\* service it can use (enablement.ts 24-33).
THEOREM UsableServices == Spec => []OnlyUsableServices
<1>1. IInv => OnlyUsableServices
  <2> SUFFICES ASSUME IInv, ByEnablements, NEW id \in startStates \ unconditional
               PROVE  IF id \in basedOnServiceAccountProject
                      THEN allServices(id) \subseteq services["main"]
                      ELSE serviceNames[id] \cap services["main"] \cap services["target"] # {}
    BY DEF OnlyUsableServices
  <2>1. serviceEnabled(config, listed, id)
    BY DEF IInv, Computed, ByEnablements, enabledSteps
  <2>2. listed["main"] \subseteq services["main"] /\ listed["target"] \subseteq services["target"]
    BY DEF IInv, TypeOK, Project
  <2>3. CASE id \in basedOnServiceAccountProject
    BY <2>1, <2>2, <2>3 DEF serviceEnabled
  <2>4. CASE id \notin basedOnServiceAccountProject
    BY <2>1, <2>2, <2>4 DEF serviceEnabled, intersectedEnabledServices, IInv, OneProject
  <2> QED
    BY <2>3, <2>4
<1> QED
  BY <1>1, Invariance, PTL

\* A refused page never enables a step that the whole lists would not.
THEOREM SafeDegradation == Spec => []DegradesSafely
<1>1. IInv => DegradesSafely
  BY FewerServices DEF IInv, TypeOK, Project, Computed, DegradesSafely, ByEnablements
<1> QED
  BY <1>1, Invariance, PTL

\* Types, and nothing is listed that is not enabled.
THEOREM TypeCorrect == Spec => []TypeOK
BY Invariance, PTL DEF IInv

\* A step_skip warning is right of the steps of its service that follow the
\* services of both projects and nothing else.
THEOREM SkippedIsExplained == Spec => []SkippedExplained
<1>1. IInv => SkippedExplained
  <2> SUFFICES ASSUME IInv, NEW s \in skipped,
                      NEW id \in apiServiceToStepIdsMap[s] \cap startStates,
                      id \notin unconditional \cup basedOnServiceAccountProject,
                      additionalServiceNames(id) = {}
               PROVE  FALSE
    BY DEF SkippedExplained, IInv, TypeOK
  <2> USE DEF IInv
  <2>1. /\ s \in apiServices /\ s \notin intersectedEnabledServices(config, listed)
        /\ config.useEnablementsForStepStartStates
    BY DEF Computed
  <2>2. id \in stepIds /\ serviceEnabled(config, listed, id)
    BY <2>1 DEF Computed, enabledSteps
  <2>3. PICK t \in serviceNames[id] : t \in intersectedEnabledServices(config, listed)
    BY <2>2 DEF serviceEnabled
  <2>4. t \in apiServices /\ id \in apiServiceToStepIdsMap[t]
    BY <2>2, <2>3 DEF serviceNames
  <2>5. s = t
    BY <2>1, <2>4, OneServiceAssumption
  <2> QED
    BY <2>1, <2>3, <2>5
<1> QED
  BY <1>1, Invariance, PTL
===============================================================================
