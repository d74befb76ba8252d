--------------------------- MODULE StepGraph_proofs ---------------------------
(***************************************************************************)
(* What the executor guarantees for every catalog of steps and every set   *)
(* of start states: the look-ups a catalog orders are never disturbed.     *)
(***************************************************************************)
EXTENDS StepGraph, FiniteSetTheorems, TLAPS

Started(s) == status[s] \in {"running", "success", "failure"}

\* A step that has started has all its ancestors behind it.
AncestorsFinished ==
  \A s \in Steps : Started(s) => \A a \in Ancestors[s] : Finished(a)

\* The steps of graph 'last' have the default graph before them.
LastIsLast ==
  /\ \A s \in Last : Started(s) => graph # "default"
  /\ graph # "default" => \A s \in Steps \ Last : status[s] # "running"

\* What is pending in a graph that is over waits for what never finishes.
WaitingForever ==
  /\ graph # "default" => \A s \in Steps \ Last :
       status[s] = "pending" => ~DependenciesFinished(s)
  /\ graph = "done" => \A s \in Steps :
       status[s] # "running" /\ (status[s] = "pending" => ~DependenciesFinished(s))

IInv == TypeOK /\ AncestorsFinished /\ LastIsLast /\ WaitingForever /\ AbortHasCause

-----------------------------------------------------------------------------

LEMMA TypeStep ==
  ASSUME TypeOK, [Next]_vars
  PROVE  TypeOK'
<1> USE DEF TypeOK, Status, Graph
<1>1. CASE UNCHANGED vars
  BY <1>1 DEF vars
<1>2. CASE NextGraph
  BY <1>2 DEF NextGraph, GraphAfter
<1>3. ASSUME NEW s \in Steps, StepActions(s)
      PROVE  TypeOK'
  BY <1>3 DEF StepActions, StartStep, AddEntity, FinishStep, FailStep, AddEntityLate, AbortRun
<1> QED
  BY <1>1, <1>2, <1>3 DEF Next

\* A step that has finished stays as it finished.
LEMMA FinishedIsFinal ==
  ASSUME TypeOK, [Next]_vars, NEW s \in Steps, Finished(s)
  PROVE  status'[s] = status[s]
<1> USE DEF TypeOK, Status, Finished
<1>1. CASE UNCHANGED vars
  BY <1>1 DEF vars
<1>2. CASE NextGraph
  BY <1>2 DEF NextGraph
<1>3. ASSUME NEW t \in Steps, StepActions(t)
      PROVE  status'[s] = status[s]
  BY <1>3 DEF StepActions, StartStep, Ready, AddEntity, FinishStep, FailStep, AddEntityLate,
              AbortRun
<1> QED
  BY <1>1, <1>2, <1>3 DEF Next

\* A step starts only by StartStep.
LEMMA OnlyStartStepStarts ==
  ASSUME TypeOK, [Next]_vars, NEW s \in Steps, Started(s)', ~Started(s)
  PROVE  StartStep(s)
<1> USE DEF TypeOK, Status, Started
<1>1. CASE UNCHANGED vars
  BY <1>1 DEF vars
<1>2. CASE NextGraph
  BY <1>2 DEF NextGraph
<1>3. ASSUME NEW t \in Steps, StepActions(t)
      PROVE  StartStep(s)
  BY <1>3 DEF StepActions, StartStep, Ready, AddEntity, FinishStep, FailStep, AddEntityLate,
              AbortRun
<1> QED
  BY <1>1, <1>2, <1>3 DEF Next

LEMMA AncestorsStep ==
  ASSUME TypeOK, AncestorsFinished, [Next]_vars
  PROVE  AncestorsFinished'
<1> SUFFICES ASSUME NEW s \in Steps, Started(s)', NEW a \in Ancestors[s]
             PROVE  Finished(a)'
  BY DEF AncestorsFinished
<1>a. a \in Steps
  BY CatalogAssumption
<1>1. Finished(a)
  <2>1. CASE Started(s)
    BY <2>1 DEF AncestorsFinished
  <2>2. CASE ~Started(s)
    <3>1. StartStep(s)
      BY <2>2, OnlyStartStepStarts
    <3>2. \A d \in DependsOn[s] : Finished(d)
      BY <3>1 DEF StartStep, Ready, DependenciesFinished
    <3>3. \A d \in DependsOn[s] : d \in Steps /\ Started(d)
      BY <3>2, CatalogAssumption DEF Finished, Started
    <3>4. CASE a \in DependsOn[s]
      BY <3>2, <3>4
    <3>5. ASSUME NEW d \in DependsOn[s], a \in Ancestors[d]
          PROVE  Finished(a)
      BY <3>3, <3>5 DEF AncestorsFinished
    <3> QED
      BY <3>4, <3>5, ClosureAssumption
  <2> QED
    BY <2>1, <2>2
<1> QED
  BY <1>1, <1>a, FinishedIsFinal DEF Finished

LEMMA LastIsLastStep ==
  ASSUME TypeOK, LastIsLast, [Next]_vars
  PROVE  LastIsLast'
<1>1. graph # "default" => graph' # "default"
  BY DEF Next, NextGraph, GraphAfter, StepActions, StartStep, AddEntity,
         FinishStep, FailStep, AddEntityLate, AbortRun, vars
<1>2. ASSUME NEW s \in Last, Started(s)'
      PROVE  graph' # "default"
  <2>a. s \in Steps
    BY CatalogAssumption
  <2>1. CASE Started(s)
    BY <1>1, <2>1 DEF LastIsLast
  <2>2. CASE ~Started(s)
    <3>1. StartStep(s)
      BY <1>2, <2>a, <2>2, OnlyStartStepStarts
    <3> QED
      BY <3>1 DEF StartStep, Ready, GraphOf
  <2> QED
    BY <2>1, <2>2
<1>3. ASSUME graph' # "default", NEW s \in Steps \ Last
      PROVE  status'[s] # "running"
  <2>1. CASE graph = "default"
    <3>1. NextGraph
      BY <1>3, <2>1 DEF Next, StepActions, StartStep, AddEntity, FinishStep,
                        FailStep, AddEntityLate, AbortRun, vars
    <3> QED
      BY <3>1 DEF NextGraph, NothingLeft
  <2>2. CASE graph # "default"
    <3>1. status[s] # "running"
      BY <2>2 DEF LastIsLast
    <3>2. ~StartStep(s)
      BY <2>2 DEF StartStep, Ready, GraphOf
    <3>3. status'[s] = "running" => Started(s)'
      BY DEF Started
    <3>4. Started(s) => Finished(s)
      BY <3>1 DEF Started, Finished
    <3> QED
      BY <3>1, <3>2, <3>3, <3>4, OnlyStartStepStarts, FinishedIsFinal
  <2> QED
    BY <2>1, <2>2
<1> QED
  BY <1>2, <1>3 DEF LastIsLast

LEMMA WaitingStep ==
  ASSUME TypeOK, LastIsLast, WaitingForever, [Next]_vars
  PROVE  WaitingForever'
<1> USE DEF TypeOK, Graph
<1>1. ASSUME graph' # "default", NEW s \in Steps \ Last, status'[s] = "pending"
      PROVE  ~DependenciesFinished(s)'
  <2>a. DependsOn[s] \subseteq Steps \ Last
    BY GraphAssumption
  <2>1. CASE graph # "default"
    <3>1. \A t \in Steps \ Last : status'[t] = status[t]
      <4> SUFFICES ASSUME NEW t \in Steps \ Last
                   PROVE  status'[t] = status[t]
        OBVIOUS
      <4>1. status[t] # "running"
        BY <2>1 DEF LastIsLast
      <4> QED
        BY <2>1, <4>1 DEF Next, vars, StepActions, StartStep, Ready, GraphOf, AddEntity,
           FinishStep, FailStep, AddEntityLate, AbortRun, NextGraph
    <3>2. status[s] = "pending" /\ ~DependenciesFinished(s)
      BY <1>1, <2>1, <3>1 DEF WaitingForever
    <3> QED
      BY <2>a, <3>1, <3>2 DEF DependenciesFinished, Finished
  <2>2. CASE graph = "default"
    <3>1. NextGraph
      BY <1>1, <2>2 DEF Next, vars, StepActions, StartStep, AddEntity, FinishStep, FailStep,
         AddEntityLate, AbortRun
    <3> QED
      BY <1>1, <2>2, <3>1 DEF NextGraph, NothingLeft, Ready, GraphOf, DependenciesFinished,
         Finished
  <2> QED
    BY <2>1, <2>2
<1>2. ASSUME graph' = "done", NEW s \in Steps
      PROVE  status'[s] # "running" /\ (status'[s] = "pending" => ~DependenciesFinished(s)')
  <2>1. CASE graph = "done"
    <3>1. \A t \in Steps : status[t] # "running" /\ graph # GraphOf(t)
      BY <2>1 DEF WaitingForever, GraphOf
    <3>2. status' = status
      BY <2>1, <3>1 DEF Next, vars, StepActions, StartStep, Ready, AddEntity,
         FinishStep, FailStep, AddEntityLate, AbortRun, NextGraph
    <3> QED
      BY <2>1, <3>2 DEF WaitingForever, DependenciesFinished, Finished
  <2>2. CASE graph # "done"
    <3>1. NextGraph
      BY <1>2, <2>2 DEF Next, vars, StepActions, StartStep, AddEntity, FinishStep, FailStep,
         AddEntityLate, AbortRun
    <3>2. status' = status /\ status[s] # "running" /\ ~Ready(s)
      BY <3>1 DEF NextGraph, NothingLeft
    <3>3. s \in Last => graph = GraphOf(s)
      BY <1>2, <2>2, <3>1 DEF NextGraph, GraphAfter, GraphOf
    <3>4. CASE s \in Last
      BY <3>2, <3>3, <3>4 DEF Ready, DependenciesFinished, Finished
    <3>5. CASE s \notin Last
      BY <1>1, <1>2, <3>2, <3>5
    <3> QED
      BY <3>4, <3>5
  <2> QED
    BY <2>1, <2>2
<1> QED
  BY <1>1, <1>2 DEF WaitingForever

\* What orders a producer before a step has it settled once the step starts.
LEMMA OrderedIsSettled ==
  ASSUME TypeOK, AncestorsFinished, LastIsLast,
         NEW r \in Steps, Started(r), NEW w \in Ordered(r)
  PROVE  ~CanStillWrite(w)
<1>1. w \in Steps
  BY DEF Ordered, Producers
<1>2. CASE w \in Ancestors[r]
  BY <1>2 DEF AncestorsFinished, Finished, CanStillWrite
<1>3. CASE r \in Last /\ w \notin Last
  <2>1. graph # "default"
    BY <1>3 DEF LastIsLast
  <2>2. status[w] # "running"
    BY <1>1, <1>3, <2>1 DEF LastIsLast
  <2> QED
    BY <1>3, <2>1, <2>2 DEF CanStillWrite, GraphOf, TypeOK, Graph
<1> QED
  BY <1>2, <1>3 DEF Ordered

\* A step that cannot write any more never succeeds later.
LEMMA SettledStaysUnsuccessful ==
  ASSUME TypeOK, [Next]_vars, NEW w \in Steps,
         ~CanStillWrite(w), status[w] # "success"
  PROVE  status'[w] # "success"
<1> USE DEF TypeOK, Status, CanStillWrite
<1>1. CASE UNCHANGED vars
  BY <1>1 DEF vars
<1>2. CASE NextGraph
  BY <1>2 DEF NextGraph
<1>3. ASSUME NEW t \in Steps, StepActions(t)
      PROVE  status'[w] # "success"
  BY <1>3 DEF StepActions, StartStep, AddEntity, FinishStep, FailStep, AddEntityLate, AbortRun
<1> QED
  BY <1>1, <1>2, <1>3 DEF Next

LEMMA StartedStays ==
  ASSUME TypeOK, [Next]_vars, NEW s \in Steps, status[s] = "failure"
  PROVE  status'[s] = "failure"
BY FinishedIsFinal DEF Finished

\* Data a failed step lacked stays unavailable.
LEMMA UnavailableStays ==
  ASSUME TypeOK, AncestorsFinished, LastIsLast, [Next]_vars,
         NEW s \in Steps, status[s] \in {"running", "failure"},
         status'[s] = "failure",
         NEW kind \in Needs[s], ~Available(kind)
  PROVE  ~Available(kind)'
<1> SUFFICES ASSUME NEW w \in Steps, kind \in Writes[w]
             PROVE  status'[w] # "success"
  BY DEF Available
<1>1. CASE w = s
  BY <1>1
<1>2. CASE w # s
  <2>1. kind \in Reads[s]
    BY CatalogAssumption
  <2>2. w \in Producers(s)
    BY <1>2, <2>1 DEF Producers
  <2>3. Writes[w] \cap Needs[s] # {}
    OBVIOUS
  <2>4. w \in Ordered(s)
    BY <2>2, <2>3, NeedsAssumption
  <2>5. ~CanStillWrite(w)
    BY <2>4, OrderedIsSettled DEF Started
  <2>6. status[w] # "success"
    BY DEF Available
  <2> QED
    BY <2>5, <2>6, SettledStaysUnsuccessful
<1> QED
  BY <1>1, <1>2

LEMMA AbortStep ==
  ASSUME IInv, [Next]_vars
  PROVE  AbortHasCause'
<1> USE DEF IInv
<1> SUFFICES ASSUME aborted'
             PROVE  \E s \in Steps : /\ status'[s] = "failure"
                                     /\ \E kind \in Needs[s] : ~Available(kind)'
  BY DEF AbortHasCause
<1>1. CASE aborted
  <2>1. PICK s \in Steps : /\ status[s] = "failure"
                           /\ \E kind \in Needs[s] : ~Available(kind)
    BY <1>1 DEF AbortHasCause
  <2>2. PICK kind \in Needs[s] : ~Available(kind)
    BY <2>1
  <2>3. status'[s] = "failure"
    BY <2>1, StartedStays
  <2>4. ~Available(kind)'
    BY <2>1, <2>2, <2>3, UnavailableStays
  <2> QED
    BY <2>2, <2>3, <2>4
<1>2. CASE ~aborted
  <2>1. PICK s \in Steps : AbortRun(s)
    BY <1>2 DEF Next, StepActions, StartStep, AddEntity, FinishStep, FailStep, AddEntityLate,
                NextGraph, vars
  <2>2. PICK kind \in Needs[s] : ~Available(kind)
    BY <2>1 DEF AbortRun
  <2>3. status[s] = "running" /\ status'[s] = "failure"
    BY <2>1 DEF AbortRun, TypeOK
  <2>4. ~Available(kind)'
    BY <2>2, <2>3, UnavailableStays
  <2> QED
    BY <2>2, <2>3, <2>4
<1> QED
  BY <1>1, <1>2

-----------------------------------------------------------------------------
(* The theorems                                                            *)

LEMMA InitIInv == Init => IInv
<1> SUFFICES ASSUME Init PROVE IInv
  OBVIOUS
<1> USE DEF Init
<1>1. TypeOK
  BY CatalogAssumption DEF TypeOK, Graph, Status
<1>2. \A s \in Steps : ~Started(s)
  BY DEF Started
<1>3. Last \subseteq Steps
  BY CatalogAssumption
<1> QED
  BY <1>1, <1>2, <1>3
     DEF IInv, AncestorsFinished, LastIsLast, WaitingForever, AbortHasCause, Started

LEMMA NextIInv == IInv /\ [Next]_vars => IInv'
BY TypeStep, AncestorsStep, LastIsLastStep, WaitingStep, AbortStep DEF IInv

THEOREM Invariance == Spec => []IInv
BY InitIInv, NextIInv, PTL DEF Spec

\* The executor's state keeps its type.
THEOREM TypeCorrect == Spec => []TypeOK
BY Invariance, PTL DEF IInv

\* Whatever the catalog, the start states and the failures: while a step
\* runs, no step that adds what it reads, and that dependsOn or the graph
\* 'last' puts before it, is running or can still start.
THEOREM LookupsSettled == Spec => []ReadsSettled
<1>1. IInv => ReadsSettled
  BY OrderedIsSettled DEF IInv, ReadsSettled, Started
<1> QED
  BY <1>1, Invariance, PTL

\* Nor does what such a step has added change while the step reads it, but by
\* what it has left in flight when it failed.
THEOREM InputsStable == Spec => StableInputs
<1>1. ASSUME IInv, [Next]_vars
      PROVE  [\A r \in Steps : status[r] = "running" =>
                \A w \in Ordered(r) :
                  \/ entities'[w] = entities[w]
                  \/ w \in AddsConcurrently /\ status[w] = "failure"]_vars
  <2> SUFFICES ASSUME Next, NEW r \in Steps, status[r] = "running",
                      NEW w \in Ordered(r),
                      ~(w \in AddsConcurrently /\ status[w] = "failure")
               PROVE  entities'[w] = entities[w]
    BY <1>1 DEF IInv
  <2>1. w \in Steps /\ status[w] # "running"
    BY <1>1, OrderedIsSettled
       DEF IInv, Started, CanStillWrite, Ordered, Producers
  <2>2. CASE NextGraph
    BY <2>2 DEF NextGraph
  <2>3. ASSUME NEW t \in Steps, StepActions(t)
        PROVE  entities'[w] = entities[w]
    BY <1>1, <2>1, <2>3
       DEF IInv, TypeOK, StepActions, StartStep, AddEntity, FinishStep,
           FailStep, AddEntityLate, AbortRun
  <2> QED
    BY <2>2, <2>3 DEF Next
<1> QED
  BY <1>1, Invariance, PTL DEF Spec, StableInputs

\* The fatal error of getIamManagedRoleData ends a run only for data that no
\* step of the run provides, before or after.
THEOREM AbortedForCause == Spec => []AbortHasCause
BY Invariance, PTL DEF IInv

-----------------------------------------------------------------------------
(* What a run leaves out                                                   *)

\* Of any steps, one depends on none of the others: of those with the fewest
\* ancestors, each has.
LEMMA FirstOfAny ==
  ASSUME NEW T \in SUBSET Steps, T # {}
  PROVE  \E s \in T : DependsOn[s] \cap T = {}
<1> DEFINE F == {Ancestors[s] : s \in T}
<1>1. F \subseteq FiniteSubsetsOf(Steps) /\ F # {}
  <2>1. FiniteSubsetsOf(Steps) = SUBSET Steps
    BY AcyclicAssumption, FS_FiniteSubsetsOfFinite
  <2> QED
    BY <2>1, CatalogAssumption
<1>2. IsWellFoundedOn(StrictSubsetOrdering(Steps), FiniteSubsetsOf(Steps))
  BY FS_StrictSubsetOrderingWellFounded
<1>3. PICK A \in F : \A B \in F : <<B, A>> \notin StrictSubsetOrdering(Steps)
  <2> HIDE DEF F
  <2> QED
    BY <1>1, <1>2, WFMin
<1>4. PICK s \in T : A = Ancestors[s]
  OBVIOUS
<1>5. ASSUME NEW d \in DependsOn[s] \cap T
      PROVE  FALSE
  <2>1. Ancestors[d] \subseteq Ancestors[s] /\ d \in Ancestors[s] /\ d \notin Ancestors[d]
    BY ClosureAssumption, AcyclicAssumption
  <2>2. Ancestors[s] \subseteq Steps /\ Ancestors[d] \in F
    BY CatalogAssumption
  <2>3. <<Ancestors[d], Ancestors[s]>> \in StrictSubsetOrdering(Steps)
    BY <2>1, <2>2 DEF StrictSubsetOrdering
  <2> QED
    BY <1>3, <1>4, <2>2, <2>3
<1> QED
  BY <1>5

\* A run that is not aborted leaves out exactly the enabled steps that depend,
\* through others, on a disabled one: no step is forgotten, and none starts
\* that should not, whatever the graph's shape and whichever steps fail.
THEOREM NothingIsSkipped == Spec => []NothingSkipped
<1>1. IInv => NothingSkipped
  <2> SUFFICES ASSUME IInv, graph = "done", NEW s \in Steps, status[s] # "disabled"
               PROVE  status[s] = "pending" <=> \E a \in Ancestors[s] : status[a] = "disabled"
    BY DEF NothingSkipped
  <2> USE DEF IInv
  <2>1. ASSUME NEW a \in Ancestors[s], status[a] = "disabled"
        PROVE  status[s] = "pending"
    <3>1. ~Started(s)
      BY <2>1 DEF AncestorsFinished, Finished
    <3> QED
      BY <3>1 DEF Started, TypeOK, Status
  <2>2. ASSUME status[s] = "pending", \A a \in Ancestors[s] : status[a] # "disabled"
        PROVE  FALSE
    <3> DEFINE T == {t \in Steps : /\ status[t] = "pending"
                                   /\ \A a \in Ancestors[t] : status[a] # "disabled"}
    <3>1. PICK t \in T : DependsOn[t] \cap T = {}
      BY <2>2, FirstOfAny
    <3>2. PICK d \in DependsOn[t] : ~Finished(d)
      BY <3>1 DEF WaitingForever, DependenciesFinished
    <3>3. d \in Steps /\ d \in Ancestors[t] /\ Ancestors[d] \subseteq Ancestors[t]
      BY CatalogAssumption, ClosureAssumption
    <3>4. status[d] = "pending"
      BY <3>1, <3>2, <3>3 DEF Finished, WaitingForever, TypeOK, Status
    <3>5. d \in T
      BY <3>1, <3>3, <3>4
    <3> QED
      BY <3>1, <3>5
  <2> QED
    BY <2>1, <2>2
<1> QED
  BY <1>1, Invariance, PTL
===============================================================================
