----------------------------- MODULE StepGraph -----------------------------
(***************************************************************************)
(* The execution of the integration's steps.  src/index.ts hands the list  *)
(* of steps to the JupiterOne SDK, with `dependencyGraphOrder: ['last']`:  *)
(* the steps of the default graph run first, then those of graph 'last'.   *)
(* Within a graph the SDK runs every step as soon as all it depends on has *)
(* finished, well or not; a disabled step never finishes, and what depends *)
(* on it never starts.  Steps talk only through the shared job state: a    *)
(* step adds entities and data of some kinds, and reads those of others.   *)
(*                                                                         *)
(* The module is the executor, for any catalog of steps.  The catalog of   *)
(* this integration is in StepCatalog.                                     *)
(***************************************************************************)
EXTENDS FiniteSets

CONSTANTS
  Steps,         \* the steps
  Last,         \* those whose dependencyGraphId is 'last'
  DependsOn,    \* what each names in dependsOn
  Ancestors,    \* the transitive closure of DependsOn
  Kinds,        \* the kinds of entities and data in the job state
  Reads,        \* those its handler looks up
  Writes,       \* those it adds
  AddsConcurrently,  \* the steps that add in callbacks run at once
  Needs,        \* data it raises a fatal IntegrationError without
  StartStates   \* the sets of steps the start states may enable

ASSUME CatalogAssumption ==
  /\ Last \subseteq Steps
  /\ DependsOn \in [Steps -> SUBSET Steps]
  /\ Ancestors \in [Steps -> SUBSET Steps]
  /\ Reads \in [Steps -> SUBSET Kinds]
  /\ Writes \in [Steps -> SUBSET Kinds]
  /\ Needs \in [Steps -> SUBSET Kinds]
  /\ \A s \in Steps : Needs[s] \subseteq Reads[s]
  /\ AddsConcurrently \subseteq Steps
  /\ StartStates \subseteq SUBSET Steps

\* Each graph is a dependency graph of its own.
ASSUME GraphAssumption ==
  \A s \in Steps : DependsOn[s] \subseteq IF s \in Last THEN Last ELSE Steps \ Last

ASSUME ClosureAssumption ==
  \A s \in Steps :
    Ancestors[s] = DependsOn[s] \cup UNION {Ancestors[d] : d \in DependsOn[s]}

\* No step depends on itself, directly or through others.
ASSUME AcyclicAssumption ==
  /\ IsFiniteSet(Steps)
  /\ \A s \in Steps : s \notin Ancestors[s]

VARIABLES
  graph,     \* the dependency graph being executed
  status,    \* of each step
  entities,  \* how much of what a step adds is in the job state
  aborted    \* a fatal error has ended the run

vars == <<graph, status, entities, aborted>>

Graph == {"default", "last", "done"}
Status == {"disabled", "pending", "running", "success", "failure"}

GraphOf(s) == IF s \in Last THEN "last" ELSE "default"

Finished(s) == status[s] \in {"success", "failure"}

Available(kind) == \E w \in Steps : kind \in Writes[w] /\ status[w] = "success"

-----------------------------------------------------------------------------

Init ==
  /\ graph = "default"
  /\ \E enabled \in StartStates :
       status = [s \in Steps |-> IF s \in enabled THEN "pending" ELSE "disabled"]
  /\ entities = [s \in Steps |-> "none"]
  /\ aborted = FALSE

\* A step waits until every step it depends on has finished.
DependenciesStarted(s) ==
  \A d \in DependsOn[s] : status[d] \notin {"disabled", "pending"}
DependenciesSucceeded(s) == \A d \in DependsOn[s] : status[d] = "success"
DependenciesFinished(s) == \A d \in DependsOn[s] : Finished(d)

Ready(s) ==
  /\ graph = GraphOf(s)
  /\ status[s] = "pending"
  /\ DependenciesFinished(s)

StartStep(s) ==
  /\ ~aborted
  /\ Ready(s)
  /\ status' = [status EXCEPT ![s] = "running"]
  /\ UNCHANGED <<graph, entities, aborted>>

\* A handler adds entities while it iterates over what an API lists.
AddEntity(s) ==
  /\ status[s] = "running"
  /\ Writes[s] # {}
  /\ entities[s] = "none"
  /\ entities' = [entities EXCEPT ![s] = "some"]
  /\ UNCHANGED <<graph, status, aborted>>

FinishStep(s) ==
  /\ status[s] = "running"
  /\ status' = [status EXCEPT ![s] = "success"]
  /\ entities' = [entities EXCEPT ![s] = "all"]
  /\ UNCHANGED <<graph, aborted>>

\* createWrappedStepExecutionHandler rethrows the error, converted or not:
\* the step fails, and what it added stays.
FailStep(s) ==
  /\ status[s] = "running"
  /\ status' = [status EXCEPT ![s] = "failure"]
  /\ UNCHANGED <<graph, entities, aborted>>

\* One callback of executeConcurrently has failed the step; those in flight go
\* on, and add what they are at. Nobody waits for them.
AddEntityLate(s) ==
  /\ s \in AddsConcurrently
  /\ status[s] = "failure"
  /\ entities[s] # "late"
  /\ entities' = [entities EXCEPT ![s] = "late"]
  /\ UNCHANGED <<graph, status, aborted>>

\* getIamManagedRoleData: a fatal error ends the whole run.
AbortRun(s) ==
  /\ status[s] = "running"
  /\ \E kind \in Needs[s] : ~Available(kind)
  /\ status' = [status EXCEPT ![s] = "failure"]
  /\ aborted' = TRUE
  /\ UNCHANGED <<graph, entities>>

\* A graph is finished when nothing in it runs or can start.
NothingPending == \A s \in Steps : status[s] \notin {"pending", "running"}
NothingLeft == \A s \in Steps : ~Ready(s) /\ status[s] # "running"

\* dependencyGraphOrder: ['last'].
GraphAfter(g) == IF g = "default" THEN "last" ELSE "done"

NextGraph ==
  /\ ~aborted
  /\ graph # "done"
  /\ NothingLeft
  /\ graph' = GraphAfter(graph)
  /\ UNCHANGED <<status, entities, aborted>>

StepActions(s) == \/ StartStep(s)
                  \/ AddEntity(s)
                  \/ FinishStep(s)
                  \/ FailStep(s)
                  \/ AddEntityLate(s)
                  \/ AbortRun(s)

Next == (\E s \in Steps : StepActions(s)) \/ NextGraph

(***************************************************************************)
(* Every handler that started settles: its API calls do (ApiClient's       *)
(* Settles), and it awaits nothing else.  The SDK starts what is ready.    *)
(* No handler has to add anything, late or not.  Steps only ever advance, so fairness   *)
(* of all of them together gives each its turn.                            *)
(***************************************************************************)
Progress == \/ \E s \in Steps : \/ StartStep(s)
                                \/ FinishStep(s)
                                \/ FailStep(s)
                                \/ AbortRun(s)
            \/ NextGraph

Spec == Init /\ [][Next]_vars /\ WF_vars(Progress)

-----------------------------------------------------------------------------
(* Properties                                                              *)

TypeOK ==
  /\ graph \in Graph
  /\ status \in [Steps -> Status]
  /\ entities \in [Steps -> {"none", "some", "late", "all"}]
  /\ aborted \in BOOLEAN

Producers(r) == {w \in Steps \ {r} : Writes[w] \cap Reads[r] # {}}

\* The producers of what r reads that the catalog puts before r.
Ordered(r) == {w \in Producers(r) : \/ w \in Ancestors[r]
                                    \/ r \in Last /\ w \notin Last}

\* Data a step cannot do without is always ordered before it.
ASSUME NeedsAssumption ==
  \A s \in Steps : \A w \in Producers(s) :
    Writes[w] \cap Needs[s] # {} => w \in Ordered(s)

CanStillWrite(w) ==
  \/ status[w] = "running"
  \/ /\ status[w] = "pending"
     /\ graph = "default" \/ graph = GraphOf(w)

\* While a step runs, no step that adds what it reads, and that the catalog
\* orders before it, is still running or can still start.
ReadsSettled ==
  \A r \in Steps : status[r] = "running" =>
    \A w \in Ordered(r) : ~CanStillWrite(w)

\* What a running step reads does not change under it, but by the callbacks
\* that a failed step has left in flight.
StableInputs ==
  [][\A r \in Steps : status[r] = "running" =>
       \A w \in Ordered(r) :
         \/ entities'[w] = entities[w]
         \/ w \in AddsConcurrently /\ status[w] = "failure"]_vars

\* A run that was not aborted leaves out exactly the enabled steps that
\* depend, through others, on a disabled one.
NothingSkipped ==
  graph = "done" =>
    \A s \in Steps : status[s] # "disabled" =>
      (status[s] = "pending"
         <=> \E a \in Ancestors[s] : status[a] = "disabled")

\* A run is aborted only for data that no step has provided, and that none
\* provides afterwards: never because the data came too late.
AbortHasCause ==
  aborted => \E s \in Steps : /\ status[s] = "failure"
                             /\ \E kind \in Needs[s] : ~Available(kind)

\* The run ends, whatever fails and whatever is disabled: no step is left
\* running, and no graph waits for a step that can never start.
Over == /\ aborted \/ graph = "done"
        /\ \A s \in Steps : status[s] # "running"

RunEnds == <>Over
=============================================================================
