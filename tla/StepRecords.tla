----------------------------- MODULE StepRecords ------------------------------
(*****************************************************************************)
(* An integration step as the catalog modules write it: its id, its          *)
(* dependsOn list, its dependencyGraphId, and the footprint its handler      *)
(* leaves in the job state. A kind is a type of entity, or a key of the job  *)
(* state's data. Relationships are left out: no handler reads one.           *)
(*****************************************************************************)

\* What a handler looks up in the job state, and what it adds to it.
Handler(reads, writes) == [reads |-> reads, writes |-> writes]

StepOf(id, dependsOn, handler, graphId) ==
  [id |-> id, dependsOn |-> dependsOn, dependencyGraphId |-> graphId,
   reads |-> handler.reads, writes |-> handler.writes]

Step(id, dependsOn, handler) == StepOf(id, dependsOn, handler, "default")

\* A step with dependencyGraphId: 'last'.
LastStep(id, dependsOn, handler) == StepOf(id, dependsOn, handler, "last")
===============================================================================
