----------------------------- MODULE MCStepGraph ------------------------------
(*****************************************************************************)
(* The executor of StepGraph over the real catalog. A run enables one step   *)
(* with all it depends on (a cone), or such a set and more, or less: the     *)
(* interleavings of steps that depend on each other are all there, and those *)
(* of steps that have nothing to do with each other are left out.            *)
(*****************************************************************************)
EXTENDS StepGraph, StepCatalog, Integers

CONSTANT MaxCone  \* the largest cone that is executed

leaves == {id \in stepIds : \A other \in stepIds : id \notin dependsOn[other]}

cones == {c \in {cone(id) : id \in leaves} : Cardinality(c) <= MaxCone}

\* The bindings and what is made of them, with the managed roles and without.
bindingSteps ==
  {"fetch-iam-bindings", "create-basic-roles",
   "create-binding-role-relationships"}

startStates ==
  cones
    \cup {bindingSteps,
          bindingSteps \cup {"fetch-iam-managed-roles"},
          cone("create-binding-any-resource-relationships")
            \cup {"fetch-cloud-storage-buckets"}}
    \* A step that is enabled though one it depends on is not.
    \cup {cone("fetch-bigtable-backups") \ {"fetch-kms-keys"},
          cone("fetch-app-engine-instances") \ {"fetch-app-engine-services"},
          cone("fetch-api-services") \ {"fetch-iam-managed-roles"}}
    \cup {{id} : id \in stepIds}

-----------------------------------------------------------------------------
(* The catalog's own property                                                *)

\* The look-ups that race with the step that adds what they look for: the
\* catalog does not order the two. One of them has no effect: a regional disk
\* has no image that build-compute-disk-image-relationships could look for.
KnownRaces ==
  { <<"fetch-bigtable-clusters", "fetch-kms-keys">>,
    <<"build-compute-disk-image-relationships", "fetch-compute-region-disks">>,
    <<"fetch-compute-backend-services",
      "fetch-compute-region-instance-groups">>,
    <<"fetch-compute-region_backend-services",
      "fetch-compute-instance-groups">>,
    <<"fetch-compute-region_backend-services", "fetch-compute-health-checks">>,
    <<"fetch-compute-global-forwarding-rules",
      "fetch-compute-target-ssl-proxies">>,
    <<"fetch-compute-ssl-policies",
      "fetch-compute-region-target-https-proxies">>,
    <<"fetch-resource-manager-skipped-projects",
      "fetch-resource-manager-project">>,
    <<"fetch-access-context-manager-service-perimeters",
      "fetch-resource-manager-project">> }

Races == UNION {{<<r, w>> : w \in Producers(r) \ Ordered(r)} : r \in Steps}

\* Whatever step a run enables, each of its look-ups is ordered, through
\* dependsOn or the 'last' graph, after every step that adds what it looks
\* for; but for the known races.
OnlyKnownRaces ==
  \A race \in Races : status[race[1]] # "disabled" => race \in KnownRaces
===============================================================================
