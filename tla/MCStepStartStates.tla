--------------------------- MODULE MCStepStartStates ---------------------------
(*****************************************************************************)
(* Every configuration, and every pair of projects each of which lacks at    *)
(* most one service, listed in two pages either of which may be refused.     *)
(*****************************************************************************)
EXTENDS StepStartStates

AllConfigs == Config

ListsMissingOne ==
  {ServiceUsageName} \cup {ServiceUsageName \ {s} : s \in ServiceUsageName}

FirstPage == {"CLOUD_ASSET", "COMPUTE", "IAM", "KMS", "STORAGE", "APP_ENGINE"}

TwoPages == <<FirstPage, ServiceUsageName \ FirstPage>>

\* The steps that may wait for a step the run has disabled.
KnownStranded ==
  \* Outside an organization's master instance, its steps are disabled.
  { "fetch-resource-manager-skipped-projects",
    "fetch-access-context-manager-service-perimeters",
    \* They wait for steps of IAM,
    "fetch-api-services", "fetch-iam-policy-audit-config",
    "fetch-api-gateway-api-configs", "fetch-app-engine-versions",
    "fetch-app-engine-instances",
    \* of KMS,
    "fetch-bigtable-backups", "fetch-spanner-instance-databases",
    \* of compute,
    "fetch-container-clusters", "fetch-dns-policies",
    \* of billing, and of monitoring.
    "fetch-billing-budgets", "fetch-logging-metrics" }

\* A step that adds entities is not held back by a disabled step, the fault
\* the changelog's "Decoupled" entries fix one by one; but for those known.
OnlyKnownStranded == phase = "done" => stranded \subseteq KnownStranded
===============================================================================
