---------------------------- MODULE StepStartStates ----------------------------
(*****************************************************************************)
(* Which steps of the catalog a run enables: src/getStepStartStates.ts and   *)
(* src/steps/enablement.ts. It depends on the instance's configuration and,  *)
(* with useEnablementsForStepStartStates, on the services enabled in the     *)
(* "main" project, where the service account lives, and in the "target"      *)
(* project, which is ingested. Both are listed page by page through the API  *)
(* client, before any step runs, and after src/config.ts has validated that  *)
(* the services of the target can be listed.                                 *)
(*****************************************************************************)
EXTENDS StepCatalog, Naturals

CONSTANTS
  Configs,       \* the instance configurations
  ServiceLists,  \* the sets of services that may be enabled in a project
  ServicePages,  \* the services split into the pages services.list returns
  NumPages       \* bound: how many pages

Config ==
  [configureOrganizationProjects : BOOLEAN,
   organizationId : BOOLEAN,               \* it is given
   projectId : {"none", "main", "other"},  \* the target: not given, or which
   useEnablementsForStepStartStates : BOOLEAN]

ASSUME ConfigsAssumption == Configs \subseteq Config

ASSUME PagesAssumption ==
  /\ NumPages \in Nat \ {0}
  /\ \A list \in ServiceLists :
       list \subseteq UNION {ServicePages[p] : p \in 1..NumPages}

VARIABLES
  config,       \* of the instance
  services,     \* those enabled in each project
  permitted,    \* the projects whose services the service account may list
  phase,        \* where getStepStartStates is
  page,         \* the page to be listed
  listed,       \* the services listed so far in each project
  startStates,  \* the steps that are not disabled
  skipped       \* the services the step_skip warnings name

vars == <<config, services, permitted, phase, page, listed, startStates, skipped>>

Project == {"main", "target"}

-----------------------------------------------------------------------------
(* What a start state depends on                                             *)

ids(catalog) == {step.id : step \in catalog}

isMasterOrganizationInstance(c) ==
  c.configureOrganizationProjects /\ c.organizationId

isSingleProjectInstance(c) ==
  ~c.configureOrganizationProjects /\ ~c.organizationId

getOrganizationSteps ==
  {"fetch-resource-manager-organization",
   "fetch-resource-manager-folders",
   "fetch-resource-manager-org-project-relationships"}

createOrgStepStartStateWrong ==                                      \* mutant
  ids(accessPoliciesSteps) \cup {"fetch-app-engine-application"}
createOrgStepStartState ==
  ids(accessPoliciesSteps) \cup {"build-app-engine-application-bucket-relationships"}

\* What is ingested once for all the instances of an organization.
billing ==
  ids(cloudBillingSteps) \cup
    {"fetch-billing-budgets", "build-account-budget", "build-project-budget"}

\* The part that only depends on the configuration; without
\* useEnablementsForStepStartStates there is no other.
configured(c, id) ==
  /\ id \in getOrganizationSteps => isMasterOrganizationInstance(c)
  /\ id \in createOrgStepStartState => ~isSingleProjectInstance(c)
  /\ id \in billing
       => isSingleProjectInstance(c) \/ isMasterOrganizationInstance(c)
  /\ id = "build-additional-project-budget" => isMasterOrganizationInstance(c)
  /\ id = "fetch-iam-policy-audit-config" => ~c.configureOrganizationProjects

apiServiceToStepIdsMap ==
  [ACCESS_CONTEXT_MANAGER |-> ids(accessPoliciesSteps),
   API_GATEWAY |-> ids(apiGatewaySteps),
   APP_ENGINE |-> ids(appEngineSteps),
   BIG_QUERY |-> ids(bigQuerySteps),
   BIG_TABLE |-> ids(bigTableSteps),
   BILLING_BUDGET |-> ids(billingBudgetsSteps),
   BINARY_AUTHORIZATION |-> ids(binaryAuthorizationSteps),
   CLOUD_ASSET |-> ids(cloudAssetSteps),
   CLOUD_BILLING |-> ids(cloudBillingSteps),
   CLOUD_BUILD |-> ids(cloudBuildSteps),
   CLOUD_FUNCTIONS |-> ids(functionsSteps),
   CLOUD_RUN |-> ids(cloudRunSteps),
   CLOUD_SOURCE_REPOSITORIES |-> ids(cloudSourceRepositoriesSteps),
   COMPUTE |-> ids(computeSteps),
   CONTAINER |-> ids(containerSteps),
   DATAPROC_CLUSTERS |-> ids(dataprocSteps),
   DNS |-> ids(dnsManagedZonesSteps),
   IAM |-> ids(iamSteps),
   KMS |-> ids(kmsSteps),
   LOGGING |-> ids(loggingSteps),
   MEMCACHE |-> ids(memcacheSteps),
   MONITORING |-> ids(monitoringSteps),
   PRIVATE_CA |-> ids(privateCaSteps),
   PUB_SUB |-> ids(pubSubSteps),
   REDIS |-> ids(redisSteps),
   RESOURCE_MANAGER |-> ids(resourceManagerSteps),
   SECRET_MANAGER |-> ids(secretManagerSteps),
   SERVICE_USAGE |-> ids(serviceUsageSteps),
   SPANNER |-> ids(spannerSteps),
   SQL_ADMIN |-> ids(sqlAdminSteps),
   STORAGE |-> ids(storageSteps),
   WEB_SECURITY_SCANNER |-> ids(webSecurityScannerSteps)]

apiServices == DOMAIN apiServiceToStepIdsMap

\* A step is of one service.
ASSUME OneServiceAssumption ==
  \A s, t \in apiServices : s # t =>
    apiServiceToStepIdsMap[s] \cap apiServiceToStepIdsMap[t] = {}

\* { disabled: false }, or a matter of the configuration alone.
unconditional ==
  getOrganizationSteps \cup
    {"fetch-resource-manager-project",
     "fetch-resource-manager-skipped-projects",
     "fetch-api-services"}

\* createStartStatesBasedOnServiceAccountProject: the services that must all
\* be enabled in the main project.
basedOnServiceAccountProject ==
  ids(cloudAssetSteps) \cup (ids(iamSteps) \ {"fetch-iam-service-accounts"})

allServices(id) ==
  IF id \in ids(cloudAssetSteps) THEN {"CLOUD_ASSET", "IAM"} ELSE {"IAM"}

\* createStepStartState: the services one of which must be enabled in both.
additionalServiceNames(id) ==
  CASE id = "fetch-cloud-storage-buckets" -> {"STORAGE_COMPONENT", "STORAGE_API"}
    [] id = "build-sql-admin-instance-kms-key-relationships" -> {"KMS"}
    [] id = "build-cloud-build-uses-storage-bucket-relationships" -> {"STORAGE"}
    [] id = "build-cloud-build-uses-source-repo-relationships" ->
         {"CLOUD_SOURCE_REPOSITORIES"}
    [] OTHER -> {}

serviceNames ==
  [id \in stepIds |->
     {s \in apiServices : id \in apiServiceToStepIdsMap[s]}
       \cup additionalServiceNames(id)]

ServiceUsageName == apiServices \cup UNION {additionalServiceNames(id) : id \in stepIds}

-----------------------------------------------------------------------------
(* The start states that follow from the services found in each project      *)

targetServices(c, found) ==                                          \* mutant
  IF c.projectId = "other" THEN found.target ELSE found.main
targetWithoutMain(c, found) ==                                       \* mutant
  IF c.projectId = "other" THEN found.target \ found.main ELSE found.main

\* getEnabledServiceNames.
intersectedEnabledServices(c, found) ==
  IF c.projectId = "other" THEN found.main \cap found.target ELSE found.main

serviceEnabled(c, found, id) ==
  \/ id \in unconditional
  \/ /\ id \in basedOnServiceAccountProject
     /\ allServices(id) \subseteq found.main
  \/ /\ id \notin unconditional \cup basedOnServiceAccountProject
     /\ serviceNames[id] \cap intersectedEnabledServices(c, found) # {}

enabledSteps(c, found) ==
  {id \in stepIds :
     /\ configured(c, id)
     /\ c.useEnablementsForStepStartStates => serviceEnabled(c, found, id)}

-----------------------------------------------------------------------------
(* getStepStartStates                                                        *)

Init ==
  /\ config \in Configs
  /\ services \in [Project -> ServiceLists]
  /\ permitted \in SUBSET Project
  /\ config.projectId # "other" =>
       /\ services["target"] = services["main"]
       /\ permitted \in {{}, Project}
  /\ phase = "validate"
  /\ page = 1
  /\ listed = [p \in Project |-> {}]
  /\ startStates = {}
  /\ skipped = {}

\* validateInvocation's test request lists the services of the target, or of
\* the main project when there is no other, and fails on any error.
ValidateInvocation ==
  /\ phase = "validate"
  /\ "target" \in permitted
  /\ phase' = "start"
  /\ UNCHANGED <<config, services, permitted, page, listed, startStates, skipped>>

FailValidation ==
  /\ phase = "validate"
  /\ phase' = "failed"
  /\ UNCHANGED <<config, services, permitted, page, listed, startStates, skipped>>

GetDefaultStepStartStates ==
  /\ phase = "start"
  /\ ~config.useEnablementsForStepStartStates
  /\ startStates' = enabledSteps(config, listed)
  /\ phase' = "done"
  /\ UNCHANGED <<config, services, permitted, page, listed, skipped>>

StartListing ==
  /\ phase = "start"
  /\ config.useEnablementsForStepStartStates
  /\ phase' = "main"
  /\ UNCHANGED <<config, services, permitted, page, listed, startStates, skipped>>

\* A page arrives; a service that came before is not pushed again.
ListPage ==
  /\ phase \in Project
  /\ phase \in permitted
  /\ page <= NumPages
  /\ listed' = [listed EXCEPT ![phase] = @ \cup (ServicePages[page] \cap services[phase])]
  /\ page' = page + 1
  /\ UNCHANGED <<config, services, permitted, phase, startStates, skipped>>

\* Only a target other than the main project is listed too.
phaseAfter(p) ==
  IF p = "main" /\ config.projectId = "other" THEN "target" ELSE "compute"

EndListing ==
  /\ phase \in Project
  /\ page > NumPages
  /\ phase' = phaseAfter(phase)
  /\ page' = 1
  /\ UNCHANGED <<config, services, permitted, listed, startStates, skipped>>

\* A page is refused: iterateApi swallows the authorization error, and the
\* listing ends with the pages before. A permission may also be lost later.
RefusePage ==
  /\ phase \in Project
  /\ phase \notin permitted \/ page > 1
  /\ page <= NumPages
  /\ phase' = phaseAfter(phase)
  /\ page' = 1
  /\ UNCHANGED <<config, services, permitted, listed, startStates, skipped>>

\* Any other error becomes the IntegrationValidationError that ends the run.
FailListing ==
  /\ phase \in Project
  /\ page <= NumPages
  /\ phase' = "failed"
  /\ UNCHANGED <<config, services, permitted, page, listed, startStates, skipped>>

WarnOfTargetServices ==                                              \* mutant
  /\ phase = "compute"
  /\ startStates' = enabledSteps(config, listed)
  /\ skipped' = apiServices \ listed["target"]
  /\ phase' = "done"
  /\ UNCHANGED <<config, services, permitted, page, listed>>

GetStepStartStatesUsingServiceEnablements ==
  /\ phase = "compute"
  /\ startStates' = enabledSteps(config, listed)
  /\ skipped' = apiServices \ intersectedEnabledServices(config, listed)
  /\ phase' = "done"
  /\ UNCHANGED <<config, services, permitted, page, listed>>

Next == \/ ValidateInvocation
        \/ FailValidation
        \/ GetDefaultStepStartStates
        \/ StartListing
        \/ ListPage
        \/ EndListing
        \/ RefusePage
        \/ FailListing
        \/ GetStepStartStatesUsingServiceEnablements

Spec == Init /\ [][Next]_vars

-----------------------------------------------------------------------------
(* Properties                                                                *)

TypeOK ==
  /\ config \in Configs
  /\ services \in [Project -> ServiceLists]
  /\ phase \in Project \cup {"validate", "start", "compute", "done", "failed"}
  /\ permitted \subseteq Project
  /\ page \in 1..(NumPages + 1)
  /\ \A p \in Project : listed[p] \subseteq services[p]
  /\ startStates \subseteq stepIds
  /\ skipped \subseteq apiServices

ByEnablements == phase = "done" /\ config.useEnablementsForStepStartStates

\* "If a service is disabled in the main project, it cannot be used", and the
\* steps of a service the target has disabled "would be a waste of effort":
\* whatever was listed, a step that is enabled has a service that is enabled
\* in both, or those of the service account's project.
OnlyUsableServices ==
  ByEnablements =>
    \A id \in startStates \ unconditional :
      IF id \in basedOnServiceAccountProject
      THEN allServices(id) \subseteq services["main"]
      ELSE serviceNames[id] \cap services["main"] \cap services["target"] # {}

\* A listing cut short can only disable steps: it never enables one that the
\* whole lists would not.
DegradesSafely ==
  ByEnablements => startStates \subseteq enabledSteps(config, services)

\* The steps that add entities and are enabled though one they depend on is
\* not, so that they never run.
stranded ==
  {id \in startStates : /\ writes[id] # {}
                        /\ ~(ancestorsOf[id] \subseteq startStates)}

\* "The API Service ... is disabled in this account. As a result, the
\* following steps are disabled": of the steps a step_skip warning names, those
\* that run all the same are the steps that follow something else than the
\* services of both projects, or have the choice of several.
SkippedExplained ==
  \A s \in skipped :
    apiServiceToStepIdsMap[s] \cap startStates
      \subseteq unconditional \cup basedOnServiceAccountProject
                  \cup {id \in stepIds : additionalServiceNames(id) # {}}
===============================================================================
