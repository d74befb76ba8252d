---------------------------- MODULE ServiceHandlers ----------------------------
(*****************************************************************************)
(* The handlers of the steps of the other services, run together over one    *)
(* job state: each goes through what its client lists, or through entities   *)
(* of the job state, adds entities, and relates them to what it finds in the *)
(* job state by then.                                                        *)
(*                                                                           *)
(* As in ComputeHandlers, a resource refers to another through a field, the  *)
(* handler looks for the key it makes of the field's value, and the callback *)
(* of a resource is one action. What a step is ordered after, and the kinds  *)
(* it adds, are the catalog's.                                               *)
(*****************************************************************************)
EXTENDS ServiceClients, Naturals, FiniteSets

Catalog == INSTANCE StepCatalog

CONSTANTS
  Clouds,      \* the resources, and which refers to which
  Own,         \* the project of the instance
  MaxFaults    \* the calls of a run that may fail

VARIABLES
  cloud,
  status,         \* of each enabled step
  done,           \* what each step has processed: <<where it is listed, resource>>
  truncated,      \* <<step, where>>: the list was cut short by a refused call
  dropped,        \* the resources a call for which was refused
  entities,
  addedLate,      \* those of them that were added when their step had failed
  relationships,
  cachedProjects, \* data: the projects cacheProjectNameAndId was called with
  faults

jobState == <<entities, addedLate, relationships, cachedProjects>>
vars == <<cloud, status, done, truncated, dropped, jobState, faults>>

\* Where a resource is listed: in the project, in a place, or in another
\* resource, by its name.
Resource == [kind : STRING, in : STRING, name : STRING]
Refers == [from : Resource, field : STRING, to : Resource]
\* A list a resource has that is empty, but there, refers to nothing.
Cloud == [resources : SUBSET Resource, references : SUBSET Refers,
          emptyLists : SUBSET (Resource \X STRING), steps : SUBSET Catalog!stepIds]

\* A run enables a step with all it depends on.
ASSUME CloudAssumption ==
  /\ \A c \in Clouds :
       /\ DOMAIN c = {"resources", "references", "emptyLists", "steps"}
       /\ \A ref \in c.references :
            /\ {ref.from, ref.to} \subseteq c.resources
            /\ <<ref.from, ref.field>> \notin c.emptyLists
       /\ \A s \in c.steps : Catalog!dependsOn[s] \subseteq c.steps
  /\ MaxFaults \in Nat

-----------------------------------------------------------------------------
(* The job state                                                             *)

refers(r, field) == {ref.to : ref \in {x \in cloud.references : x.from = r /\ x.field = field}}

hasList(r, field) == refers(r, field) # {} \/ <<r, field>> \in cloud.emptyLists

\* The collection a resource's name, which most converters take for its key,
\* has it in: that of Spanner and of Bigtable instances is the same one.
collection(kind) ==
  IF kind \in {"spanner_instance", "bigtable_instance"} THEN "instances" ELSE kind

keyOf(r) == <<collection(r.kind), r.in, r.name>>

\* The key a handler looks for, where a field refers to t. A backup's table is
\* looked for behind a prefix the keys of tables have not, and a function's
\* repository with what follows it in the URL, but for a moveable alias.
keyLookedUp(field, t) ==
  CASE field = "sourceTable" -> <<"bigtable_table:" \o t.kind, t.in, t.name>>
    [] field = "sourceRepository.url of a revision" -> <<t.kind, t.in, t.name \o "/revisions">>
    [] OTHER -> keyOf(t)

\* findEntity, for each of the field's values.
found(r, field) ==
  {e \in entities : \E t \in refers(r, field) : keyOf(e) = keyLookedUp(field, t)}

ofKind(kind) == {e \in entities : e.kind = kind}

\* getProjectEntity
projectEntity == {e \in ofKind("cloud_project") : e.name = Own}

\* The ends of a relationship that its handler takes for entities of the job
\* state: both, or of a mapped one, one.
Direct(from, class, to) ==
  [from |-> from, class |-> class, to |-> to, inJobState |-> {from, to}]
MappedTo(from, class, to) == [from |-> from, class |-> class, to |-> to, inJobState |-> {from}]
MappedFrom(from, class, to) == [from |-> from, class |-> class, to |-> to, inJobState |-> {to}]

\* From r to what its field refers to, or the other way.
uses(r, field, class) == {Direct(r, class, t) : t \in found(r, field)}
usedBy(r, field, class) == {Direct(t, class, r) : t \in found(r, field)}

\* A key that is not found is related to by a mapped relationship.
alwaysMapped(r, field) == {MappedTo(r, "USES", t) : t \in refers(r, field)} \* mutant
usesKmsKey(r, field) ==
  uses(r, field, "USES")
    \cup {MappedTo(r, "USES", t) : t \in refers(r, field) \ found(r, field)}

relationshipKey(x) == <<keyOf(x.from), x.class, keyOf(x.to)>>

has(e, r) == {Direct(e, "HAS", r)}

-----------------------------------------------------------------------------
(* The relationships each handler adds for a resource r that is listed in e, *)
(* or for an entity r it iterates over                                       *)

fetchAccessLevels(e, r) == has(e, r)

\* Of a perimeter's two configurations, spec is the dry run, status is what is
\* enforced. The policies are the dry run's if it has a list of them.
firstList(r, fields) ==
  IF hasList(r, fields[1]) THEN refers(r, fields[1]) ELSE refers(r, fields[2])

egressPolicies(r) == firstList(r, <<"spec.egressPolicies", "status.egressPolicies">>)

ingressPolicies(r) == firstList(r, <<"spec.ingressPolicies", "status.ingressPolicies">>)

operationsOf(policies) == UNION {refers(p, "operations") : p \in policies}
selectorsOf(policies) == UNION {refers(o, "methodSelectors") : o \in operationsOf(policies)}

hasEach(r, field) == {Direct(r, "HAS", t) : t \in refers(r, field)}

policyRelationships(r, policies) ==
  {Direct(r, "HAS", p) : p \in policies}
    \cup UNION {hasEach(p, "operations") : p \in policies}
    \cup UNION {hasEach(o, "methodSelectors") : o \in operationsOf(policies)}

processEgressPolicies(r) == policyRelationships(r, egressPolicies(r))

processIngressPolicies(r) == policyRelationships(r, ingressPolicies(r))

\* The projects and services are the enforced configuration's if it has a list
\* of them.
protectedProjects(r) == firstList(r, <<"status.resources", "spec.resources">>)

restrictedServices(r) ==
  firstList(r, <<"status.restrictedServices", "spec.restrictedServices">>)

buildServicePerimeterProtectsProjects(r) ==
  {MappedTo(r, "PROTECTS", p) : p \in protectedProjects(r)}

serviceOf(p, service) == [service EXCEPT !.in = p.name]

buildServicePerimeterLimitsServices(r) ==
  {MappedTo(r, "LIMITS", serviceOf(p, service)) :
     p \in protectedProjects(r) \cap cachedProjects, service \in restrictedServices(r)}

fetchServicePerimeters(e, r) ==
  has(e, r)
    \cup processEgressPolicies(r)
    \cup processIngressPolicies(r)
    \cup buildServicePerimeterProtectsProjects(r)
    \cup buildServicePerimeterLimitsServices(r)

fetchApiGatewayApiConfigs(e, r) ==
  {Direct(e, "USES", r)} \cup uses(r, "gatewayServiceAccount", "USES")

fetchApiGatewayGateways(r) == usedBy(r, "apiConfig", "HAS")

\* Two relationships, added one after the other: with one key, if the fields
\* name one bucket.
buildAppEngineApplicationUsesBucketRelationships(r) ==
  uses(r, "defaultBucket", "USES") \cup uses(r, "codeBucket", "USES")

oneBucketTwice(r) == found(r, "defaultBucket") \cap found(r, "codeBucket") # {}

fetchAppEngineServices(r) ==
  {Direct(app, "HAS", r) : app \in ofKind("app_engine_application")}

\* A creator that is no service account is a user of another integration.
fetchAppEngineServiceVersions(e, r) ==
  has(e, r) \cup usedBy(r, "createdBy", "CREATED")
    \cup {MappedFrom(u, "CREATED", r) : u \in {t \in refers(r, "createdBy") : t.kind = "google_user"}}

fetchAppEngineVersionInstances(e, r) == has(e, r)

buildBigQueryDatasetKMSRelationships(r) == usesKmsKey(r, "kmsKeyName")

fetchBigQueryModels(e, r) == has(e, r)

fetchBigQueryTables(e, r) == has(e, r)

fetchAppProfiles(e, r) == has(e, r)

\* The one key that is not related to by a mapped relationship.
fetchBigTableClusters(e, r) == has(e, r) \cup uses(r, "kmsKeyName", "USES")

fetchBackups(e, r) == has(e, r) \cup usedBy(r, "sourceTable", "HAS")

fetchTables(e, r) == has(e, r)

fetchBinaryAuthorizationPolicy(r) == {Direct(p, "HAS", r) : p \in projectEntity}

buildBillingAccountBudgetRelationships(r) ==
  {Direct(account, "HAS", r) : account \in {e \in ofKind("billing_account") : e.name = r.in}}

\* The projects a budget names.
buildProjectBudgetRelationships(r) ==
  {IF p \in projectEntity THEN Direct(p, "HAS", r) ELSE MappedFrom(p, "HAS", r) :
     p \in {q \in refers(r, "projects") : projectEntity # {}}}

\* A project of the account of a budget e that names none.
buildAdditionalProjectBudgetRelationships(e, r) ==
  {IF p \in projectEntity THEN Direct(p, "HAS", e) ELSE MappedTo(p, "HAS", e) :
     p \in {r} \cap cachedProjects}

buildCloudBuildTriggerTriggersBuildRelationships(r) == usedBy(r, "buildTriggerId", "TRIGGERS")

\* A trigger of GitHub Enterprise: its repository is at the host of the config.
buildCloudBuildTriggerUsesGithubRepository(r) ==
  {MappedTo(r, "USES", repo) :
     repo \in {t \in refers(r, "github") : found(r, "enterpriseConfigResourceName") # {}}}

buildCloudBuildUsesSourceRepositoryRelationships(r) == uses(r, "repoSource", "USES")

buildCloudBuildUsesStorageBucketRelationships(r) == uses(r, "storageSource", "USES")

fetchCloudBuildBitbucketRepositories(e, r) == has(e, r)

fetchCloudRunRoutes(r) == usedBy(r, "ownerReferences", "MANAGES")

fetchCloudRunConfigurations(r) == usedBy(r, "ownerReferences", "MANAGES")

fetchContainerClusters(r) ==
  hasEach(r, "nodePools")
    \cup UNION {uses(pool, "instanceGroupUrls", "HAS") : pool \in refers(r, "nodePools")}

buildDataprocClusterUsesKmsRelationships(r) == usesKmsKey(r, "gcePdKmsKeyName")

createClusterImageRelationships(r) == uses(r, "masterConfigImageUri", "USES")

createClusterStorageRelationships(r) ==
  uses(r, "configBucket", "USES") \cup uses(r, "tempBucket", "USES")

fetchDNSPolicies(r) == usedBy(r, "networks", "HAS")

buildCloudFunctionServiceAccountRelationships(r) == uses(r, "serviceAccountEmail", "USES")

buildCloudFunctionSourceRepoRelationships(r) ==
  uses(r, "sourceRepository.url", "USES") \cup uses(r, "sourceRepository.url of a revision", "USES")

buildCloudFunctionStorageBucketRelationships(r) == uses(r, "sourceArchiveUrl", "USES")

fetchKmsCryptoKeys(e, r) == has(e, r)

buildSinkUsesBucketRelationships(r) == uses(r, "destination", "USES")

\* A policy whose filters contain the name of the metric, or of one whose name
\* contains it.
filtersContain(policy, r) ==
  \E metric \in refers(policy, "conditionFilters") :
    metric = r \/ r \in refers(metric, "a name it contains")

fetchMetrics(r) ==
  {Direct(r, "HAS", policy) :
     policy \in {e \in ofKind("monitoring_alert_policy") : filtersContain(e, r)}}

fetchMemcacheInstances(r) == hasEach(r, "memcacheNodes")

buildMemcacheInstancesUsesNetworkRelationships(r) == uses(r, "authorizedNetwork", "USES")

\* The certificates of a pool are listed for each of its authorities.
fetchAuthorityCertificates(e, r) == {Direct(e, "CREATED", r)}

buildCertificateAuthorityBucketRelationships(r) == uses(r, "gcsBucket", "USES")

fetchCertificateAuthorities(e, r) == has(e, r)

buildPubSubTopicKMSRelationships(r) == usesKmsKey(r, "kmsKeyName")

\* A subscription that is detached, or whose topic is deleted, refers to none.
fetchPubSubSubscriptions(r) == uses(r, "topic", "USES")

buildRedisInstanceUsesNetworkRelationships(r) == uses(r, "authorizedNetwork", "USES")

fetchSecretVersions(e, r) == has(e, r)

fetchSpannerInstances(r) == uses(r, "config", "USES")

fetchSpannerInstanceDatabases(e, r) == has(e, r) \cup usesKmsKey(r, "kmsKeyName")

buildSqlAdminInstanceKmsKeyRelationships(r) == usesKmsKey(r, "kmsKeyName")

fetchScanRuns(e, r) == {Direct(e, "PERFORMED", r)}

relationshipsOf(s, e, r) ==
  CASE s = "fetch-access-context-manager-access-levels" -> fetchAccessLevels(e, r)
    [] s = "fetch-access-context-manager-service-perimeters" -> fetchServicePerimeters(e, r)
    [] s = "fetch-api-gateway-api-configs" -> fetchApiGatewayApiConfigs(e, r)
    [] s = "fetch-api-gateway-gateways" -> fetchApiGatewayGateways(r)
    [] s = "build-app-engine-application-bucket-relationships" ->
         buildAppEngineApplicationUsesBucketRelationships(r)
    [] s = "fetch-app-engine-services" -> fetchAppEngineServices(r)
    [] s = "fetch-app-engine-versions" -> fetchAppEngineServiceVersions(e, r)
    [] s = "fetch-app-engine-instances" -> fetchAppEngineVersionInstances(e, r)
    [] s = "build-big-query-dataset-kms-relationships" -> buildBigQueryDatasetKMSRelationships(r)
    [] s = "fetch-big-query-models" -> fetchBigQueryModels(e, r)
    [] s = "fetch-big-query-tables" -> fetchBigQueryTables(e, r)
    [] s = "fetch-bigtable-app-profiles" -> fetchAppProfiles(e, r)
    [] s = "fetch-bigtable-clusters" -> fetchBigTableClusters(e, r)
    [] s = "fetch-bigtable-backups" -> fetchBackups(e, r)
    [] s = "fetch-bigtable-tables" -> fetchTables(e, r)
    [] s = "fetch-binary-authorization-policy" -> fetchBinaryAuthorizationPolicy(r)
    [] s = "build-account-budget" -> buildBillingAccountBudgetRelationships(r)
    [] s = "build-project-budget" -> buildProjectBudgetRelationships(r)
    [] s = "build-additional-project-budget" -> buildAdditionalProjectBudgetRelationships(e, r)
    [] s = "build-cloud-build-trigger-triggers-build-relationships" ->
         buildCloudBuildTriggerTriggersBuildRelationships(r)
    [] s = "build-cloud-build-trigger-uses-github-repo" ->
         buildCloudBuildTriggerUsesGithubRepository(r)
    [] s = "build-cloud-build-uses-source-repo-relationships" ->
         buildCloudBuildUsesSourceRepositoryRelationships(r)
    [] s = "build-cloud-build-uses-storage-bucket-relationships" ->
         buildCloudBuildUsesStorageBucketRelationships(r)
    [] s = "fetch-cloud-build-bb-repos" -> fetchCloudBuildBitbucketRepositories(e, r)
    [] s = "fetch-cloud-run-routes" -> fetchCloudRunRoutes(r)
    [] s = "fetch-cloud-run-configurations" -> fetchCloudRunConfigurations(r)
    [] s = "fetch-container-clusters" -> fetchContainerClusters(r)
    [] s = "build-dataproc-cluster-kms-relationships" -> buildDataprocClusterUsesKmsRelationships(r)
    [] s = "create-cluster-image-relationships" -> createClusterImageRelationships(r)
    [] s = "create-cluster-storage-relationships" -> createClusterStorageRelationships(r)
    [] s = "fetch-dns-policies" -> fetchDNSPolicies(r)
    [] s = "build-cloud-function-service-account-relationships" ->
         buildCloudFunctionServiceAccountRelationships(r)
    [] s = "build-cloud-function-source-repo-relationships" ->
         buildCloudFunctionSourceRepoRelationships(r)
    [] s = "build-cloud-function-storage-bucket-relationships" ->
         buildCloudFunctionStorageBucketRelationships(r)
    [] s = "fetch-kms-keys" -> fetchKmsCryptoKeys(e, r)
    [] s = "build-logging-project-sink-bucket-relationships" -> buildSinkUsesBucketRelationships(r)
    [] s = "fetch-logging-metrics" -> fetchMetrics(r)
    [] s = "fetch-memcache-instances" -> fetchMemcacheInstances(r)
    [] s = "build-memcache-instance-network-relationships" ->
         buildMemcacheInstancesUsesNetworkRelationships(r)
    [] s = "fetch-private-ca-certificates" -> fetchAuthorityCertificates(e, r)
    [] s = "build-private-ca-certificate-authority-bucket-relationships" ->
         buildCertificateAuthorityBucketRelationships(r)
    [] s = "fetch-private-ca-certificate-authorities" -> fetchCertificateAuthorities(e, r)
    [] s = "build-pubsub-topic-kms-relationships" -> buildPubSubTopicKMSRelationships(r)
    [] s = "fetch-pubsub-subscriptions" -> fetchPubSubSubscriptions(r)
    [] s = "build-redis-instance-network-relationships" ->
         buildRedisInstanceUsesNetworkRelationships(r)
    [] s = "fetch-secret-versions" -> fetchSecretVersions(e, r)
    [] s = "fetch-spanner-instances" -> fetchSpannerInstances(r)
    [] s = "fetch-spanner-instance-databases" -> fetchSpannerInstanceDatabases(e, r)
    [] s = "build-sql-admin-instance-kms-key-relationships" ->
         buildSqlAdminInstanceKmsKeyRelationships(r)
    [] s = "fetch-scan-runs" -> fetchScanRuns(e, r)
    [] OTHER -> {}

\* What is added with a resource: its parts.
partsOf(r) ==
  LET policies == egressPolicies(r) \cup ingressPolicies(r) IN
  policies \cup operationsOf(policies) \cup selectorsOf(policies)
    \cup refers(r, "nodePools") \cup refers(r, "memcacheNodes")

-----------------------------------------------------------------------------
(* What a step processes                                                     *)

\* The entities a step iterates over, when it lists nothing.
iteratedKind(s) ==
  CASE s = "build-app-engine-application-bucket-relationships" -> "app_engine_application"
    [] s = "build-big-query-dataset-kms-relationships" -> "bigquery_dataset"
    [] s \in {"build-account-budget", "build-project-budget"} -> "billing_budget"
    [] s \in {"build-cloud-build-trigger-triggers-build-relationships",
              "build-cloud-build-uses-source-repo-relationships",
              "build-cloud-build-uses-storage-bucket-relationships"} -> "cloud_build"
    [] s = "build-cloud-build-trigger-uses-github-repo" -> "cloud_build_trigger"
    [] s \in {"build-dataproc-cluster-kms-relationships", "create-cluster-image-relationships",
              "create-cluster-storage-relationships"} -> "dataproc_cluster"
    [] s \in {"build-cloud-function-service-account-relationships",
              "build-cloud-function-source-repo-relationships",
              "build-cloud-function-storage-bucket-relationships"} -> "cloud_function"
    [] s = "build-logging-project-sink-bucket-relationships" -> "logging_project_sink"
    [] s = "build-memcache-instance-network-relationships" -> "memcache_instance"
    [] s = "build-private-ca-certificate-authority-bucket-relationships" ->
         "privateca_certificate_authority"
    [] s = "build-pubsub-topic-kms-relationships" -> "pubsub_topic"
    [] s = "build-redis-instance-network-relationships" -> "redis_instance"
    [] s = "build-sql-admin-instance-kms-key-relationships" -> "sql_instance"
    [] OTHER -> "none"

\* What a list is made for each of. Nothing is listed of App Engine without an
\* application, or for the budgets without the project, or with projects.
place(listing, i) == [kind |-> listing.parents, in |-> "", name |-> listing.places[i]]

parentsOf(s) ==
  LET listing == listingOf[s] IN
  CASE s = "fetch-app-engine-services" /\ ofKind("app_engine_application") = {} -> {}
    [] s = "build-additional-project-budget" ->
         {e \in ofKind("billing_budget") : refers(e, "projects") = {} /\ projectEntity # {}}
    [] listing.places = <<>> -> ofKind(listing.parents)
    [] OTHER -> {place(listing, i) : i \in DOMAIN listing.places}

\* What is listed in e. Certificates are listed of an authority's pool, and
\* projects of a budget's account. A database of a version the handler does not
\* know is passed over, and is none of these.
listedIn(s, e) ==
  {r \in cloud.resources :
     CASE s \in {"fetch-resource-manager-project", "fetch-resource-manager-org-project-relationships"} ->
            r.kind = "cloud_project" /\ (s = "fetch-resource-manager-project" => r.name = Own)
       [] s = "build-additional-project-budget" -> r.kind = "cloud_project" /\ r.in = e.in
       [] s = "fetch-private-ca-certificates" -> r.kind = "privateca_certificate" /\ r.in = e.in
       [] OTHER -> r.kind \in Catalog!writes[s] /\ r.in = e.name}

toProcess(s) ==
  IF s \in lists
  THEN UNION {{e} \X listedIn(s, e) : e \in {p \in parentsOf(s) : <<s, p>> \notin truncated}}
         \ done[s]
  ELSE {<<e, e>> : e \in ofKind(iteratedKind(s))} \ done[s]

\* The lists of a step come one after the other: of places in the order of
\* their table, of entities in some order, and none is left before its end.
placeIndex(s, e) == CHOOSE i \in DOMAIN listingOf[s].places : listingOf[s].places[i] = e.name

begun(s, e) == \E x \in done[s] : x[1] = e

current(s, e) ==
  s \in lists => \A x \in toProcess(s) :
    IF e.kind = "place" THEN placeIndex(s, e) <= placeIndex(s, x[1])
    ELSE begun(s, x[1]) => begun(s, e)

running(s) == s \in DOMAIN status /\ status[s] = "running"

Failures == {"failed", "failed on a refused call", "failed on a duplicate key"}
ended(s) == status[s] \in {"success"} \cup Failures

Init ==
  /\ cloud \in Clouds
  /\ status = [s \in cloud.steps |-> "pending"]
  /\ done = [s \in cloud.steps |-> {}]
  /\ truncated = {}
  /\ dropped = {}
  /\ entities = {}
  /\ addedLate = {}
  /\ relationships = {}
  /\ cachedProjects = {}
  /\ faults = 0

Start(s) ==
  /\ status[s] = "pending"
  /\ \A d \in Catalog!dependsOn[s] : ended(d)
  /\ status' = [status EXCEPT ![s] = "running"]
  /\ UNCHANGED <<cloud, done, truncated, dropped, jobState, faults>>

Finish(s) ==
  /\ running(s)
  /\ toProcess(s) = {}
  /\ status' = [status EXCEPT ![s] = "success"]
  /\ UNCHANGED <<cloud, done, truncated, dropped, jobState, faults>>

Fault == faults < MaxFaults /\ faults' = faults + 1

FailWith(s, failure) ==
  /\ status' = [status EXCEPT ![s] = failure]
  /\ UNCHANGED <<cloud, done, truncated, dropped, jobState>>

catchesAll(s) == s \in lists /\ listingOf[s].catchesAll

\* Any other error than a refused call.
Fail(s) ==
  /\ running(s)
  /\ ~catchesAll(s)
  /\ Fault
  /\ FailWith(s, "failed")

\* A refused call ends the list of its place or parent, and the next one's is
\* made. So do the errors a handler knows: no application, no such dataset,
\* BigQuery not enabled, a project that is no workspace.
endsEveryListing(s, e) == {<<s, p>> : p \in parentsOf(s)} \* mutant
endsListing(s, e) == {<<s, e>>}

RefusePage(s, e) ==
  /\ running(s)
  /\ s \in lists
  /\ current(s, e)
  /\ listingOf[s].paged \/ ~begun(s, e)
  /\ Fault
  /\ truncated' = truncated \cup endsListing(s, e)
  /\ UNCHANGED <<cloud, status, done, dropped, jobState>>

\* The next resource of the list, or entity of the iteration.
Take(s, e, r) ==
  /\ running(s)
  /\ current(s, e)
  /\ done' = [done EXCEPT ![s] = @ \cup {<<e, r>>}]
  /\ UNCHANGED <<cloud, status, truncated>>

addsEntities(s) ==
  s \in lists \ {"build-additional-project-budget",
                 "fetch-resource-manager-org-project-relationships"}

\* addEntity fails on a key the job state has.
duplicate(s, r) == addsEntities(s) /\ \E x \in entities : keyOf(x) = keyOf(r)

\* And so does addRelationship, the second one of r with its key included.
duplicateRelationship(s, e, r) ==
  \/ \E x \in relationshipsOf(s, e, r), y \in relationships :
       relationshipKey(x) = relationshipKey(y)
  \/ s = "build-app-engine-application-bucket-relationships" /\ oneBucketTwice(r)

Add(s, e, r) ==
  /\ entities' = IF addsEntities(s) THEN entities \cup {r} \cup partsOf(r) ELSE entities
  /\ relationships' = relationships \cup relationshipsOf(s, e, r)
  /\ cachedProjects' =
       cachedProjects \cup
         IF s \in {"fetch-resource-manager-project",
                   "fetch-resource-manager-org-project-relationships"} THEN {r} ELSE {}

AddEntityAndRelationships(s, e, r) ==
  /\ ~duplicate(s, r)
  /\ ~duplicateRelationship(s, e, r)
  /\ Add(s, e, r)

Process(s, e, r) ==
  /\ Take(s, e, r)
  /\ AddEntityAndRelationships(s, e, r)
  /\ UNCHANGED <<addedLate, dropped, faults>>

\* executeConcurrently: the callback of another resource of the list has failed
\* the step, that of r was in flight, and adds it, whatever has started since.
ProcessInFlight(s, e, r) ==
  /\ s \in Catalog!addsConcurrently
  /\ status[s] \in Failures
  /\ current(s, e)
  /\ \E other \in listedIn(s, e) \ {r} : <<e, other>> \in toProcess(s)
  /\ done' = [done EXCEPT ![s] = @ \cup {<<e, r>>}]
  /\ AddEntityAndRelationships(s, e, r)
  /\ addedLate' = addedLate \cup {r}
  /\ UNCHANGED <<cloud, status, truncated, dropped, faults>>

ProcessDuplicate(s, e, r) ==
  /\ running(s)
  /\ current(s, e)
  /\ duplicate(s, r)
  /\ FailWith(s, "failed on a duplicate key")
  /\ UNCHANGED faults

\* The entity and the relationship that were added first stay.
ProcessDuplicateRelationship(s, e, r) ==
  /\ running(s)
  /\ current(s, e)
  /\ ~duplicate(s, r)
  /\ duplicateRelationship(s, e, r)
  /\ Add(s, e, r)
  /\ status' = [status EXCEPT ![s] = "failed on a duplicate key"]
  /\ UNCHANGED <<cloud, done, truncated, dropped, addedLate, faults>>

\* A call that is made for the resource is refused.
RefuseCall(s, e, r) ==
  /\ running(s)
  /\ s \in lists
  /\ Fault
  /\ \E call \in listingOf[s].calls :
       \/ /\ call = KeepsResource
          /\ Take(s, e, r)
          /\ AddEntityAndRelationships(s, e, r)
          /\ UNCHANGED <<addedLate, dropped>>
       \/ /\ call = DropsResource
          /\ Take(s, e, r)
          /\ dropped' = dropped \cup {r}
          /\ UNCHANGED jobState
       \/ /\ call = FailsStep
          /\ current(s, e)
          /\ FailWith(s, "failed on a refused call")

Next ==
  \/ \E s \in DOMAIN status : Start(s) \/ Finish(s) \/ Fail(s)
  \/ \E s \in DOMAIN status : \E e \in {x[1] : x \in toProcess(s)} : RefusePage(s, e)
  \/ \E s \in DOMAIN status : \E x \in toProcess(s) :
       \/ Process(s, x[1], x[2])
       \/ ProcessInFlight(s, x[1], x[2])
       \/ ProcessDuplicate(s, x[1], x[2])
       \/ ProcessDuplicateRelationship(s, x[1], x[2])
       \/ RefuseCall(s, x[1], x[2])

Spec == Init /\ [][Next]_vars
-----------------------------------------------------------------------------
(* Properties                                                                *)

TypeOK ==
  /\ cloud \in Clouds
  /\ status \in [cloud.steps -> {"pending", "running", "success"} \cup Failures]
  /\ truncated \subseteq lists \X Resource
  /\ dropped \subseteq cloud.resources
  /\ addedLate \subseteq entities
  /\ entities \subseteq cloud.resources
  /\ cachedProjects \subseteq cloud.resources
  /\ faults \in 0..MaxFaults

\* What is listed in another resource, or in an authority's pool, or is of the
\* one application or project there is.
listedTogether(x) ==
  \/ x.to.in = x.from.name
  \/ x.class = "CREATED" /\ x.to.kind = "privateca_certificate" /\ x.to.in = x.from.in
  \/ x.to.kind = "billing_budget" /\ refers(x.to, "projects") = {} /\ x.to.in = x.from.in
  \/ x.to.kind \in {"app_engine_service", "binary_authorization_policy"}

\* A relationship says what a field of one of its ends says, or where one of
\* them is listed, though it is found by a key made of the field's value; but
\* that a certificate may be said to be created by any authority of its pool,
\* and that a policy on one metric may be said to be on another. The ends its
\* handler takes for entities are in the job state, but for the projects of
\* other instances that have a budget. A key is related to by a mapped
\* relationship when, and only when, the job state does not have it.
RelationshipsTrue ==
  \A x \in relationships :
    /\ \/ \E ref \in cloud.references : {ref.from, ref.to} = {x.from, x.to}
       \/ listedTogether(x)
       \/ x.class = "LIMITS" /\ x.to.in \in {p.name : p \in protectedProjects(x.from)}
       \/ x.from.kind = "logging_metric" /\ filtersContain(x.to, x.from)
    /\ \/ x.inJobState \subseteq entities
       \/ x.from.kind = "cloud_project" /\ x.from.name # Own /\ x.to.kind = "billing_budget"
    /\ x.to.kind = "kms_crypto_key" => (x.to \in x.inJobState <=> x.to \in entities)

\* The step that relates the two ends of a reference.
relater(ref) ==
  CASE ref.field \in {"operations", "methodSelectors"} ->
         "fetch-access-context-manager-service-perimeters"
    [] ref.field \in {"defaultBucket", "codeBucket"} ->
         "build-app-engine-application-bucket-relationships"
    [] ref.field = "conditionFilters" -> "fetch-logging-metrics"
    [] ref.field = "projects" -> "build-project-budget"
    [] ref.field = "buildTriggerId" -> "build-cloud-build-trigger-triggers-build-relationships"
    [] ref.field = "github" -> "build-cloud-build-trigger-uses-github-repo"
    [] ref.field = "repoSource" -> "build-cloud-build-uses-source-repo-relationships"
    [] ref.field = "storageSource" -> "build-cloud-build-uses-storage-bucket-relationships"
    [] ref.field = "gcePdKmsKeyName" -> "build-dataproc-cluster-kms-relationships"
    [] ref.field = "masterConfigImageUri" -> "create-cluster-image-relationships"
    [] ref.field \in {"configBucket", "tempBucket"} -> "create-cluster-storage-relationships"
    [] ref.field = "serviceAccountEmail" -> "build-cloud-function-service-account-relationships"
    [] ref.field = "sourceRepository.url" -> "build-cloud-function-source-repo-relationships"
    [] ref.field = "sourceArchiveUrl" -> "build-cloud-function-storage-bucket-relationships"
    [] ref.field = "destination" -> "build-logging-project-sink-bucket-relationships"
    [] ref.field = "gcsBucket" -> "build-private-ca-certificate-authority-bucket-relationships"
    [] ref.field = "authorizedNetwork" ->
         IF ref.from.kind = "redis_instance" THEN "build-redis-instance-network-relationships"
         ELSE "build-memcache-instance-network-relationships"
    [] ref.field = "kmsKeyName" /\ ref.from.kind = "bigquery_dataset" ->
         "build-big-query-dataset-kms-relationships"
    [] ref.field = "kmsKeyName" /\ ref.from.kind = "pubsub_topic" ->
         "build-pubsub-topic-kms-relationships"
    [] ref.field = "kmsKeyName" /\ ref.from.kind = "sql_instance" ->
         "build-sql-admin-instance-kms-key-relationships"
    [] OTHER -> CHOOSE s \in lists : ref.from.kind \in Catalog!writes[s]

\* A service is limited in each of the projects whose id the run has learned.
related(ref) ==
  LET ends == {{x.from, x.to} : x \in relationships} IN
  IF ref.to.kind = "cloud_api_service"
  THEN \A p \in protectedProjects(ref.from) \cap cachedProjects :
         {ref.from, serviceOf(p, ref.to)} \in ends
  ELSE {ref.from, ref.to} \in ends

\* The references no handler relates: a backup's table and the repository of a
\* function at a revision are looked up by a key no entity has; of the two
\* configurations of a perimeter one is left out, and not the same one for its
\* policies as for its projects and services.
neverRelated(ref) ==
  \/ ref.field \in {"sourceTable", "sourceRepository.url of a revision", "a name it contains",
                    "issuer", "enterpriseConfigResourceName"}
  \/ ref.field = "status.egressPolicies" /\ hasList(ref.from, "spec.egressPolicies")
  \/ ref.field = "status.ingressPolicies" /\ hasList(ref.from, "spec.ingressPolicies")
  \/ ref.field = "spec.resources" /\ hasList(ref.from, "status.resources")
  \/ ref.field = "spec.restrictedServices" /\ hasList(ref.from, "status.restrictedServices")

\* A Bigtable cluster's key: fetch-bigtable-clusters is not ordered after
\* fetch-kms-keys, and a key it does not find has no mapped relationship.
keyOfCluster(ref) == ref.from.kind = "bigtable_cluster" /\ ref.field = "kmsKeyName"

\* A repository at a host that is not known, the projects of a budget without
\* the instance's own.
lostWithAnother(ref) ==
  \/ ref.field = "github" /\ found(ref.from, "enterpriseConfigResourceName") = {}
  \/ ref.field = "projects" /\ projectEntity = {}

\* What is outside the instance, and related to by a mapped relationship.
MappedFields ==
  {"kmsKeyName", "gcePdKmsKeyName", "createdBy", "projects", "github", "status.resources",
   "spec.resources", "status.restrictedServices", "spec.restrictedServices"}

mayBeMapped(ref) ==
  ref.field \in MappedFields /\ ref.to.kind \notin {"iam_service_account"}

succeeded(s) == s \in DOMAIN status /\ status[s] = "success"

\* What a failed step has left in flight is not there, when it is looked up.
late(ref) == ref.to \in addedLate

ReferencesRelated ==
  \A ref \in cloud.references :
    /\ succeeded(relater(ref))
    /\ ref.from \in entities
    /\ ref.to \in entities \/ mayBeMapped(ref)
    => \/ related(ref) \/ neverRelated(ref)
       \/ late(ref) \/ keyOfCluster(ref) \/ lostWithAnother(ref)

\* The projects of the account of a budget that names none.
BudgetsShared ==
  LET s == "build-additional-project-budget" IN
  succeeded(s) => \A e \in parentsOf(s) : \A r \in listedIn(s, e) \cap cachedProjects :
    <<s, e>> \in truncated \/ \E x \in relationships : x.from = r /\ x.to = e

\* What is lost of a list: the rest of it at one place or of one parent, or
\* one resource, for each refused call.
lost(s) == {x \in UNION {{e} \X listedIn(s, e) : e \in parentsOf(s)} : x[2] \notin entities}

ListsComplete ==
  \A s \in lists : succeeded(s) /\ addsEntities(s) =>
    Cardinality({x[1] : x \in {y \in lost(s) : y[2] \notin dropped}})
      + Cardinality({x[2] : x \in lost(s)} \cap dropped) <= faults

\* The steps that fail on a duplicate key: the one that lists the certificates
\* of a pool with more than one authority, the one that comes second to the
\* name of an instance both Spanner and Bigtable have, and the one that relates
\* an application to one bucket twice.
certificatesTwice(s) ==
  /\ s = "fetch-private-ca-certificates"
  /\ \E a, b \in ofKind("privateca_certificate_authority") : a # b /\ a.in = b.in

listInstances == {"fetch-spanner-instances", "fetch-bigtable-instances"}

instanceTwice(s) ==
  /\ s \in listInstances
  /\ \E other \in listInstances \ {s} : \E x \in cloud.resources, y \in entities :
       x.kind \in Catalog!writes[s] /\ y.kind \in Catalog!writes[other] /\ x.name = y.name

bucketTwice(s) ==
  /\ s = "build-app-engine-application-bucket-relationships"
  /\ \E x \in relationships :
       \A field \in {"defaultBucket", "codeBucket"} :
         [from |-> x.from, field |-> field, to |-> x.to] \in cloud.references

\* What fails a step, but for an error no handler knows.
FailuresNamed ==
  \A s \in DOMAIN status :
    /\ status[s] = "failed on a refused call" => s = "fetch-api-gateway-apis"
    /\ status[s] = "failed on a duplicate key" =>
         certificatesTwice(s) \/ instanceTwice(s) \/ bucketTwice(s)

\* When a step has succeeded, whatever became of the others, each reference it
\* is to relate has a relationship, if its ends are there to be related, and
\* what it lists has its entity; but for what refused calls have cost, each
\* the rest of one list or one resource, and for the losses that have a name
\* above. A refused call fails one step, and a duplicate key the three that are
\* named above.
LossExplained ==
  /\ ReferencesRelated
  /\ BudgetsShared
  /\ ListsComplete
  /\ FailuresNamed
===============================================================================
