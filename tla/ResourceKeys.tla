----------------------------- MODULE ResourceKeys ------------------------------
(*****************************************************************************)
(* The two ways to the _key of a resource. The step of its service makes an  *)
(* entity of what the API says of the resource, with the key its converter   *)
(* gives it. Later, the steps of src/steps/cloud-asset know the resource     *)
(* only by the identifier in an IAM policy, and have to arrive at the same   *)
(* key to find that entity again: its kind, its type, and the key generator  *)
(* of the type, in src/utils/iamBindings. A key, like an identifier, is the  *)
(* sequence of its segments.                                                 *)
(*****************************************************************************)
EXTENDS ResourceFormats, TLC

CONSTANTS
  Resources,      \* what policies are bound to: kind, and identifier, by name
  ProjectId,      \* the project's id
  NumberOf,       \* the numbers of what has both a name and a number
  None

ASSUME ResourceKeysAssumption ==
  /\ \A r \in Resources : DOMAIN r = {"kind", "identifier"} /\ Len(r.identifier) >= 2
  /\ ProjectId \in DOMAIN NumberOf

VARIABLES
  pc,            \* what createBindingToAnyResourceRelationships does next
  resource,      \* the resource of the binding it has taken
  world,         \* what the integration has seen of it
  response,      \* of getTypeAndKeyFromResourceIdentifier
  targetType,    \* its targetResourceType
  relationship   \* the relationship of the binding

vars == <<pc, resource, world, response, targetType, relationship>>

last(s) == s[Len(s)]

\* A segment that names a project, or a service account, may be its number
\* (for a service account, its unique id).
byNumber(path) ==
  [i \in DOMAIN path |->
     IF path[i] = ProjectId \/ (i > 1 /\ path[i - 1] = "serviceAccounts")
     THEN NumberOf[path[i]] ELSE path[i]]

-----------------------------------------------------------------------------
(* What the APIs say of a resource                                           *)

\* The name, where it is the path of the resource, has the project's id or its
\* number; an id is unlike any name; complete is whether the labels are there.
apiData(r, w) ==
  LET path == Tail(r.identifier)
  IN [path |-> path, last |-> last(path), complete |-> w.complete,
      database |-> w.database,
      name |-> IF w.namedByNumber /\ r.kind[1] # "iam" THEN byNumber(path) ELSE path,
      id |-> <<"id">> \o path]

selfLink(root, d) == root \o d.path

computeApi == <<"https:", "", "www.googleapis.com", "compute", "v1">>
containerApi == <<"https:", "", "container.googleapis.com", "v1">>
sqlApi == <<"https:", "", "www.googleapis.com", "sql", "v1beta4">>

-----------------------------------------------------------------------------
(* The converters: the type and the key of the entity, by the kind of the    *)
(* resource.                                                                 *)

entity(type, key) == [type |-> type, key |-> key]

functionsEntities(d) == [CloudFunction |-> entity("cloud_function", d.name)]

resourceManagerEntities(d) ==
  [Organization |-> entity("cloud_organization", d.path),
   Folder |-> entity("cloud_folder", d.path),
   Project |-> entity("cloud_project", byNumber(d.path))]

\* Without the label of its location, the location is the empty string.
cloudRunEntities(d) ==
  [Service |-> entity("cloud_run_service",
     IF d.complete THEN d.path ELSE [d.path EXCEPT ![4] = ""])]

computeProjectAndImages(d) ==
  [Project |-> entity("compute_project", selfLink(computeApi, d)),
   Image |-> entity("compute_image", selfLink(computeApi, d))]

computeDisks(d) ==
  [Disk |-> entity("compute_disk", <<"disk:">> \o d.id),
   RegionDisk |-> entity("compute_disk", <<"region_disk:">> \o d.id),
   Snapshot |-> entity("compute_snapshot", <<"snapshot:">> \o d.id)]

computeInstances(d) ==
  [Instance |-> entity("compute_instance", selfLink(computeApi, d))]

computeNetworks(d) ==
  [Firewall |-> entity("compute_firewall", selfLink(computeApi, d)),
   Subnetwork |-> entity("compute_subnetwork", selfLink(computeApi, d)),
   Network |-> entity("compute_network", selfLink(computeApi, d))]

computeAddresses(d) ==
  [Address |-> entity("compute_address", selfLink(computeApi, d)),
   GlobalAddress |-> entity("compute_global_address", selfLink(computeApi, d)),
   ForwardingRule |-> entity("compute_forwarding_rule", selfLink(computeApi, d))]

computeHealthChecks(d) ==
  [HealthCheck |-> entity("compute_health_check", selfLink(computeApi, d))]

computeInstanceGroups(d) ==
  [InstanceGroup |-> entity("compute_instance_group", selfLink(computeApi, d))]

computeBackends(d) ==
  [UrlMap |-> entity("compute_url_map", selfLink(computeApi, d)),
   BackendService |-> entity("compute_backend_service", selfLink(computeApi, d)),
   BackendBucket |-> entity("compute_backend_bucket", selfLink(computeApi, d))]

computeProxies(d) ==
  [TargetSslProxy |-> entity("compute_target_ssl_proxy", selfLink(computeApi, d)),
   TargetHttpsProxy |-> entity("compute_target_https_proxy", selfLink(computeApi, d)),
   TargetHttpProxy |-> entity("compute_target_http_proxy", selfLink(computeApi, d)),
   SslPolicy |-> entity("compute_ssl_policy", selfLink(computeApi, d))]

computeEntities(d) ==
  computeProjectAndImages(d) @@ computeDisks(d) @@ computeInstances(d)
    @@ computeNetworks(d) @@ computeAddresses(d)
    @@ computeHealthChecks(d) @@ computeInstanceGroups(d) @@ computeBackends(d) @@ computeProxies(d)

appEngineEntities(d) ==
  [Application |-> entity("app_engine_application", d.path),
   Service |-> entity("app_engine_service", d.path),
   Version |-> entity("app_engine_version", d.path)]

cloudBillingEntities(d) == [BillingAccount |-> entity("billing_account", d.path)]

\* The id of a bucket is its name.
storageEntities(d) == [Bucket |-> entity("storage_bucket", <<"bucket:", d.last>>)]

\* What the identifier ends with is the id.
dnsEntities(d) ==
  [ManagedZone |-> entity("dns_managed_zone", <<d.last>>),
   Policy |-> entity("dns_policy", <<"projects", ProjectId, "policies", d.last>>)]

spannerEntities(d) ==
  [Instance |-> entity("spanner_instance", d.name),
   Database |-> entity("spanner_database", d.name)]

bigQueryDatasets(d) ==
  [Dataset |-> entity("bigquery_dataset", <<ProjectId, ":", d.path[4]>>)]

bigQueryTables(d) ==
  [Table |-> entity("bigquery_table", <<ProjectId, ":", d.path[4], ".", d.last>>)]

iamEntities(d) ==
  [Role |-> entity("iam_role", d.name),
   ServiceAccount |-> entity("iam_service_account", <<d.last>>),
   ServiceAccountKey |-> entity("iam_service_account_key", d.name)]

pubSubEntities(d) ==
  [Topic |-> entity("pubsub_topic", d.name),
   Subscription |-> entity("pubsub_subscription", d.name)]

\* Without the label of its location, the region is 'null'.
dataprocEntities(d) ==
  [Cluster |-> entity("dataproc_cluster",
     IF d.complete THEN d.path ELSE [d.path EXCEPT ![4] = "null"])]

kmsEntities(d) ==
  [KeyRing |-> entity("kms_key_ring", d.name),
   CryptoKey |-> entity("kms_crypto_key", d.name)]

containerEntities(d) ==
  [Cluster |-> entity("container_cluster", <<"google_container_cluster:">> \o d.id),
   NodePool |-> entity("container_node_pool", selfLink(containerApi, d))]

sqlAdminEntities(d) == [Instance |-> entity(d.database, selfLink(sqlApi, d))]

bigTableEntities(d) ==
  [Instance |-> entity("bigtable_instance", d.name),
   AppProfile |-> entity("bigtable_app_profile", d.name),
   Cluster |-> entity("bigtable_cluster", d.name),
   Backup |-> entity("bigtable_backup", d.name),
   Table |-> entity("bigtable_table", d.name)]

serviceUsageEntities(d) ==
  [Service |-> entity("cloud_api_service",
                      <<"projects", ProjectId, "services", d.last>>)]

\* The sinks of the project only.
loggingEntities(d) ==
  [LogMetric |-> entity("logging_metric", <<d.last>>)]
    @@ IF d.path[1] = "projects"
       THEN [LogSink |-> entity("logging_project_sink",
                                <<"google_logging_log_sink:", d.last>>)]
       ELSE <<>>

certificateAuthorityEntities(d) ==
  [CertificateAuthority |-> entity("privateca_certificate_authority", d.name)]

caPoolEntities(d) == [CaPool |-> entity("privateca_pool", d.name)]

secretManagerEntities(d) ==
  [Secret |-> entity("secret_manager_secret", d.name),
   SecretVersion |-> entity("secret_manager_secret_version", d.name)]

apiGatewayEntities(d) ==
  [Api |-> entity("api_gateway_api", d.name),
   ApiConfig |-> entity("api_gateway_api_config", d.name),
   Gateway |-> entity("api_gateway_gateway", d.name)]

redisEntities(d) == [Instance |-> entity("redis_instance", <<"redis:">> \o d.name)]

memcacheEntities(d) ==
  [Instance |-> entity("memcache_instance", <<"memcached:">> \o d.name)]

\* The name of an alert policy is not the path of its identifier.
monitoringEntities(d) ==
  [AlertPolicy |-> entity("monitoring_alert_policy", [d.name EXCEPT ![3] = "alertPolicies"])]

entitiesOf(domain, d) ==
  CASE domain = "cloudfunctions" -> functionsEntities(d)
    [] domain = "cloudresourcemanager" -> resourceManagerEntities(d)
    [] domain = "run" -> cloudRunEntities(d)
    [] domain = "compute" -> computeEntities(d)
    [] domain = "appengine" -> appEngineEntities(d)
    [] domain = "cloudbilling" -> cloudBillingEntities(d)
    [] domain = "storage" -> storageEntities(d)
    [] domain = "dns" -> dnsEntities(d)
    [] domain = "spanner" -> spannerEntities(d)
    [] domain = "bigquery" -> bigQueryDatasets(d) @@ bigQueryTables(d)
    [] domain = "iam" -> iamEntities(d)
    [] domain = "pubsub" -> pubSubEntities(d)
    [] domain = "dataproc" -> dataprocEntities(d)
    [] domain = "cloudkms" -> kmsEntities(d)
    [] domain = "container" -> containerEntities(d)
    [] domain = "sqladmin" -> sqlAdminEntities(d)
    [] domain = "bigtableadmin" -> bigTableEntities(d)
    [] domain = "serviceusage" -> serviceUsageEntities(d)
    [] domain = "logging" -> loggingEntities(d)
    [] domain = "privateca" -> certificateAuthorityEntities(d) @@ caPoolEntities(d)
    [] domain = "secretmanager" -> secretManagerEntities(d)
    [] domain = "apigateway" -> apiGatewayEntities(d)
    [] domain = "redis" -> redisEntities(d)
    [] domain = "memcache" -> memcacheEntities(d)
    [] domain = "monitoring" -> monitoringEntities(d)
    [] OTHER -> <<>>

entityOf(r, w) ==
  LET entities == entitiesOf(r.kind[1], apiData(r, w))
  IN IF r.kind[2] \in DOMAIN entities THEN entities[r.kind[2]] ELSE None

ingested(r) == entityOf(r, [complete |-> TRUE, namedByNumber |-> FALSE,
                            database |-> "sql_mysql_instance"]) # None

-----------------------------------------------------------------------------
(* resourceKindToTypeMap.ts                                                  *)

NONE == "NO_DIRECT_J1_RESOURCE_YET"

sqlTypes == {"sql_mysql_instance", "sql_postgres_instance",
             "sql_sql_server_instance"}
everyKindUnique == {}  \* mutant

J1_TYPES_WITHOUT_A_UNIQUE_KIND == sqlTypes

computeTypes ==
  [BackendBucket |-> "compute_backend_bucket",
   BackendService |-> "compute_backend_service", Disk |-> "compute_disk",
   Firewall |-> "compute_firewall", HealthCheck |-> "compute_health_check",
   Image |-> "compute_image", Instance |-> "compute_instance",
   InstanceGroup |-> "compute_instance_group", Network |-> "compute_network",
   Project |-> "compute_project", Snapshot |-> "compute_snapshot",
   SslPolicy |-> "compute_ssl_policy", Subnetwork |-> "compute_subnetwork",
   TargetHttpProxy |-> "compute_target_http_proxy",
   TargetHttpsProxy |-> "compute_target_https_proxy",
   TargetSslProxy |-> "compute_target_ssl_proxy", UrlMap |-> "compute_url_map"]

\* The type of the kinds that have one, by their domain.
typesOf(domain) ==
  CASE domain = "cloudfunctions" -> [CloudFunction |-> "cloud_function"]
    [] domain = "cloudresourcemanager" ->
         [Organization |-> "cloud_organization", Folder |-> "cloud_folder",
          Project |-> "cloud_project"]
    [] domain = "run" -> [Service |-> "cloud_run_service"]
    [] domain = "compute" -> computeTypes
    [] domain = "appengine" ->
         [Application |-> "app_engine_application",
          Service |-> "app_engine_service", Version |-> "app_engine_version"]
    [] domain = "cloudbilling" -> [BillingAccount |-> "billing_account"]
    [] domain = "storage" -> [Bucket |-> "storage_bucket"]
    [] domain = "dns" ->
         [ManagedZone |-> "dns_managed_zone", Policy |-> "dns_policy"]
    [] domain = "spanner" ->
         [Instance |-> "spanner_instance", Database |-> "spanner_database"]
    [] domain = "bigquery" ->
         [Dataset |-> "bigquery_dataset", Table |-> "bigquery_table"]
    [] domain = "iam" ->
         [Role |-> "iam_role", ServiceAccount |-> "iam_service_account",
          ServiceAccountKey |-> "iam_service_account_key"]
    [] domain = "pubsub" ->
         [Topic |-> "pubsub_topic", Subscription |-> "pubsub_subscription"]
    [] domain = "dataproc" -> [Cluster |-> "dataproc_cluster"]
    [] domain = "cloudkms" ->
         [KeyRing |-> "kms_key_ring", CryptoKey |-> "kms_crypto_key"]
    [] domain = "container" ->
         [Cluster |-> "container_cluster", NodePool |-> "container_node_pool"]
    [] domain = "bigtableadmin" ->
         [AppProfile |-> "bigtable_app_profile", Backup |-> "bigtable_backup",
          Cluster |-> "bigtable_cluster", Instance |-> "bigtable_instance",
          Table |-> "bigtable_table"]
    [] domain = "serviceusage" -> [Service |-> "cloud_api_service"]
    [] domain = "logging" ->
         [LogSink |-> "logging_project_sink", LogMetric |-> "logging_metric"]
    [] domain = "privateca" ->
         [CertificateAuthority |-> "privateca_certificate_authority"]
    [] domain = "sqladmin" -> [Instance |-> "sql_mysql_instance"]
    [] domain = "apigateway" ->
         [Api |-> "api_gateway_api", ApiConfig |-> "api_gateway_api_config",
          Gateway |-> "api_gateway_gateway"]
    [] domain = "redis" -> [Instance |-> "redis_instance"]
    [] domain = "memcache" -> [Instance |-> "memcache_instance"]
    [] domain = "monitoring" -> [AlertPolicy |-> "monitoring_alert_policy"]
    [] OTHER -> <<>>

\* The kinds the map does not have at all: those of Kubernetes, some under keys
\* with a tab and slashes after the name, and two services.
unmapped(kind) ==
  kind[1] \in {"k8s.io", "rbac.authorization.k8s.io", "servicemanagement",
               "eventarc"}

GOOGLE_RESOURCE_KIND_TO_J1_TYPE_MAP(kind) ==
  IF unmapped(kind) THEN None
  ELSE IF kind[2] \in DOMAIN typesOf(kind[1]) THEN typesOf(kind[1])[kind[2]]
  ELSE NONE

-----------------------------------------------------------------------------
(* typeToKeyGeneratorMap.ts                                                  *)

fullPathKeyMap(identifier) == Tail(identifier)

finalIdentifierKeyMap(identifier) == <<last(identifier)>>

selfLinkKeyMap(identifier) ==
  <<"https:", "", "www.googleapis.com">> \o identifier

customPrefixAndIdKeyMap(prefix, identifier) == <<prefix, last(identifier)>>

bigQueryIdentifier(identifier) ==
  <<identifier[3], ":", identifier[5]>>
    \o IF Len(identifier) >= 7 THEN <<".", identifier[7]>> ELSE <<>>

projectKeyUncached(identifier, w) == finalIdentifierKeyMap(identifier)  \* mutant

\* getProjectNameFromId: what the steps of the project, or of the organization,
\* have cached under the id.
projectKey(identifier, w) ==
  IF w.cached /\ last(identifier) = ProjectId
  THEN <<"projects", NumberOf[ProjectId]>>
  ELSE finalIdentifierKeyMap(identifier)

prefixOf(type) ==
  CASE type = "compute_disk" -> "disk:"
    [] type = "compute_snapshot" -> "snapshot:"
    [] type = "storage_bucket" -> "bucket:"
    [] type = "container_cluster" -> "google_container_cluster:"
    [] type = "logging_project_sink" -> "google_logging_log_sink:"
    [] type = "redis_instance" -> "redis:"
    [] type = "memcache_instance" -> "memcached:"

prefixedTypes == {"compute_disk", "compute_snapshot", "storage_bucket",
                  "container_cluster", "logging_project_sink",
                  "redis_instance", "memcache_instance"}

selfLinkTypes ==
  sqlTypes \cup {"container_node_pool"}
    \cup {computeTypes[kind] : kind \in DOMAIN computeTypes \ {"Disk", "Snapshot"}}

finalTypesWithKey ==  \* mutant
  {"dns_managed_zone", "iam_service_account", "logging_metric",
   "spanner_database"}

finalTypes == {"dns_managed_zone", "iam_service_account", "logging_metric"}

\* Every type of typesOf has a generator; the rest have the full path.
generateKey(type, identifier, w) ==
  CASE type = "cloud_project" -> projectKey(identifier, w)
    [] type = "iam_role" -> None
    [] type \in {"bigquery_dataset", "bigquery_table"} ->
         bigQueryIdentifier(identifier)
    [] type \in selfLinkTypes -> selfLinkKeyMap(identifier)
    [] type \in prefixedTypes ->
         customPrefixAndIdKeyMap(prefixOf(type), identifier)
    [] type \in finalTypes -> finalIdentifierKeyMap(identifier)
    [] OTHER -> fullPathKeyMap(identifier)

-----------------------------------------------------------------------------
(* The job state, and the relationship of a binding                          *)

\* The identifier the policy has of the resource.
identifier ==
  IF world.byNumber THEN <<resource.identifier[1]>> \o byNumber(Tail(resource.identifier))
  ELSE resource.identifier

\* The entities of all resources, and who they are of.
entitiesWhen ==
  [named \in BOOLEAN |->
     { [of |-> r,
        key |-> entityOf(r, [complete |-> TRUE, namedByNumber |-> named,
                             database |-> "sql_mysql_instance"]).key] :
         r \in {r \in Resources : ingested(r)} }]

\* The steps have added the entities of all resources, but for that of this
\* one, when its step has not run, or was refused.
jobState ==
  {e \in entitiesWhen[world.namedByNumber] : e.of # resource}
    \cup IF world.fetched
         THEN {[of |-> resource, key |-> entityOf(resource, world).key]} ELSE {}

Worlds(r) ==
  { w \in [byNumber : BOOLEAN, namedByNumber : BOOLEAN, complete : BOOLEAN,
           fetched : BOOLEAN, cached : BOOLEAN, database : sqlTypes] :
      /\ w.fetched => ingested(r)
      /\ ~w.complete => r.kind \in {<<"run", "Service">>, <<"dataproc", "Cluster">>}
      /\ w.database # "sql_mysql_instance" => r.kind[1] = "sqladmin"
      /\ ~w.cached => r.kind = <<"cloudresourcemanager", "Project">> /\ ~w.fetched }

\* The handler keeps nothing from one binding to the next: one is enough.
Init ==
  /\ pc = "kind"
  /\ resource \in Resources
  /\ world \in Worlds(resource)
  /\ response = [kind |-> None, type |-> None, key |-> None]
  /\ targetType = None
  /\ relationship = None

FindKind ==
  /\ pc = "kind"
  /\ \/ /\ kindsOf(identifier) = {}
        /\ pc' = "done"
        /\ UNCHANGED response
     \/ /\ \E kind \in kindsOf(identifier) :
             response' = [response EXCEPT !.kind = kind]
        /\ pc' = "type"
  /\ UNCHANGED <<resource, world, targetType, relationship>>

FindType ==
  /\ pc = "type"
  /\ targetType' = GOOGLE_RESOURCE_KIND_TO_J1_TYPE_MAP(response.kind)
  /\ response' =
       IF targetType' \in J1_TYPES_WITHOUT_A_UNIQUE_KIND THEN response
       ELSE [response EXCEPT !.type = targetType']
  /\ pc' = IF targetType' \in {None, NONE} THEN "done" ELSE "key"
  /\ UNCHANGED <<resource, world, relationship>>

GenerateKey ==
  /\ pc = "key"
  /\ response' = [response EXCEPT !.key = generateKey(targetType, identifier, world)]
  /\ pc' = IF response'.key = None THEN "done" ELSE "relationship"
  /\ UNCHANGED <<resource, world, targetType, relationship>>

\* A direct relationship to the entity that has the key, or one that is mapped
\* to wherever an entity with the key and the type may be.
AddRelationship ==
  /\ pc = "relationship"
  /\ \/ \E e \in jobState :
          /\ e.key = response.key
          /\ relationship' = [direct |-> TRUE, to |-> e.of]
     \/ /\ \A e \in jobState : e.key # response.key
        /\ relationship' = [direct |-> FALSE, to |-> None]
  /\ pc' = "done"
  /\ UNCHANGED <<resource, world, response, targetType>>

Next ==
  \/ FindKind
  \/ FindType
  \/ GenerateKey
  \/ AddRelationship

Spec == Init /\ [][Next]_vars

-----------------------------------------------------------------------------
(* Properties                                                                *)

TypeOK ==
  /\ pc \in {"kind", "type", "key", "relationship", "done"}
  /\ resource \in Resources
  /\ world \in Worlds(resource)
  /\ response.kind \in {None} \cup kindsOf(identifier)
  /\ pc = "relationship" => response.key \in Seq(STRING)
  /\ relationship # None => relationship.direct \in BOOLEAN

\* Entities that are keyed by their selfLink. The generator leaves out the
\* version of the API, and takes all services to be at www.googleapis.com.
keyedBySelfLink ==
  {<<"compute", kind>> : kind \in DOMAIN computeTypes \ {"Disk", "Snapshot"}}
    \cup {<<"container", "NodePool">>, <<"sqladmin", "Instance">>}

\* Keyed by an id, where the identifier has a name.
keyedById ==
  {<<"compute", "Disk">>, <<"compute", "Snapshot">>, <<"container", "Cluster">>}

\* Keyed by a prefix and the whole path, where the generator takes its last
\* part, or by a path of the API's own.
keyedByPath ==
  {<<"redis", "Instance">>, <<"memcache", "Instance">>,
   <<"monitoring", "AlertPolicy">>}

\* Ingested, and yet NONE in the map from kinds to types.
withoutType ==
  {<<"compute", "RegionDisk">>, <<"compute", "Address">>,
   <<"compute", "GlobalAddress">>, <<"compute", "ForwardingRule">>,
   <<"privateca", "CaPool">>, <<"secretmanager", "Secret">>,
   <<"secretmanager", "SecretVersion">>}

reachable ==
  /\ kindsOf(identifier) # {}
  /\ resource.kind \notin UNION {keyedBySelfLink, keyedById, keyedByPath,
                                 withoutType, {<<"iam", "Role">>}}

\* The keys that have the id of the project, whatever the API calls it.
keyedByProjectId ==
  {<<"cloudresourcemanager", "Project">>, <<"run", "Service">>,
   <<"bigquery", "Dataset">>, <<"bigquery", "Table">>, <<"dns", "Policy">>,
   <<"dataproc", "Cluster">>, <<"serviceusage", "Service">>,
   <<"iam", "ServiceAccount">>, <<"iam", "ServiceAccountKey">>}

\* The policy and the entity name the project and the service account alike.
namedAlike ==
  IF resource.kind \in keyedByProjectId THEN ~world.byNumber
  ELSE world.byNumber = world.namedByNumber

\* Instances of Spanner and of Bigtable, of one project and one name, have the
\* same name to the API, and so the same key: only the first is added.
keyShared == {<<"spanner", "Instance">>, <<"bigtableadmin", "Instance">>}

\* No identifier is taken for another kind of resource: of the 154 formats, all
\* that match it are of its kind (findResourceKindFromCloudResourceIdentifier
\* takes the first).
KindUnambiguous == kindsOf(identifier) \subseteq {resource.kind}

\* A binding finds the entity of the resource it is bound to, when the step of
\* its service has added that, if and only if the resource is of one of the
\* kinds whose key generator and whose converter agree
\* (J1_TYPE_TO_KEY_GENERATOR_MAP and the converters of src/steps).
EntityFound ==
  /\ pc = "done" /\ world.fetched /\ world.complete /\ namedAlike
  /\ resource.kind \notin keyShared
  =>
    (relationship = [direct |-> TRUE, to |-> resource] <=> reachable)

\* A binding is never related to the entity of another resource, but for the
\* log sinks of a folder, an organization or a billing account: these have the
\* key of a sink of the project with the same name (getLogingProjectSinkId).
\* An instance of Spanner may be taken for one of Bigtable, and vice versa.
NoOtherEntity ==
  pc = "done" /\ relationship # None /\ relationship.direct =>
      \/ relationship.to = resource
      \/ resource.kind[2] = "LogSink" /\ resource.identifier[2] # "projects"
      \/ {resource.kind, relationship.to.kind} = keyShared

\* The type a mapped relationship looks for is that of the entity the converter
\* makes, and the kinds said to be without an entity are without one, but for
\* seven (GOOGLE_RESOURCE_KIND_TO_J1_TYPE_MAP).
TypeOfTheEntity ==
  response.type # None /\ ingested(resource) =>
    IF response.type = NONE THEN resource.kind \in withoutType
    ELSE response.type = entityOf(resource, world).type

\* Violated. 'ex: https://www.googleapis.com/compute/v1/projects/...': the
\* key generated of a compute resource is its selfLink, by which its entity is
\* found (selfLinkKeyMap).
SelfLinkFound ==
  pc = "done" /\ world.fetched /\ namedAlike /\ targetType \in selfLinkTypes =>
    relationship = [direct |-> TRUE, to |-> resource]
===============================================================================
