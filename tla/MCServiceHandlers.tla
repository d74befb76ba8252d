--------------------------- MODULE MCServiceHandlers ---------------------------
(*****************************************************************************)
(* ServiceHandlers over small projects, one for each service or two.         *)
(*****************************************************************************)
EXTENDS ServiceHandlers

buildLocations == <<"us-a", "us-b">>
kmsLocations == <<"eur", "us">>
regions == <<"us-a", "us-b">>

In(e, kind, name) == [kind |-> kind, in |-> e, name |-> name]
P(kind, name) == In("project", kind, name)

ref(from, field, to) == [from |-> from, field |-> field, to |-> to]

cloudOf(references, others, ids) ==
  [resources |-> others \cup UNION {{x.from, x.to} : x \in references},
   references |-> references, emptyLists |-> {}, steps |-> UNION {Catalog!cone(id) : id \in ids}]

bucket == P("storage_bucket", "b")
bucket2 == P("storage_bucket", "b2")
account == P("iam_service_account", "sa")
ring == In("us", "kms_key_ring", "ring")
key == In("ring", "kms_crypto_key", "k")
foreignKey == In("ring of another project", "kms_crypto_key", "k2")
network == P("compute_network", "n")

-----------------------------------------------------------------------------
own == In("acct", "cloud_project", "own")
other == In("acct", "cloud_project", "other")
perimeter == In("ap", "service_perimeter", "sp")
egress == In("sp", "egress_policy", "e")
dryRunEgress == In("sp", "egress_policy", "dry")
service == In("any", "cloud_api_service", "bq")

perimeters ==
  cloudOf({ref(perimeter, "status.egressPolicies", egress),
           ref(perimeter, "spec.egressPolicies", dryRunEgress),
           ref(dryRunEgress, "operations", In("dry", "api_operation", "o")),
           ref(In("dry", "api_operation", "o"), "methodSelectors", In("o", "method_selector", "m")),
           ref(perimeter, "status.ingressPolicies", In("sp", "ingress_policy", "i")),
           ref(perimeter, "status.resources", own),
           ref(perimeter, "status.resources", other),
           ref(perimeter, "status.restrictedServices", service)},
          {P("access_policy", "ap"), In("ap", "access_level", "al")},
          {"fetch-access-context-manager-access-levels",
           "fetch-access-context-manager-service-perimeters"})

\* A dry run without egress policies, whose list of ingress policies is empty.
emptyDryRun ==
  [cloudOf({ref(perimeter, "status.egressPolicies", egress),
            ref(perimeter, "status.ingressPolicies", In("sp", "ingress_policy", "i")),
            ref(perimeter, "spec.resources", own)},
           {P("access_policy", "ap")}, {"fetch-access-context-manager-service-perimeters"})
     EXCEPT !.emptyLists = {<<perimeter, "spec.ingressPolicies">>}]

gateways ==
  cloudOf({ref(In("api", "api_gateway_api_config", "c1"), "gatewayServiceAccount", account),
           ref(P("api_gateway_gateway", "g"), "apiConfig", P("api_gateway_api", "api"))},
          {In("api2", "api_gateway_api_config", "c2"), P("api_gateway_api", "api2")},
          {"fetch-api-gateway-api-configs", "fetch-api-gateway-gateways"})

app == P("app_engine_application", "app")
version(name) == In("default", "app_engine_version", name)

appEngine ==
  cloudOf({ref(app, "defaultBucket", bucket), ref(app, "codeBucket", bucket2),
           ref(version("v1"), "createdBy", account),
           ref(version("v2"), "createdBy", P("google_user", "someone"))},
          {P("app_engine_service", "default"), In("v1", "app_engine_instance", "i")},
          {"fetch-app-engine-instances", "build-app-engine-application-bucket-relationships"})

oneBucket ==
  cloudOf({ref(app, "defaultBucket", bucket), ref(app, "codeBucket", bucket)}, {},
          {"build-app-engine-application-bucket-relationships"})

bigQuery ==
  cloudOf({ref(P("bigquery_dataset", "d1"), "kmsKeyName", key),
           ref(P("bigquery_dataset", "d2"), "kmsKeyName", foreignKey)},
          {In("d1", "bigquery_table", "t1"), In("d1", "bigquery_table", "t2"),
           In("d2", "bigquery_model", "m"), ring},
          {"fetch-big-query-models", "fetch-big-query-tables",
           "build-big-query-dataset-kms-relationships"})

cluster == In("bt", "bigtable_cluster", "c")

bigTable ==
  cloudOf({ref(cluster, "kmsKeyName", key),
           ref(In("c", "bigtable_backup", "bk"), "sourceTable", In("bt", "bigtable_table", "t"))},
          {P("bigtable_instance", "bt"), In("bt", "bigtable_app_profile", "ap"), ring},
          {"fetch-bigtable-backups"})

budgets ==
  cloudOf({ref(In("acct", "billing_budget", "bb1"), "projects", own),
           ref(In("acct", "billing_budget", "bb1"), "projects", other)},
          {P("billing_account", "acct"), In("acct", "billing_budget", "bb2"),
           P("binary_authorization_policy", "policy")},
          {"build-account-budget", "build-project-budget", "build-additional-project-budget"})

binaryAuthorization ==
  cloudOf({}, {own, P("binary_authorization_policy", "policy")},
          {"fetch-binary-authorization-policy"})

build == P("cloud_build", "build")
trigger == P("cloud_build_trigger", "trigger")
ghe == P("github_enterprise_config", "ghe")

builds ==
  cloudOf({ref(build, "buildTriggerId", trigger),
           ref(build, "repoSource", P("cloud_source_repository", "repo")),
           ref(trigger, "enterpriseConfigResourceName", ghe),
           ref(trigger, "github", P("github_repo", "gh"))}, {},
          {"build-cloud-build-trigger-triggers-build-relationships",
           "build-cloud-build-uses-source-repo-relationships",
           "build-cloud-build-trigger-uses-github-repo"})

buildSources ==
  cloudOf({ref(P("cloud_build", "build2"), "storageSource", bucket)},
          {P("bitbucket_server_config", "bbs"), In("bbs", "bitbucket_server_repo", "r1"),
           In("bbs", "bitbucket_server_repo", "r2"),
           In("us-a", "cloud_build_worker_pool", "w1"), In("us-b", "cloud_build_worker_pool", "w2"),
           In("us-new", "cloud_build_worker_pool", "w3")},
          {"build-cloud-build-uses-storage-bucket-relationships", "fetch-cloud-build-bb-repos",
           "fetch-cloud-build-worker-pools"})

cloudRun ==
  cloudOf({ref(P("cloud_run_route", "r"), "ownerReferences", P("cloud_run_service", "s")),
           ref(P("cloud_run_configuration", "c"), "ownerReferences", P("cloud_run_service", "s"))},
          {P("cloud_run_service", "s2"), P("cloud_run_route", "r2")},
          {"fetch-cloud-run-routes", "fetch-cloud-run-configurations"})

pool == In("gke", "container_node_pool", "np")

containers ==
  cloudOf({ref(P("container_cluster", "gke"), "nodePools", pool),
           ref(pool, "instanceGroupUrls", P("compute_instance_group", "ig"))}, {},
          {"fetch-container-clusters"})

dataproc1 == In("us-a", "dataproc_cluster", "dp1")
dataproc2 == In("us-b", "dataproc_cluster", "dp2")

dataproc ==
  cloudOf({ref(dataproc1, "gcePdKmsKeyName", key), ref(dataproc2, "gcePdKmsKeyName", foreignKey),
           ref(dataproc1, "configBucket", bucket), ref(dataproc1, "tempBucket", bucket)},
          {In("us-new", "dataproc_cluster", "dp3"), ring},
          {"build-dataproc-cluster-kms-relationships", "create-cluster-storage-relationships"})

dataprocImages ==
  cloudOf({ref(dataproc1, "masterConfigImageUri", P("compute_image", "debian"))}, {},
          {"create-cluster-image-relationships"})

function == P("cloud_function", "f")
function2 == P("cloud_function", "f2")
repository == P("cloud_source_repository", "repo")

functions ==
  cloudOf({ref(function, "serviceAccountEmail", account), ref(function, "sourceRepository.url", repository),
           ref(function2, "sourceRepository.url of a revision", repository),
           ref(function2, "sourceArchiveUrl", bucket)}, {},
          {"build-cloud-function-service-account-relationships",
           "build-cloud-function-source-repo-relationships",
           "build-cloud-function-storage-bucket-relationships"})

errors == P("logging_metric", "errors")
errors5xx == P("logging_metric", "errors_5xx")

logging ==
  cloudOf({ref(P("logging_project_sink", "sink"), "destination", bucket),
           ref(P("monitoring_alert_policy", "alert"), "conditionFilters", errors5xx),
           ref(errors5xx, "a name it contains", errors)}, {},
          {"build-logging-project-sink-bucket-relationships", "fetch-logging-metrics"})

memcache == P("memcache_instance", "mc")

networked ==
  cloudOf({ref(memcache, "memcacheNodes", In("mc", "memcache_instance_node", "node")),
           ref(memcache, "authorizedNetwork", network),
           ref(P("redis_instance", "redis"), "authorizedNetwork", network),
           ref(P("dns_policy", "dns"), "networks", network)},
          {},
          {"build-memcache-instance-network-relationships",
           "build-redis-instance-network-relationships", "fetch-dns-policies"})

zones ==
  cloudOf({}, {P("dns_managed_zone", "zone"), P("dns_managed_zone", "zone2")},
          {"fetch-dns-managed-zones"})

ca(name) == In("pool", "privateca_certificate_authority", name)
certificate(name) == In("pool", "privateca_certificate", name)

certificates(authorities) ==
  cloudOf({ref(ca("ca1"), "gcsBucket", bucket), ref(certificate("cert1"), "issuer", ca("ca1"))},
          {P("privateca_pool", "pool"), certificate("cert2")} \cup {ca(name) : name \in authorities},
          {"fetch-private-ca-certificates",
           "build-private-ca-certificate-authority-bucket-relationships"})

topic == P("pubsub_topic", "t")

pubSub ==
  cloudOf({ref(topic, "kmsKeyName", key), ref(P("pubsub_topic", "t2"), "kmsKeyName", foreignKey),
           ref(P("pubsub_subscription", "sub"), "topic", topic)}, {ring},
          {"build-pubsub-topic-kms-relationships", "fetch-pubsub-subscriptions"})

spannerInstance == P("spanner_instance", "si")

spanner ==
  cloudOf({ref(spannerInstance, "config", P("spanner_instance_config", "regional")),
           ref(In("si", "spanner_database", "db"), "kmsKeyName", key),
           ref(In("si", "spanner_database", "db2"), "kmsKeyName", foreignKey)}, {ring},
          {"fetch-spanner-instance-databases"})

\* Spanner and Bigtable instances of the same names: each step may be the
\* first to one of them.
instances ==
  cloudOf({ref(P("spanner_instance", "i1"), "config", P("spanner_instance_config", "regional"))},
          {P("spanner_instance", "i2"), P("bigtable_instance", "i1"), P("bigtable_instance", "i2"),
           In("i1", "bigtable_table", "t"), In("i2", "bigtable_table", "t")},
          {"fetch-spanner-instances", "fetch-bigtable-tables"})

sql ==
  cloudOf({ref(P("sql_instance", "mysql"), "kmsKeyName", key),
           ref(P("sql_instance", "postgres"), "kmsKeyName", foreignKey)},
          {ring, In("eur", "kms_key_ring", "ring2"), own},
          {"build-sql-admin-instance-kms-key-relationships"})

secretsAndScans ==
  cloudOf({}, {P("secret", "s1"), P("secret", "s2"), In("s1", "secret_version", "1"),
               In("s2", "secret_version", "1"), P("scan_config", "scan"), In("scan", "scan_run", "r1"),
               In("scan", "scan_run", "r2")},
          {"fetch-secret-versions", "fetch-scan-runs"})

clouds ==
  { perimeters, emptyDryRun, gateways, appEngine, oneBucket, bigQuery, bigTable, budgets,
    binaryAuthorization, builds, buildSources, cloudRun, containers, dataproc,
    dataprocImages, functions, logging, networked, zones,
    certificates({"ca1"}), certificates({"ca1", "ca2"}), pubSub, spanner, instances,
    sql,
    secretsAndScans }
===============================================================================
