----------------------------- MODULE ServiceSteps -----------------------------
(*****************************************************************************)
(* The steps of the remaining services, in the order of the directories of   *)
(* src/steps.                                                                *)
(*****************************************************************************)
EXTENDS StepRecords

-----------------------------------------------------------------------------
(* src/steps/api-gateway *)

fetchApiGatewayApis == Handler({}, {"api_gateway_api"})

fetchApiGatewayApiConfigs ==
  Handler({"api_gateway_api", "iam_service_account"},
          {"api_gateway_api_config"})

fetchApiGatewayGateways ==
  Handler({"api_gateway_api"}, {"api_gateway_gateway"})

apiGatewaySteps ==
  { Step("fetch-api-gateway-apis", {}, fetchApiGatewayApis),
    Step("fetch-api-gateway-api-configs",
         {"fetch-api-gateway-apis", "fetch-iam-service-accounts"},
         fetchApiGatewayApiConfigs),
    Step("fetch-api-gateway-gateways",
         {"fetch-api-gateway-apis"},
         fetchApiGatewayGateways) }

-----------------------------------------------------------------------------
(* src/steps/app-engine *)

fetchAppEngineApplication == Handler({}, {"app_engine_application"})

buildAppEngineApplicationUsesBucketRelationships ==
  Handler({"app_engine_application", "storage_bucket"}, {})

fetchAppEngineServices ==
  Handler({"app_engine_application"}, {"app_engine_service"})

fetchAppEngineServiceVersions ==
  Handler({"app_engine_service", "iam_service_account"},
          {"app_engine_version"})

fetchAppEngineVersionInstances ==
  Handler({"app_engine_version"}, {"app_engine_instance"})

appEngineSteps ==
  { Step("fetch-app-engine-application", {}, fetchAppEngineApplication),
    Step("build-app-engine-application-bucket-relationships",
         {"fetch-app-engine-application", "fetch-cloud-storage-buckets"},
         buildAppEngineApplicationUsesBucketRelationships),
    Step("fetch-app-engine-services",
         {"fetch-app-engine-application"},
         fetchAppEngineServices),
    Step("fetch-app-engine-versions",
         {"fetch-app-engine-services", "fetch-iam-service-accounts"},
         fetchAppEngineServiceVersions),
    Step("fetch-app-engine-instances",
         {"fetch-app-engine-versions"},
         fetchAppEngineVersionInstances) }

-----------------------------------------------------------------------------
(* src/steps/big-query *)

fetchBigQueryDatasets == Handler({}, {"bigquery_dataset"})

buildBigQueryDatasetKMSRelationships ==
  Handler({"bigquery_dataset", "kms_crypto_key"}, {})

fetchBigQueryModels == Handler({"bigquery_dataset"}, {"bigquery_model"})

fetchBigQueryTables == Handler({"bigquery_dataset"}, {"bigquery_table"})

bigQuerySteps ==
  { Step("fetch-big-query-datasets", {}, fetchBigQueryDatasets),
    Step("build-big-query-dataset-kms-relationships",
         {"fetch-kms-keys", "fetch-big-query-datasets"},
         buildBigQueryDatasetKMSRelationships),
    Step("fetch-big-query-models",
         {"fetch-big-query-datasets"},
         fetchBigQueryModels),
    Step("fetch-big-query-tables",
         {"fetch-big-query-datasets"},
         fetchBigQueryTables) }

-----------------------------------------------------------------------------
(* src/steps/big-table *)

fetchInstances == Handler({}, {"bigtable_instance"})

fetchAppProfiles == Handler({"bigtable_instance"}, {"bigtable_app_profile"})

fetchClusters ==
  Handler({"bigtable_instance", "kms_crypto_key"}, {"bigtable_cluster"})

fetchBackups ==
  Handler({"bigtable_cluster", "bigtable_table"}, {"bigtable_backup"})

fetchTables == Handler({"bigtable_instance"}, {"bigtable_table"})

bigTableSteps ==
  { Step("fetch-bigtable-instances", {}, fetchInstances),
    Step("fetch-bigtable-app-profiles",
         {"fetch-bigtable-instances"},
         fetchAppProfiles),
    Step("fetch-bigtable-clusters",
         {"fetch-bigtable-instances"},
         fetchClusters),
    Step("fetch-bigtable-backups",
         {"fetch-bigtable-instances", "fetch-bigtable-clusters",
          "fetch-bigtable-tables", "fetch-kms-keys"},
         fetchBackups),
    Step("fetch-bigtable-tables", {"fetch-bigtable-instances"}, fetchTables) }

-----------------------------------------------------------------------------
(* src/steps/cloud-run *)

fetchCloudRunServices == Handler({}, {"cloud_run_service"})

fetchCloudRunRoutes == Handler({"cloud_run_service"}, {"cloud_run_route"})

fetchCloudRunConfigurations ==
  Handler({"cloud_run_service"}, {"cloud_run_configuration"})

cloudRunSteps ==
  { Step("fetch-cloud-run-services", {}, fetchCloudRunServices),
    Step("fetch-cloud-run-routes",
         {"fetch-cloud-run-services"},
         fetchCloudRunRoutes),
    Step("fetch-cloud-run-configurations",
         {"fetch-cloud-run-services"},
         fetchCloudRunConfigurations) }

-----------------------------------------------------------------------------
(* src/steps/containers *)

fetchContainerClusters ==
  Handler({"compute_instance_group"},
          {"container_cluster", "container_node_pool"})

containerSteps ==
  { Step("fetch-container-clusters",
         {"fetch-compute-instance-groups"},
         fetchContainerClusters) }

-----------------------------------------------------------------------------
(* src/steps/dataproc *)

fetchDataprocClusters == Handler({}, {"dataproc_cluster"})

buildDataprocClusterUsesKmsRelationships ==
  Handler({"dataproc_cluster", "kms_crypto_key"}, {})

createClusterImageRelationships ==
  Handler({"dataproc_cluster", "compute_image"}, {})

createClusterStorageRelationships ==
  Handler({"dataproc_cluster", "storage_bucket"}, {})

dataprocSteps ==
  { Step("fetch-dataproc-clusters", {}, fetchDataprocClusters),
    Step("build-dataproc-cluster-kms-relationships",
         {"fetch-dataproc-clusters", "fetch-kms-keys"},
         buildDataprocClusterUsesKmsRelationships),
    Step("create-cluster-image-relationships",
         {"fetch-dataproc-clusters", "fetch-compute-images"},
         createClusterImageRelationships),
    Step("create-cluster-storage-relationships",
         {"fetch-dataproc-clusters", "fetch-cloud-storage-buckets"},
         createClusterStorageRelationships) }

-----------------------------------------------------------------------------
(* src/steps/dns *)

fetchDNSManagedZones == Handler({}, {"dns_managed_zone"})

fetchDNSPolicies == Handler({"compute_network"}, {"dns_policy"})

dnsManagedZonesSteps ==
  { Step("fetch-dns-managed-zones", {}, fetchDNSManagedZones),
    Step("fetch-dns-policies", {"fetch-compute-networks"}, fetchDNSPolicies) }

-----------------------------------------------------------------------------
(* src/steps/functions *)

fetchCloudFunctions == Handler({}, {"cloud_function"})

buildCloudFunctionServiceAccountRelationships ==
  Handler({"cloud_function", "iam_service_account"}, {})

buildCloudFunctionSourceRepoRelationships ==
  Handler({"cloud_function", "cloud_source_repository"}, {})

buildCloudFunctionStorageBucketRelationships ==
  Handler({"cloud_function", "storage_bucket"}, {})

functionsSteps ==
  { Step("fetch-cloud-functions", {}, fetchCloudFunctions),
    Step("build-cloud-function-service-account-relationships",
         {"fetch-cloud-functions", "fetch-iam-service-accounts"},
         buildCloudFunctionServiceAccountRelationships),
    Step("build-cloud-function-source-repo-relationships",
         {"fetch-cloud-functions", "fetch-cloud-source-repositories"},
         buildCloudFunctionSourceRepoRelationships),
    Step("build-cloud-function-storage-bucket-relationships",
         {"fetch-cloud-functions", "fetch-cloud-storage-buckets"},
         buildCloudFunctionStorageBucketRelationships) }

-----------------------------------------------------------------------------
(* src/steps/logging *)

fetchSinks == Handler({}, {"logging_project_sink"})

buildSinkUsesBucketRelationships ==
  Handler({"logging_project_sink", "storage_bucket"}, {})

fetchMetrics == Handler({"monitoring_alert_policy"}, {"logging_metric"})

loggingSteps ==
  { Step("fetch-logging-project-sinks", {}, fetchSinks),
    Step("build-logging-project-sink-bucket-relationships",
         {"fetch-logging-project-sinks", "fetch-cloud-storage-buckets"},
         buildSinkUsesBucketRelationships),
    Step("fetch-logging-metrics",
         {"fetch-monitoring-alert-policies"},
         fetchMetrics) }

-----------------------------------------------------------------------------
(* src/steps/memcache *)

fetchMemcacheInstances ==
  Handler({}, {"memcache_instance", "memcache_instance_node"})

buildMemcacheInstancesUsesNetworkRelationships ==
  Handler({"memcache_instance", "compute_network"}, {})

memcacheSteps ==
  { Step("fetch-memcache-instances", {}, fetchMemcacheInstances),
    Step("build-memcache-instance-network-relationships",
         {"fetch-memcache-instances", "fetch-compute-networks"},
         buildMemcacheInstancesUsesNetworkRelationships) }

-----------------------------------------------------------------------------
(* src/steps/monitoring *)

fetchAlertPolicies == Handler({}, {"monitoring_alert_policy"})

monitoringSteps ==
  { Step("fetch-monitoring-alert-policies", {}, fetchAlertPolicies) }

-----------------------------------------------------------------------------
(* src/steps/privateca *)

fetchAuthorityCertificatesStepMap ==
  Step("fetch-private-ca-certificates",
       {"fetch-private-ca-certificate-authorities"},
       Handler({"privateca_certificate_authority"}, {"privateca_certificate"}))

buildCertificateAuthorityBucketRelationshipsStepMap ==
  Step("build-private-ca-certificate-authority-bucket-relationships",
       {"fetch-private-ca-certificate-authorities",
        "fetch-cloud-storage-buckets"},
       Handler({"privateca_certificate_authority", "storage_bucket"}, {}))

fetchCaPoolsStepMap ==
  Step("fetch-private-ca-pools", {},
       Handler({}, {"privateca_pool"}))

fetchCertificateAuthoritiesStepMap ==
  Step("fetch-private-ca-certificate-authorities", {"fetch-private-ca-pools"},
       Handler({"privateca_pool"}, {"privateca_certificate_authority"}))

privateCaSteps ==
  { fetchCaPoolsStepMap,
    fetchAuthorityCertificatesStepMap,
    fetchCertificateAuthoritiesStepMap,
    buildCertificateAuthorityBucketRelationshipsStepMap }

-----------------------------------------------------------------------------
(* src/steps/pub-sub *)

fetchPubSubTopics == Handler({}, {"pubsub_topic"})

buildPubSubTopicKMSRelationships ==
  Handler({"pubsub_topic", "kms_crypto_key"}, {})

fetchPubSubSubscriptions == Handler({"pubsub_topic"}, {"pubsub_subscription"})

pubSubSteps ==
  { Step("fetch-pubsub-topics", {}, fetchPubSubTopics),
    Step("build-pubsub-topic-kms-relationships",
         {"fetch-pubsub-topics", "fetch-kms-keys"},
         buildPubSubTopicKMSRelationships),
    Step("fetch-pubsub-subscriptions",
         {"fetch-pubsub-topics"},
         fetchPubSubSubscriptions) }

-----------------------------------------------------------------------------
(* src/steps/redis *)

fetchRedisInstances == Handler({}, {"redis_instance"})

buildRedisInstanceUsesNetworkRelationships ==
  Handler({"redis_instance", "compute_network"}, {})

redisSteps ==
  { Step("fetch-redis-instances", {}, fetchRedisInstances),
    Step("build-redis-instance-network-relationships",
         {"fetch-redis-instances", "fetch-compute-networks"},
         buildRedisInstanceUsesNetworkRelationships) }

-----------------------------------------------------------------------------
(* src/steps/spanner *)

fetchSpannerInstanceConfigs == Handler({}, {"spanner_instance_config"})

fetchSpannerInstances ==
  Handler({"spanner_instance_config"}, {"spanner_instance"})

fetchSpannerInstanceDatabases ==
  Handler({"spanner_instance", "kms_crypto_key"}, {"spanner_database"})

spannerSteps ==
  { Step("fetch-spanner-instance-configs", {}, fetchSpannerInstanceConfigs),
    Step("fetch-spanner-instances",
         {"fetch-spanner-instance-configs"},
         fetchSpannerInstances),
    Step("fetch-spanner-instance-databases",
         {"fetch-spanner-instances", "fetch-kms-keys"},
         fetchSpannerInstanceDatabases) }

-----------------------------------------------------------------------------
(* src/steps/sql-admin *)

fetchSQLAdminInstances == Handler({}, {"sql_instance"})

buildSqlAdminInstanceKmsKeyRelationships ==
  Handler({"sql_instance", "kms_crypto_key"}, {})

sqlAdminSteps ==
  { Step("fetch-sql-admin-instances",
         {"fetch-resource-manager-project"},
         fetchSQLAdminInstances),
    Step("build-sql-admin-instance-kms-key-relationships",
         {"fetch-sql-admin-instances", "fetch-kms-key-rings",
          "fetch-kms-keys"},
         buildSqlAdminInstanceKmsKeyRelationships) }

-----------------------------------------------------------------------------
(* src/steps/storage *)

fetchStorageBuckets == Handler({}, {"storage_bucket"})

storageSteps ==
  { Step("fetch-cloud-storage-buckets", {}, fetchStorageBuckets) }

-----------------------------------------------------------------------------
(* src/steps/web-security-scanner *)

fetchScanConfigsStepMap ==
  Step("fetch-scan-configs", {},
       Handler({}, {"scan_config"}))

fetchScanRunsStepMap ==
  Step("fetch-scan-runs", {"fetch-scan-configs"},
       Handler({"scan_config"}, {"scan_run"}))

webSecurityScannerSteps ==
  { fetchScanConfigsStepMap,
    fetchScanRunsStepMap }

-----------------------------------------------------------------------------
(* src/steps/secret-manager *)

fetchSecrets == Handler({}, {"secret"})

fetchSecretVersions == Handler({"secret"}, {"secret_version"})

secretManagerSteps ==
  { Step("fetch-secrets", {}, fetchSecrets),
    Step("fetch-secret-versions", {"fetch-secrets"}, fetchSecretVersions) }

-----------------------------------------------------------------------------
(* src/steps/cloud-build, src/steps/cloud-source-repositories *)

fetchCloudBuildStep ==
  Step("fetch-cloud-builds", {},
       Handler({}, {"cloud_build"}))

fetchCloudBuildTriggerStep ==
  Step("fetch-cloud-build-triggers", {},
       Handler({}, {"cloud_build_trigger"}))

fetchCloudBuildWorkerPoolsStep ==
  Step("fetch-cloud-build-worker-pools", {},
       Handler({}, {"cloud_build_worker_pool"}))

fetchCloudBuildGithubEnterpriseConfigStep ==
  Step("fetch-cloud-build-ghe-configs", {},
       Handler({}, {"github_enterprise_config"}))

fetchCloudBuildBitbucketServerConfigStep ==
  Step("fetch-cloud-build-bb-configs", {},
       Handler({}, {"bitbucket_server_config"}))

fetchCloudBuildBitbucketRepositoriesStep ==
  Step("fetch-cloud-build-bb-repos", {"fetch-cloud-build-bb-configs"},
       Handler({"bitbucket_server_config"}, {"bitbucket_server_repo"}))

buildCloudBuildTriggerTriggersBuildRelationshipsStep ==
  Step("build-cloud-build-trigger-triggers-build-relationships",
       {"fetch-cloud-build-triggers", "fetch-cloud-builds"},
       Handler({"cloud_build", "cloud_build_trigger"}, {}))

buildCloudBuildUsesStorageBucketRelationshipsStep ==
  Step("build-cloud-build-uses-storage-bucket-relationships",
       {"fetch-cloud-builds", "fetch-cloud-storage-buckets"},
       Handler({"cloud_build", "storage_bucket"}, {}))

buildCloudBuildUsesSourceRepositoryRelationshipsStep ==
  Step("build-cloud-build-uses-source-repo-relationships",
       {"fetch-cloud-builds", "fetch-cloud-source-repositories"},
       Handler({"cloud_build", "cloud_source_repository"}, {}))

buildCloudBuildTriggerUsesGithubRepositoryStep ==
  Step("build-cloud-build-trigger-uses-github-repo",
       {"fetch-cloud-build-triggers", "fetch-cloud-build-ghe-configs"},
       Handler({"cloud_build_trigger", "github_enterprise_config"}, {}))

cloudBuildSteps ==
  { fetchCloudBuildStep,
    fetchCloudBuildTriggerStep,
    fetchCloudBuildWorkerPoolsStep,
    fetchCloudBuildGithubEnterpriseConfigStep,
    fetchCloudBuildBitbucketServerConfigStep,
    fetchCloudBuildBitbucketRepositoriesStep,
    buildCloudBuildTriggerTriggersBuildRelationshipsStep,
    buildCloudBuildUsesStorageBucketRelationshipsStep,
    buildCloudBuildUsesSourceRepositoryRelationshipsStep,
    buildCloudBuildTriggerUsesGithubRepositoryStep }

fetchCloudSourceRepositoriesStep ==
  Step("fetch-cloud-source-repositories", {},
       Handler({}, {"cloud_source_repository"}))

cloudSourceRepositoriesSteps ==
  { fetchCloudSourceRepositoriesStep }
===============================================================================
