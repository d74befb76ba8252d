---------------------------- MODULE ServiceClients ----------------------------
(*****************************************************************************)
(* What the methods of the clients of src/steps list, but for Compute's. A   *)
(* list is made once for the project, once for each place of a table, or     *)
(* once for each entity of a kind that the step iterates over. For each      *)
(* resource of a list further calls may be made; what a refused one costs is *)
(* what the definition of the call says.                                     *)
(*****************************************************************************)
EXTENDS Sequences

CONSTANTS
  CloudBuildLocations,   \* src/steps/cloud-build/constants.ts
  KMS_SERVICE_LOCATIONS, \* src/steps/kms/constants.ts
  Regions                \* googleCloudRegions, the names of its regions

ASSUME LocationsAssumption ==
  {CloudBuildLocations, KMS_SERVICE_LOCATIONS, Regions} \subseteq Seq(STRING)

Listing(step, parents, places) ==
  [step |-> step, parents |-> parents, places |-> places, paged |-> TRUE, calls |-> {},
   catchesAll |-> FALSE]

OfProject(step) == Listing(step, "project", <<"project">>)
InPlaces(step, places) == Listing(step, "place", places)
OfEach(step, kind) == Listing(step, kind, <<>>)

\* The whole list is the response of one call.
AtOnce(step) == [OfProject(step) EXCEPT !.paged = FALSE]

WithCalls(listing, calls) == [listing EXCEPT !.calls = calls]

\* What a refused call for a resource costs.
KeepsResource == "nothing"
DropsResource == "the resource"
FailsStep == "the step"

-----------------------------------------------------------------------------
iterateAccessPolicies == OfProject("fetch-access-context-manager-access-policies")
iterateAccessLevels == OfEach("fetch-access-context-manager-access-levels", "access_policy")
iterateServicePerimeters ==
  OfEach("fetch-access-context-manager-service-perimeters", "access_policy")

\* The one policy that is not got through the client's error handling.
getApiPolicy == FailsStep
getApiConfigPolicy == DropsResource
getGatewayPolicy == DropsResource
iterateApis == WithCalls(OfProject("fetch-api-gateway-apis"), {getApiPolicy})
iterateApiConfigs ==
  WithCalls(OfEach("fetch-api-gateway-api-configs", "api_gateway_api"), {getApiConfigPolicy})
iterateGateways == WithCalls(OfProject("fetch-api-gateway-gateways"), {getGatewayPolicy})

getAppEngineApplication == AtOnce("fetch-app-engine-application")
iterateAppEngineServices == OfProject("fetch-app-engine-services")
iterateAppEngineServiceVersions == OfEach("fetch-app-engine-versions", "app_engine_service")
iterateAppEngineVersionInstances == OfEach("fetch-app-engine-instances", "app_engine_version")

\* The calls that get a dataset, and a model, by its reference.
getBigQueryDataset == DropsResource
getBigQueryModel == DropsResource
getTablePolicy == KeepsResource
getTableResource == DropsResource
iterateBigQueryDatasets == WithCalls(OfProject("fetch-big-query-datasets"), {getBigQueryDataset})
iterateBigQueryModels ==
  WithCalls(OfEach("fetch-big-query-models", "bigquery_dataset"), {getBigQueryModel})
iterateBigQueryTables ==
  WithCalls(OfEach("fetch-big-query-tables", "bigquery_dataset"),
            {getTablePolicy, getTableResource})

iterateBigTableInstances == OfProject("fetch-bigtable-instances")
iterateAppProfiles == OfEach("fetch-bigtable-app-profiles", "bigtable_instance")
iterateBigTableClusters == OfEach("fetch-bigtable-clusters", "bigtable_instance")
iterateBackups == OfEach("fetch-bigtable-backups", "bigtable_cluster")
iterateTables == OfEach("fetch-bigtable-tables", "bigtable_instance")

fetchPolicy == AtOnce("fetch-binary-authorization-policy")

iterateBillingAccounts == OfProject("fetch-billing-accounts")
iterateBudgets == OfEach("fetch-billing-budgets", "billing_account")
iterateBillingAccountProjects == OfEach("build-additional-project-budget", "billing_budget")

iterateBuilds == OfProject("fetch-cloud-builds")
iterateBuildTriggers == OfProject("fetch-cloud-build-triggers")
iterateBuildWorkerPools == InPlaces("fetch-cloud-build-worker-pools", CloudBuildLocations)
\* No error comes out of it, whatever it is.
iterateBuildsGheConfigs == [AtOnce("fetch-cloud-build-ghe-configs") EXCEPT !.catchesAll = TRUE]
iterateBuildsBitbucketServerConfigs == OfProject("fetch-cloud-build-bb-configs")
iterateBuildBitbucketRepositories ==
  OfEach("fetch-cloud-build-bb-repos", "bitbucket_server_config")

iterateCloudRunServices == AtOnce("fetch-cloud-run-services")
iterateCloudRunRoutes == AtOnce("fetch-cloud-run-routes")
iterateCloudRunConfigurations == AtOnce("fetch-cloud-run-configurations")

iterateRepositories == OfProject("fetch-cloud-source-repositories")
iterateContainerClusters == AtOnce("fetch-container-clusters")
iterateDataprocClusters == InPlaces("fetch-dataproc-clusters", Regions)
iterateDNSManagedZones == OfProject("fetch-dns-managed-zones")
iterateDNSPolicies == OfProject("fetch-dns-policies")
iterateCloudFunctions == OfProject("fetch-cloud-functions")

fetchCryptoKeyPolicy == DropsResource
iterateKeyRings == InPlaces("fetch-kms-key-rings", KMS_SERVICE_LOCATIONS)
iterateCryptoKeys == WithCalls(OfEach("fetch-kms-keys", "kms_key_ring"), {fetchCryptoKeyPolicy})

iterateProjectSinks == OfProject("fetch-logging-project-sinks")
iterateMetrics == OfProject("fetch-logging-metrics")
iterateMemcachedInstances == OfProject("fetch-memcache-instances")
iterateAlertPolicies == OfProject("fetch-monitoring-alert-policies")

getAuthorityPolicy == DropsResource
iterateCaPools == OfProject("fetch-private-ca-pools")
iterateCertificateAuthorities ==
  WithCalls(OfEach("fetch-private-ca-certificate-authorities", "privateca_pool"),
            {getAuthorityPolicy})
iterateAuthorityCertificates ==
  OfEach("fetch-private-ca-certificates", "privateca_certificate_authority")

getPolicy == DropsResource
iterateProjectTopics == WithCalls(OfProject("fetch-pubsub-topics"), {getPolicy})
iterateProjectSubscriptions == OfProject("fetch-pubsub-subscriptions")

iterateRedisInstances == OfProject("fetch-redis-instances")
iterateSecrets == OfProject("fetch-secrets")
iterateSecretVersions == OfEach("fetch-secret-versions", "secret")

getInstancePolicy == DropsResource
getDatabasePolicy == DropsResource
iterateInstanceConfigs == OfProject("fetch-spanner-instance-configs")
iterateSpannerInstances == WithCalls(OfProject("fetch-spanner-instances"), {getInstancePolicy})
iterateInstanceDatabases ==
  WithCalls(OfEach("fetch-spanner-instance-databases", "spanner_instance"), {getDatabasePolicy})

iterateCloudSQLInstances == OfProject("fetch-sql-admin-instances")
iterateScanConfigs == OfProject("fetch-scan-configs")
iterateScanRuns == OfEach("fetch-scan-runs", "scan_config")

\* The lists of other clients, whose entities the handlers here look up.
otherListings ==
  {OfProject(step) :
     step \in {"fetch-cloud-storage-buckets", "fetch-iam-service-accounts",
               "fetch-compute-networks", "fetch-compute-images", "fetch-compute-instance-groups",
               "fetch-resource-manager-organization", "fetch-resource-manager-folders",
               "fetch-resource-manager-org-project-relationships",
               "fetch-resource-manager-project"}}

listings ==
  { iterateAccessPolicies, iterateAccessLevels, iterateServicePerimeters,
    iterateApis, iterateApiConfigs, iterateGateways,
    getAppEngineApplication, iterateAppEngineServices,
    iterateAppEngineServiceVersions, iterateAppEngineVersionInstances,
    iterateBigQueryDatasets, iterateBigQueryModels, iterateBigQueryTables,
    iterateBigTableInstances, iterateAppProfiles, iterateBigTableClusters,
    iterateBackups, iterateTables, fetchPolicy, iterateBillingAccounts,
    iterateBudgets, iterateBillingAccountProjects, iterateBuilds,
    iterateBuildTriggers, iterateBuildWorkerPools, iterateBuildsGheConfigs,
    iterateBuildsBitbucketServerConfigs, iterateBuildBitbucketRepositories,
    iterateCloudRunServices, iterateCloudRunRoutes,
    iterateCloudRunConfigurations, iterateRepositories,
    iterateContainerClusters, iterateDataprocClusters,
    iterateDNSManagedZones, iterateDNSPolicies, iterateCloudFunctions,
    iterateKeyRings, iterateCryptoKeys, iterateProjectSinks, iterateMetrics,
    iterateMemcachedInstances, iterateAlertPolicies, iterateCaPools,
    iterateCertificateAuthorities, iterateAuthorityCertificates,
    iterateProjectTopics, iterateProjectSubscriptions, iterateRedisInstances,
    iterateSecrets, iterateSecretVersions, iterateInstanceConfigs,
    iterateSpannerInstances, iterateInstanceDatabases,
    iterateCloudSQLInstances, iterateScanConfigs, iterateScanRuns } \cup otherListings

lists == {l.step : l \in listings}

listingOf == [s \in lists |-> CHOOSE l \in listings : l.step = s]
===============================================================================
