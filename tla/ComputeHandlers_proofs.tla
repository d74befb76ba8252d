------------------------ MODULE ComputeHandlers_proofs ------------------------
(*****************************************************************************)
(* What the Compute handlers guarantee, for every project, every table of    *)
(* regions, and every choice of the calls that are refused or fail.          *)
(*****************************************************************************)
EXTENDS ComputeHandlers, FiniteSetTheorems, TLAPS

IMAGES == "fetch-compute-images"
PEERINGS == "fetch-compute-networks-peering-relationships"
KMS_KEYS == "fetch-kms-keys"

Ended(s) == s \in DOMAIN status /\ status[s] \in {"success", "failure"}

\* A step starts when those it depends on are over, and succeeds when it has
\* processed what it lists, but for the places where it was refused.
StepsInOrder ==
  \A s \in DOMAIN status :
    /\ status[s] # "pending" => \A d \in dependsOn[s] : Ended(d)
    /\ s \in lists /\ status[s] = "success" =>
         \A r \in listed(s) : <<s, r.place>> \in truncated \/ r \in done[s]

\* What a listing has processed has its entity, but for images that were refused.
DoneAdded ==
  \A s \in DOMAIN status \cap lists : \A r \in done[s] :
    /\ r \in listed(s)
    /\ r \in entities \/ (s = IMAGES /\ r \in refused)

\* The entities are of the project, and the keys are those the KMS step listed.
EntitiesOwn ==
  \A e \in entities :
    /\ e.project = Own
    /\ e.kind = "kms_crypto_key" => KMS_KEYS \in DOMAIN status /\ e \in done[KMS_KEYS]

\* What is mapped to cannot be added any more.
MappedSettled ==
  \A x \in relationships : x.mapped =>
    \/ x.to.project # Own
    \/ ~cloud.configured /\ x.to \in refers(x.from, "peerings")
    \/ x.to.kind = "kms_crypto_key" /\ Ended(KMS_KEYS)

\* Each listing that is cut short, and each refused image, is a fault.
FaultsCounted ==
  /\ IsFiniteSet(truncated) /\ IsFiniteSet(refused)
  /\ Cardinality(truncated) + Cardinality(refused) <= faults

\* The inventory is turned off by a quota alone, and no instance's is overwritten.
QuotaRemembered ==
  /\ \A r \in DOMAIN inventory : inventory[r] # "none yet" =>
       "fetch-compute-instances" \in DOMAIN status /\ r \in done["fetch-compute-instances"]
  /\ inventoryApiDisabled => \E q \in DOMAIN inventory : inventory[q] = "quota exceeded"
  /\ \A r \in DOMAIN inventory : inventory[r] = "not called" => inventoryApiDisabled

NETWORKS == "fetch-compute-networks"
INSTANCES == "fetch-compute-instances"
DISK_IMAGE == "build-compute-disk-image-relationships"
ACCOUNTS == "build-compute-instance-service-account-relationships"
NAMED_PORT == "compute_instance_group_named_port"

\* The only step of the catalog that adds entities of a kind.
listingOf(kind) ==
  CASE kind = "compute_disk" -> "fetch-compute-disks"
    [] kind = "compute_region_disk" -> "fetch-compute-region-disks"
    [] kind = "compute_snapshot" -> "fetch-compute-snapshots"
    [] kind = "compute_image" -> "fetch-compute-images"
    [] kind = "compute_instance" -> "fetch-compute-instances"
    [] kind = "compute_project" -> "fetch-compute-project"
    [] kind = "compute_network" -> "fetch-compute-networks"
    [] kind = "compute_subnetwork" -> "fetch-compute-subnetworks"
    [] kind = "compute_firewall" -> "fetch-compute-firewalls"
    [] kind = "compute_address" -> "fetch-compute-addresses"
    [] kind = "compute_global_address" -> "fetch-compute-global-addresses"
    [] kind = "compute_forwarding_rule" -> "fetch-compute-forwarding-rules"
    [] kind = "compute_global_forwarding_rule" -> "fetch-compute-global-forwarding-rules"
    [] kind = "compute_health_check" -> "fetch-compute-health-checks"
    [] kind = "compute_region_health_check" -> "fetch-compute-region-health-checks"
    [] kind = "compute_instance_group" -> "fetch-compute-instance-groups"
    [] kind = "compute_region_instance_group" -> "fetch-compute-region-instance-groups"
    [] kind = "compute_load_balancer" -> "fetch-compute-loadbalancers"
    [] kind = "compute_region_load_balancer" -> "fetch-compute-region-loadbalancers"
    [] kind = "compute_backend_service" -> "fetch-compute-backend-services"
    [] kind = "compute_region_backend_service" -> "fetch-compute-region_backend-services"
    [] kind = "compute_backend_bucket" -> "fetch-compute-backend-buckets"
    [] kind = "compute_target_ssl_proxy" -> "fetch-compute-target-ssl-proxies"
    [] kind = "compute_target_https_proxy" -> "fetch-compute-target-https-proxies"
    [] kind = "compute_region_target_https_proxy" -> "fetch-compute-region-target-https-proxies"
    [] kind = "compute_target_http_proxy" -> "fetch-compute-target-http-proxies"
    [] kind = "compute_region_target_http_proxy" -> "fetch-compute-region-target-http-proxies"
    [] kind = "compute_ssl_policy" -> "fetch-compute-ssl-policies"
    [] kind = "kms_crypto_key" -> "fetch-kms-keys"
    [] kind \in {"iam_service_account", "iam_service_account_key"} -> "fetch-iam-service-accounts"
    [] kind = "storage_bucket" -> "fetch-cloud-storage-buckets"
    [] OTHER -> "none"

\* A step that has processed anything has started, and what it iterates over
\* is in the job state.
Started ==
  \A s \in DOMAIN status :
    /\ done[s] # {} => status[s] # "pending"
    /\ s \notin lists => done[s] \subseteq entities

\* An entity, but for a group's port, is one its listing has processed, and the
\* key of a zonal disk is known.
EntitiesListed ==
  \A e \in entities : e.kind # NAMED_PORT =>
    /\ listingOf(e.kind) \in DOMAIN status \cap lists
    /\ e \in done[listingOf(e.kind)]
    /\ e.kind = "compute_disk" => e \in diskKeys

\* The data is what the listings leave.
DataStored ==
  /\ peeredNetworks # None =>
       /\ Ended(NETWORKS)
       /\ \A r \in done[NETWORKS] : refers(r, "peerings") # {} => r \in peeredNetworks
  /\ instanceServiceAccounts # None =>
       /\ Ended(INSTANCES)
       /\ \A r \in done[INSTANCES] :
            refers(r, "serviceAccounts") # {} => r \in instanceServiceAccounts

\* A step over entities leaves none, but the regional disks it does not wait for.
NothingLeft ==
  \A s \in DOMAIN status \ lists : status[s] = "success" =>
    \A r \in toProcess(s) : s = DISK_IMAGE /\ r.kind = "compute_region_disk"

\* A reference is related, or lost with another, or what it looks for is not there.
settled(ref) ==
  \/ related(ref) \/ lostWithAnother(ref)
  \/ /\ lookedUp(ref) \notin entities /\ ref.field # "namedPorts"
     /\ ~(ref.to.project # Own /\ ref.field \in MappedFields)

\* It is when its subject is processed, if it is to be: what it looks for has
\* been added by then, or never is.
Handled ==
  \A ref \in cloud.references :
    /\ relater(ref) \in DOMAIN status
    /\ subject(ref) \in done[relater(ref)] \cap entities
    /\ ~neverRelated(ref) /\ ~racing(ref)
    => settled(ref)

IInv ==
  /\ TypeOK
  /\ StepsInOrder
  /\ DoneAdded
  /\ EntitiesOwn
  /\ RelationshipsTrue
  /\ MappedSettled
  /\ FaultsCounted
  /\ QuotaRemembered
  /\ Started
  /\ EntitiesListed
  /\ DataStored
  /\ NothingLeft
  /\ Handled

-----------------------------------------------------------------------------
(* What the client lists, and what the catalog says of these steps           *)

BACKEND_BUCKETS == "build-compute-backend-bucket-bucket-relationships"
SNAPSHOT_DISK == "build-compute-snapshot-disk-relationships"
IMAGE_IMAGE == "build-image-image-relationships"
DISK_KMS == "build-compute-disk-kms-relationships"
IMAGE_KMS == "build-compute-image-kms-relationships"
COMPUTE_PROJECT == "fetch-compute-project"

zonal == {"fetch-compute-disks", INSTANCES, "fetch-compute-instance-groups"}

regional ==
  {"fetch-compute-region-disks", "fetch-compute-addresses", "fetch-compute-forwarding-rules",
   "fetch-compute-subnetworks", "fetch-compute-region-health-checks",
   "fetch-compute-region-instance-groups", "fetch-compute-region-loadbalancers",
   "fetch-compute-region_backend-services", "fetch-compute-region-target-https-proxies",
   "fetch-compute-region-target-http-proxies"}

global ==
  {"fetch-compute-snapshots", "fetch-compute-global-addresses",
   "fetch-compute-global-forwarding-rules", IMAGES, COMPUTE_PROJECT,
   "fetch-compute-firewalls", "fetch-compute-networks", "fetch-compute-health-checks",
   "fetch-compute-loadbalancers", "fetch-compute-backend-services",
   "fetch-compute-backend-buckets", "fetch-compute-target-ssl-proxies",
   "fetch-compute-target-https-proxies", "fetch-compute-target-http-proxies",
   "fetch-compute-ssl-policies", KMS_KEYS, "fetch-iam-service-accounts",
   "fetch-cloud-storage-buckets"}

LEMMA ListsAre == lists = zonal \cup regional \cup global
<1> DEFINE others == {"fetch-kms-keys", "fetch-iam-service-accounts",
                      "fetch-cloud-storage-buckets"}
<1> USE DEF zonal, regional, global, INSTANCES, IMAGES, COMPUTE_PROJECT, KMS_KEYS
<1>1. otherListings = {Listing(step, Global) : step \in others}
  BY DEF otherListings
<1>2. \A l \in otherListings : l.step \in others
  BY <1>1 DEF Listing
<1>3. \A s \in others : \E l \in otherListings : l.step = s
  <2> TAKE s \in others
  <2>1. Listing(s, Global) \in otherListings /\ Listing(s, Global).step = s
    BY <1>1 DEF Listing
  <2> QED
    BY <2>1
<1>4. otherListings \subseteq listings
  BY DEF listings
<1>5. \A l \in listings : l \in otherListings \/ l.step \in (zonal \cup regional \cup global)
  BY DEF Listing, listings, iterateComputeRegionDisks, iterateComputeDisks,
     iterateComputeSnapshots, iterateComputeGlobalAddresses, iterateComputeAddresses,
     iterateGlobalForwardingRules, iterateForwardingRules, iterateCustomComputeImages,
     fetchComputeProject, iterateComputeInstances, iterateFirewalls, iterateSubnetworks,
     iterateNetworks, iterateRegionHealthChecks, iterateHealthChecks,
     iterateRegionInstanceGroups, iterateInstanceGroups, iterateRegionLoadBalancers,
     iterateLoadBalancers, iterateRegionBackendServices, iterateBackendServices,
     iterateBackendBuckets, iterateTargetSslProxies, iterateRegionTargetHttpsProxies,
     iterateTargetHttpsProxies, iterateRegionTargetHttpProxies, iterateTargetHttpProxies,
     iterateSslPolicies
<1>6. /\ iterateComputeRegionDisks.step = "fetch-compute-region-disks"
      /\ iterateComputeDisks.step = "fetch-compute-disks"
      /\ iterateComputeSnapshots.step = "fetch-compute-snapshots"
      /\ iterateComputeGlobalAddresses.step = "fetch-compute-global-addresses"
      /\ iterateComputeAddresses.step = "fetch-compute-addresses"
      /\ iterateGlobalForwardingRules.step = "fetch-compute-global-forwarding-rules"
      /\ iterateForwardingRules.step = "fetch-compute-forwarding-rules"
      /\ iterateCustomComputeImages.step = "fetch-compute-images"
      /\ fetchComputeProject.step = "fetch-compute-project"
      /\ iterateComputeInstances.step = "fetch-compute-instances"
      /\ iterateFirewalls.step = "fetch-compute-firewalls"
      /\ iterateSubnetworks.step = "fetch-compute-subnetworks"
      /\ iterateNetworks.step = "fetch-compute-networks"
      /\ iterateRegionHealthChecks.step = "fetch-compute-region-health-checks"
      /\ iterateHealthChecks.step = "fetch-compute-health-checks"
      /\ iterateRegionInstanceGroups.step = "fetch-compute-region-instance-groups"
      /\ iterateInstanceGroups.step = "fetch-compute-instance-groups"
      /\ iterateRegionLoadBalancers.step = "fetch-compute-region-loadbalancers"
      /\ iterateLoadBalancers.step = "fetch-compute-loadbalancers"
      /\ iterateRegionBackendServices.step = "fetch-compute-region_backend-services"
      /\ iterateBackendServices.step = "fetch-compute-backend-services"
      /\ iterateBackendBuckets.step = "fetch-compute-backend-buckets"
      /\ iterateTargetSslProxies.step = "fetch-compute-target-ssl-proxies"
      /\ iterateRegionTargetHttpsProxies.step = "fetch-compute-region-target-https-proxies"
      /\ iterateTargetHttpsProxies.step = "fetch-compute-target-https-proxies"
      /\ iterateRegionTargetHttpProxies.step = "fetch-compute-region-target-http-proxies"
      /\ iterateTargetHttpProxies.step = "fetch-compute-target-http-proxies"
      /\ iterateSslPolicies.step = "fetch-compute-ssl-policies"
  BY DEF Listing, iterateComputeRegionDisks, iterateComputeDisks,
     iterateComputeSnapshots, iterateComputeGlobalAddresses, iterateComputeAddresses,
     iterateGlobalForwardingRules, iterateForwardingRules, iterateCustomComputeImages,
     fetchComputeProject, iterateComputeInstances, iterateFirewalls, iterateSubnetworks,
     iterateNetworks, iterateRegionHealthChecks, iterateHealthChecks,
     iterateRegionInstanceGroups, iterateInstanceGroups, iterateRegionLoadBalancers,
     iterateLoadBalancers, iterateRegionBackendServices, iterateBackendServices,
     iterateBackendBuckets, iterateTargetSslProxies, iterateRegionTargetHttpsProxies,
     iterateTargetHttpsProxies, iterateRegionTargetHttpProxies, iterateTargetHttpProxies,
     iterateSslPolicies
<1>12. {iterateComputeRegionDisks, iterateComputeDisks, iterateComputeSnapshots,
        iterateComputeGlobalAddresses, iterateComputeAddresses,
        iterateGlobalForwardingRules, iterateForwardingRules, iterateCustomComputeImages,
        fetchComputeProject, iterateComputeInstances, iterateFirewalls,
        iterateSubnetworks, iterateNetworks, iterateRegionHealthChecks,
        iterateHealthChecks, iterateRegionInstanceGroups, iterateInstanceGroups,
        iterateRegionLoadBalancers, iterateLoadBalancers, iterateRegionBackendServices,
        iterateBackendServices, iterateBackendBuckets, iterateTargetSslProxies,
        iterateRegionTargetHttpsProxies, iterateTargetHttpsProxies,
        iterateRegionTargetHttpProxies, iterateTargetHttpProxies, iterateSslPolicies}
        \subseteq listings
  BY DEF listings
<1>7. \A s \in zonal \cup regional \cup (global \ others) : \E l \in listings : l.step = s
  BY <1>6, <1>12
<1>8. \A s : s \in lists <=> \E l \in listings : l.step = s
  BY DEF lists
<1>9. others \subseteq global
  OBVIOUS
<1> HIDE DEF others
<1>10. \A s \in lists : s \in zonal \cup regional \cup global
  BY <1>2, <1>5, <1>8, <1>9
<1>11. \A s \in zonal \cup regional \cup global : s \in lists
  BY <1>3, <1>4, <1>7, <1>8
<1> QED
  BY <1>10, <1>11

\* The steps of this module, among those of the catalog.
handled ==
  zonal \cup regional \cup global
    \cup {PEERINGS, BACKEND_BUCKETS, ACCOUNTS, SNAPSHOT_DISK, DISK_IMAGE, IMAGE_IMAGE, DISK_KMS,
          IMAGE_KMS}

LEMMA NotInOthers ==
  \A step \in steps \ (computeSteps \cup kmsSteps \cup iamSteps \cup storageSteps) :
    step.id \notin handled
<1> USE DEF handled, zonal, regional, global, INSTANCES, IMAGES, COMPUTE_PROJECT, KMS_KEYS,
            PEERINGS, BACKEND_BUCKETS, ACCOUNTS, SNAPSHOT_DISK, DISK_IMAGE, IMAGE_IMAGE, DISK_KMS,
            IMAGE_KMS, Step, LastStep, StepOf
<1>1. \A step \in functionsSteps \cup serviceUsageSteps \cup resourceManagerSteps
                    \cup sqlAdminSteps \cup bigQuerySteps \cup dnsManagedZonesSteps :
        step.id \notin handled
  BY DEF functionsSteps, serviceUsageSteps, resourceManagerSteps, sqlAdminSteps,
         bigQuerySteps, dnsManagedZonesSteps
<1>2. \A step \in containerSteps \cup loggingSteps \cup monitoringSteps
                    \cup binaryAuthorizationSteps \cup pubSubSteps \cup appEngineSteps :
        step.id \notin handled
  BY DEF containerSteps, loggingSteps, monitoringSteps, binaryAuthorizationSteps, pubSubSteps,
         appEngineSteps
<1>3. \A step \in cloudRunSteps \cup redisSteps \cup memcacheSteps \cup spannerSteps
                    \cup apiGatewaySteps \cup privateCaSteps : step.id \notin handled
  BY DEF cloudRunSteps, redisSteps, memcacheSteps, spannerSteps, apiGatewaySteps,
         privateCaSteps, fetchCaPoolsStepMap, fetchAuthorityCertificatesStepMap,
         fetchCertificateAuthoritiesStepMap,
         buildCertificateAuthorityBucketRelationshipsStepMap
<1>4. \A step \in accessPoliciesSteps \cup dataprocSteps \cup bigTableSteps
                    \cup billingBudgetsSteps \cup cloudBillingSteps : step.id \notin handled
  BY DEF accessPoliciesSteps, dataprocSteps, bigTableSteps, billingBudgetsSteps,
         cloudBillingSteps
<1>5. \A step \in secretManagerSteps \cup cloudBuildSteps \cup cloudSourceRepositoriesSteps
                    \cup webSecurityScannerSteps \cup cloudAssetSteps : step.id \notin handled
  BY DEF secretManagerSteps, cloudBuildSteps, cloudSourceRepositoriesSteps,
         webSecurityScannerSteps, cloudAssetSteps, fetchCloudBuildStep,
         fetchCloudBuildTriggerStep, fetchCloudBuildWorkerPoolsStep,
         fetchCloudBuildGithubEnterpriseConfigStep,
         fetchCloudBuildBitbucketServerConfigStep,
         fetchCloudBuildBitbucketRepositoriesStep,
         buildCloudBuildTriggerTriggersBuildRelationshipsStep,
         buildCloudBuildUsesStorageBucketRelationshipsStep,
         buildCloudBuildUsesSourceRepositoryRelationshipsStep,
         buildCloudBuildTriggerUsesGithubRepositoryStep,
         fetchCloudSourceRepositoriesStep, fetchScanConfigsStepMap, fetchScanRunsStepMap
<1> HIDE DEF handled, zonal, regional, global, INSTANCES, IMAGES, COMPUTE_PROJECT, KMS_KEYS,
             PEERINGS, BACKEND_BUCKETS, ACCOUNTS, SNAPSHOT_DISK, DISK_IMAGE, IMAGE_IMAGE,
             DISK_KMS, IMAGE_KMS, Step, LastStep, StepOf
<1> QED
  BY <1>1, <1>2, <1>3, <1>4, <1>5 DEF steps, defaultSteps

\* What a step processes, be it listed, iterated over or stored.
processedKinds(s) ==
  CASE s = PEERINGS -> {"compute_network"}
    [] s = ACCOUNTS -> {"compute_instance"}
    [] OTHER -> iteratedKinds(s)

\* The look-ups that the step does not wait for.
Races ==
  { <<DISK_IMAGE, "compute_region_disk">>,
    <<"fetch-compute-backend-services", "compute_region_instance_group">>,
    <<"fetch-compute-region_backend-services", "compute_instance_group">>,
    <<"fetch-compute-region_backend-services", "compute_health_check">>,
    <<"fetch-compute-global-forwarding-rules", "compute_target_ssl_proxy">>,
    <<"fetch-compute-ssl-policies", "compute_region_target_https_proxy">> }

\* What is needed of their records.
Recorded(step) ==
  /\ "kms_crypto_key" \in step.writes => step.id = KMS_KEYS
  /\ step.id = COMPUTE_PROJECT => step.writes = {"compute_project"}
  /\ step.id = INSTANCES => step.writes = {"compute_instance"}
  /\ step.id \in {DISK_KMS, IMAGE_KMS} => KMS_KEYS \in step.dependsOn

\* A kind has one listing, and a step waits for the listings of what it reads.
Ordered(step) ==
  /\ step.id \in zonal \cup regional \cup global =>
       \A k \in step.writes : listingOf(k) = step.id
  /\ \A k \in step.reads \cup processedKinds(step.id) :
       /\ k # NAMED_PORT
       /\ \/ listingOf(k) \in step.dependsOn \cup {"none"}
          \/ <<step.id, k>> \in Races

LEMMA RecordsOf ==
  \A step \in computeSteps \cup kmsSteps \cup iamSteps \cup storageSteps : Recorded(step)
<1> USE DEF Recorded, INSTANCES, COMPUTE_PROJECT, KMS_KEYS, DISK_KMS, IMAGE_KMS, Step, StepOf,
            Handler
<1>1. \A step \in computeSteps : Recorded(step)
  BY DEF computeSteps, fetchComputeNetworksStepMap, fetchComputeSubnetworksStepMap,
         fetchComputeDisksStepMap, fetchComputeRegionDisksStepMap,
         fetchBackendBucketsStepMap, fetchComputeSnapshotsStepMap,
         fetchComputeHealthChecksStepMap, fetchComputeRegionHealthChecksStepMap,
         fetchComputeInstanceGroupsStepMap, fetchComputeRegionInstanceGroupsStepMap,
         fetchComputeProjectStepMap, fetchComputeAddressesStepMap,
         fetchComputeRegionBackendServicesStepMap, fetchComputeBackendServicesStepMap,
         fetchComputeGlobalAddressesStepMap, fetchComputeRegionLoadbalancersStepMap,
         fetchComputeLoadbalancersStepMap, fetchComputeTargetSslProxiesStepMap,
         fetchComputeImagesStepMap, fetchComputeTargetHttpsProxiesStepMap,
         fetchComputeInstancesStepMap, fetchComputeRegionTargetHttpsProxiesStepMap,
         fetchComputeFirewallsStepMap, fetchComputeRegionTargetHttpProxiesStepMap,
         fetchComputeTargetHttpProxiesStepMap, fetchComputeSslPoliciesStepMap,
         fetchComputeForwardingRulesStepMap, fetchComputeGlobalForwardingRulesStepMap,
         buildComputeNetworkPeeringRelationshipsStepMap,
         buildComputeSnapshotDiskRelationshipsStepMap,
         buildDiskImageRelationshipsStepMap,
         buildComputeBackendBucketHasBucketRelationshipsStepMap,
         buildComputeInstanceServiceAccountRelationshipsStepMap,
         buildImageCreatedImageRelationshipsStepMap,
         buildImageUsesKmsRelationshipsStepMap, buildDiskUsesKmsRelationshipsStepMap
<1>2. \A step \in kmsSteps \cup iamSteps \cup storageSteps : Recorded(step)
  BY DEF kmsSteps, iamSteps, storageSteps, fetchKmsKeyRings, fetchKmsCryptoKeys,
         fetchIamCustomRoles, buildIamCustomRoleApiServiceRelationship, fetchIamManagedRoles,
         fetchIamServiceAccounts, fetchStorageBuckets
<1> QED
  BY <1>1, <1>2

LEMMA OrdersOf ==
  \A step \in computeSteps \cup kmsSteps \cup iamSteps \cup storageSteps : Ordered(step)
<1> USE DEF Ordered, listingOf, processedKinds, iteratedKinds, Races, zonal, regional, global,
            INSTANCES, IMAGES, COMPUTE_PROJECT, KMS_KEYS, PEERINGS, BACKEND_BUCKETS, ACCOUNTS,
            SNAPSHOT_DISK, DISK_IMAGE, IMAGE_IMAGE, DISK_KMS, IMAGE_KMS, NAMED_PORT, Step, StepOf,
            Handler
<1>1. \A step \in computeSteps : Ordered(step)
  BY DEF computeSteps, fetchComputeNetworksStepMap, fetchComputeSubnetworksStepMap,
         fetchComputeDisksStepMap, fetchComputeRegionDisksStepMap,
         fetchBackendBucketsStepMap, fetchComputeSnapshotsStepMap,
         fetchComputeHealthChecksStepMap, fetchComputeRegionHealthChecksStepMap,
         fetchComputeInstanceGroupsStepMap, fetchComputeRegionInstanceGroupsStepMap,
         fetchComputeProjectStepMap, fetchComputeAddressesStepMap,
         fetchComputeRegionBackendServicesStepMap, fetchComputeBackendServicesStepMap,
         fetchComputeGlobalAddressesStepMap, fetchComputeRegionLoadbalancersStepMap,
         fetchComputeLoadbalancersStepMap, fetchComputeTargetSslProxiesStepMap,
         fetchComputeImagesStepMap, fetchComputeTargetHttpsProxiesStepMap,
         fetchComputeInstancesStepMap, fetchComputeRegionTargetHttpsProxiesStepMap,
         fetchComputeFirewallsStepMap, fetchComputeRegionTargetHttpProxiesStepMap,
         fetchComputeTargetHttpProxiesStepMap, fetchComputeSslPoliciesStepMap,
         fetchComputeForwardingRulesStepMap, fetchComputeGlobalForwardingRulesStepMap,
         buildComputeNetworkPeeringRelationshipsStepMap,
         buildComputeSnapshotDiskRelationshipsStepMap,
         buildDiskImageRelationshipsStepMap,
         buildComputeBackendBucketHasBucketRelationshipsStepMap,
         buildComputeInstanceServiceAccountRelationshipsStepMap,
         buildImageCreatedImageRelationshipsStepMap,
         buildImageUsesKmsRelationshipsStepMap, buildDiskUsesKmsRelationshipsStepMap
<1>2. \A step \in kmsSteps \cup iamSteps \cup storageSteps : Ordered(step)
  BY DEF kmsSteps, iamSteps, storageSteps, fetchKmsKeyRings, fetchKmsCryptoKeys,
         fetchIamCustomRoles, buildIamCustomRoleApiServiceRelationship, fetchIamManagedRoles,
         fetchIamServiceAccounts, fetchStorageBuckets
<1> QED
  BY <1>1, <1>2

LEMMA Catalog ==
  \A s \in stepIds \cap handled :
    /\ "kms_crypto_key" \in writes[s] => s = KMS_KEYS
    /\ s = COMPUTE_PROJECT => writes[s] = {"compute_project"}
    /\ s = INSTANCES => writes[s] = {"compute_instance"}
    /\ s \in {DISK_KMS, IMAGE_KMS} => KMS_KEYS \in dependsOn[s]
<1> SUFFICES ASSUME NEW s \in stepIds \cap handled
             PROVE  Recorded(stepNamed[s]) /\ stepNamed[s].id = s
  BY DEF Recorded, writes, dependsOn
<1>1. stepNamed[s] \in steps /\ stepNamed[s].id = s
  BY DEF stepIds, stepNamed
<1> QED
  BY <1>1, NotInOthers, RecordsOf

LEMMA Waits ==
  \A s \in stepIds \cap handled :
    /\ s \in lists => \A k \in writes[s] : listingOf(k) = s
    /\ \A k \in reads[s] \cup processedKinds(s) :
         /\ k # NAMED_PORT
         /\ listingOf(k) \in dependsOn[s] \cup {"none"} \/ <<s, k>> \in Races
<1> SUFFICES ASSUME NEW s \in stepIds \cap handled
             PROVE  Ordered(stepNamed[s]) /\ stepNamed[s].id = s
  BY ListsAre DEF Ordered, writes, reads, dependsOn
<1>1. stepNamed[s] \in steps /\ stepNamed[s].id = s
  BY DEF stepIds, stepNamed
<1> QED
  BY <1>1, NotInOthers, OrdersOf


-----------------------------------------------------------------------------
(* What a step processes, finds and relates                                  *)

LEMMA Listings ==
  /\ {IMAGES, INSTANCES, COMPUTE_PROJECT, KMS_KEYS, "fetch-compute-disks",
      NETWORKS, "fetch-compute-instance-groups", "fetch-compute-firewalls",
      "fetch-compute-region-instance-groups"} \subseteq lists
  /\ PEERINGS \notin lists /\ DISK_IMAGE \notin lists
  /\ DISK_KMS \notin lists /\ IMAGE_KMS \notin lists
  /\ ACCOUNTS \notin lists /\ BACKEND_BUCKETS \notin lists /\ SNAPSHOT_DISK \notin lists
  /\ IMAGE_IMAGE \notin lists /\ "none" \notin lists
  /\ lists \subseteq handled
  /\ {PEERINGS, BACKEND_BUCKETS, ACCOUNTS, SNAPSHOT_DISK, DISK_IMAGE, IMAGE_IMAGE, DISK_KMS,
      IMAGE_KMS} \subseteq handled
BY ListsAre DEF zonal, regional, global, handled, IMAGES, INSTANCES, COMPUTE_PROJECT, KMS_KEYS,
   NETWORKS, PEERINGS, ACCOUNTS, BACKEND_BUCKETS, SNAPSHOT_DISK, DISK_IMAGE, IMAGE_IMAGE, DISK_KMS,
   IMAGE_KMS

LEMMA Typed ==
  ASSUME TypeOK
  PROVE  /\ cloud \in Clouds /\ cloud.steps \subseteq stepIds
         /\ \A d \in cloud.steps : dependsOn[d] \subseteq cloud.steps
         /\ status \in [cloud.steps -> {"pending", "running", "success", "failure"}]
         /\ DOMAIN status = cloud.steps
         /\ done \in [cloud.steps -> SUBSET cloud.resources]
         /\ diskKeys \subseteq entities /\ entities \subseteq cloud.resources
         /\ peeredNetworks = None \/ peeredNetworks \subseteq entities
         /\ instanceServiceAccounts = None \/ instanceServiceAccounts \subseteq entities
         /\ refused \subseteq cloud.resources
<1> cloud \in Clouds /\ refused \subseteq cloud.resources
  BY DEF TypeOK
<1> /\ status \in [cloud.steps -> {"pending", "running", "success", "failure"}]
    /\ done \in [cloud.steps -> SUBSET cloud.resources]
  BY DEF TypeOK
<1> diskKeys \subseteq entities /\ entities \subseteq cloud.resources
  BY DEF TypeOK
<1> /\ peeredNetworks = None \/ peeredNetworks \subseteq entities
    /\ instanceServiceAccounts = None \/ instanceServiceAccounts \subseteq entities
  BY DEF TypeOK
<1> QED
  BY CloudAssumption

LEMMA Processed ==
  ASSUME TypeOK, NEW s \in DOMAIN status, NEW r \in toProcess(s)
  PROVE  /\ r \in cloud.resources /\ r \notin done[s]
         /\ s \in lists => r \in listed(s) /\ <<s, r.place>> \notin truncated
         /\ s \notin lists => r \in entities
<1>1. CASE s \in lists
  <2>1. toProcess(s) = {q \in listed(s) : <<s, q.place>> \notin truncated} \ done[s]
    BY <1>1, Listings DEF toProcess, PEERINGS, ACCOUNTS
  <2> QED
    BY <1>1, <2>1 DEF listed
<1>2. CASE s = PEERINGS
  <2>1. toProcess(s) = (IF peeredNetworks = None THEN {} ELSE peeredNetworks) \ done[s]
    BY <1>2, Listings DEF toProcess, PEERINGS, ACCOUNTS
  <2> QED
    BY <1>2, <2>1, Listings, Typed
<1>3. CASE s = ACCOUNTS
  <2>1. toProcess(s)
          = (IF instanceServiceAccounts = None THEN {} ELSE instanceServiceAccounts) \ done[s]
    BY <1>3, Listings DEF toProcess, PEERINGS, ACCOUNTS
  <2> QED
    BY <1>3, <2>1, Listings, Typed
<1>4. CASE /\ s \notin lists /\ s # PEERINGS
           /\ s # ACCOUNTS
  <2>1. toProcess(s) = {q \in entities : q.kind \in iteratedKinds(s)} \ done[s]
    BY <1>4 DEF toProcess, PEERINGS, ACCOUNTS
  <2> QED
    BY <1>4, <2>1, Typed
<1> QED
  BY <1>1, <1>2, <1>3, <1>4

LEMMA ListingOver ==
  ASSUME NEW s \in lists, toProcess(s) = {}, NEW r \in listed(s)
  PROVE  <<s, r.place>> \in truncated \/ r \in done[s]
BY Listings DEF toProcess, PEERINGS, ACCOUNTS

LEMMA Referred ==
  ASSUME TypeOK, NEW r, NEW field, NEW t \in refers(r, field)
  PROVE  /\ t \in cloud.resources
         /\ \E ref \in cloud.references : ref.from = r /\ ref.field = field /\ ref.to = t
BY CloudAssumption, Typed DEF refers

\* The key of a field finds what the field refers to, but for an image made of
\* another, which finds itself.
LEMMA FoundReferred ==
  ASSUME TypeOK, NEW r \in cloud.resources, NEW field, NEW e \in found(r, field)
  PROVE  /\ e \in entities \cup {r}
         /\ \/ e \in refers(r, field)
            \/ e = r /\ field = "sourceImageId" /\ refers(r, "sourceImageId") # {}
<1> e \in entities \cup {r} /\ e \in cloud.resources
  BY Typed DEF found
<1>1. PICK t \in refers(r, field) : keyOf(e) = keyLookedUp(r, field, t)
  BY DEF found
<1>2. PICK ref \in cloud.references : ref.from = r /\ ref.field = field /\ ref.to = t
  BY <1>1, Referred
<1>3. t \in cloud.resources /\ cloud \in Clouds
  BY <1>1, Referred, Typed
<1>4. keyOf(e) = keyOf(t) => e = t
  BY <1>3, KeysAssumption
<1>5. keyOf(e) # None /\ e.place # "zones"
  BY <1>3, KeysAssumption
<1>6. \A a, b, c, d, f, g, h : <<a, b, c>> # <<d, f, g, h>>
  <2> TAKE a, b, c, d, f, g, h
  <2>1. Len(<<a, b, c>>) = 3 /\ Len(<<d, f, g, h>>) = 4
    OBVIOUS
  <2> QED
    BY <2>1
<1>7. CASE field = "disks"
  BY <1>1, <1>4, <1>5, <1>7 DEF keyLookedUp
<1>8. CASE field = "sourceDiskId"
  <2>1. t.kind \in {"compute_disk", "compute_region_disk"}
    BY <1>2, <1>3, <1>8, ReferencesAssumption
  <2>2. keyOf(e) = <<"disk", t.place, t.name>>
    BY <1>1, <1>8 DEF keyLookedUp
  <2>3. CASE e.kind = "compute_disk"
    <3>1. e.place = t.place /\ e.name = t.name
      BY <2>2, <2>3 DEF keyOf
    <3> QED
      BY <1>1, <1>3, <2>1, <2>3, <3>1, KeysAssumption
  <2>4. CASE e.kind # "compute_disk"
    BY <1>6, <2>2, <2>4 DEF keyOf
  <2> QED
    BY <2>3, <2>4
<1>9. CASE field = "created-by"
  <2>1. /\ t.kind \in {"compute_instance_group", "compute_region_instance_group"}
        /\ t.project = r.project
    BY <1>2, <1>3, <1>9, ReferencesAssumption
  <2>2. keyOf(e) = instanceGroupKey(r, t)
    BY <1>1, <1>9 DEF keyLookedUp
  <2>3. CASE t.kind = "compute_instance_group"
    BY <1>1, <1>4, <2>1, <2>2, <2>3 DEF keyOf, instanceGroupKey
  <2>4. CASE t.kind # "compute_instance_group"
    <3>1. keyOf(e) = <<"instanceGroups", r.project, "zones", t.name>>
      BY <2>2, <2>4 DEF instanceGroupKey
    <3>2. keyOf(e) \in {<<"disk", e.place, e.name>>, <<"region_disk", e.place, e.name>>,
                        <<"snapshot", e.place, e.name>>,
                        <<"instanceGroups", e.project, e.place, e.name>>,
                        <<e.kind, e.project, e.place, e.name>>}
      BY DEF keyOf
    <3> QED
      BY <1>5, <1>6, <3>1, <3>2
  <2> QED
    BY <2>3, <2>4
<1>10. CASE field = "sourceImageId"
  <2>1. keyOf(e) = keyOf(r)
    BY <1>1, <1>10 DEF keyLookedUp
  <2>2. e = r
    BY <1>3, <2>1, KeysAssumption
  <2> QED
    BY <1>1, <1>10, <2>2
<1>11. CASE field \notin {"disks", "sourceDiskId", "created-by", "sourceImageId"}
  BY <1>1, <1>4, <1>11 DEF keyLookedUp
<1> QED
  BY <1>7, <1>8, <1>9, <1>10, <1>11

foundLink(x, r) ==
  \E class \in Classes : \E field :
    /\ field # "peerings"
    /\ \E e \in found(r, field) : x = Direct(r, class, e) \/ x = Direct(e, class, r)

\* The relationships a handler makes of r, by what they rest on.
Made(x, s, r) ==
  \/ foundLink(x, r)
  \/ \E t \in refers(r, "allowed") : x = Mapped(r, "ALLOWS", t)
  \/ \E t \in refers(r, "denied") : x = Mapped(r, "DENIES", t)
  \/ \E e \in entities : r \in refers(e, "sslPolicy") /\ x = Direct(e, "HAS", r)
  \/ s \in lists /\ \E t \in refers(r, "namedPorts") : x = Direct(r, "HAS", t)
  \/ s = COMPUTE_PROJECT /\ \E e \in entities : x = Direct(r, "HAS", e)
  \/ /\ s \in {DISK_KMS, IMAGE_KMS} /\ found(r, "kmsKeyName") = {}
     /\ \E t \in refers(r, "kmsKeyName") : x = Mapped(r, "USES", t)

LEMMA LinksFound ==
  ASSUME NEW r, NEW field, field # "peerings", NEW class \in Classes,
         NEW x \in uses(r, field, class) \cup usedBy(r, field, class)
  PROVE  foundLink(x, r)
BY DEF foundLink, uses, usedBy

LEMMA RelationshipsMade ==
  ASSUME NEW s, NEW r, NEW x \in relationshipsOf(s, r)
  PROVE  Made(x, s, r)
<1>1. \/ relationshipsOf(s, r) \in
        { fetchComputeFirewalls(r), fetchComputeSubnetworks(r), fetchComputeGlobalAddresses(r),
          fetchComputeAddresses(r), fetchComputeForwardingRules(r),
          fetchComputeGlobalForwardingRules(r), fetchComputeBackendServices(r),
          fetchComputeRegionBackendServices(r), fetchComputeLoadBalancers(r),
          fetchComputeRegionLoadBalancers(r), fetchComputeTargetProxies(r),
          fetchComputeTargetSslProxies(r), fetchComputeSslPolicies(r), createdImages(r),
          instanceRelationships(r), buildComputeBackendBucketHasBucketRelationships(r),
          buildComputeInstanceServiceAccountRelationships(r),
          buildComputeSnapshotDiskRelationships(r), buildImageCreatedImageRelationships(r), {} }
      \/ /\ s \in {"fetch-compute-instance-groups", "fetch-compute-region-instance-groups"}
         /\ relationshipsOf(s, r) = fetchComputeInstanceGroups(r)
      \/ s = COMPUTE_PROJECT /\ relationshipsOf(s, r) = projectInstances(r)
      \/ s \in {DISK_KMS, IMAGE_KMS} /\ relationshipsOf(s, r) = buildUsesKmsRelationships(r)
  BY DEF relationshipsOf, COMPUTE_PROJECT, DISK_KMS, IMAGE_KMS
<1> USE LinksFound DEF Classes, Made
<1>2. CASE x \in fetchComputeFirewalls(r)
  BY <1>2 DEF fetchComputeFirewalls, processFirewallRuleLists
<1>3. CASE x \in fetchComputeSubnetworks(r) \cup fetchComputeGlobalAddresses(r)
                   \cup fetchComputeAddresses(r)
  BY <1>3 DEF fetchComputeSubnetworks, fetchComputeGlobalAddresses, fetchComputeAddresses
<1>4. CASE x \in fetchComputeForwardingRules(r) \cup fetchComputeGlobalForwardingRules(r)
  BY <1>4 DEF fetchComputeForwardingRules, fetchComputeGlobalForwardingRules
<1>5. CASE x \in fetchComputeBackendServices(r) \cup fetchComputeRegionBackendServices(r)
                   \cup fetchComputeLoadBalancers(r) \cup fetchComputeRegionLoadBalancers(r)
  BY <1>5 DEF fetchComputeBackendServices, fetchComputeRegionBackendServices,
     fetchComputeLoadBalancers, fetchComputeRegionLoadBalancers
<1>6. CASE x \in fetchComputeTargetProxies(r) \cup fetchComputeTargetSslProxies(r)
                   \cup fetchComputeSslPolicies(r)
  BY <1>6 DEF fetchComputeTargetProxies, fetchComputeTargetSslProxies, fetchComputeSslPolicies
<1>7. CASE x \in createdImages(r) \cup instanceRelationships(r)
                   \cup buildComputeBackendBucketHasBucketRelationships(r)
  BY <1>7 DEF createdImages, instanceRelationships,
     buildComputeBackendBucketHasBucketRelationships
<1>8. CASE x \in buildComputeInstanceServiceAccountRelationships(r)
                   \cup buildComputeSnapshotDiskRelationships(r)
                   \cup buildImageCreatedImageRelationships(r)
  BY <1>8 DEF buildComputeInstanceServiceAccountRelationships,
     buildComputeSnapshotDiskRelationships, buildImageCreatedImageRelationships
<1>9. CASE /\ s \in {"fetch-compute-instance-groups", "fetch-compute-region-instance-groups"}
           /\ x \in fetchComputeInstanceGroups(r)
  BY <1>9, Listings DEF fetchComputeInstanceGroups
<1>10. CASE s = COMPUTE_PROJECT /\ x \in projectInstances(r)
  BY <1>10 DEF projectInstances
<1>11. CASE s \in {DISK_KMS, IMAGE_KMS} /\ x \in buildUsesKmsRelationships(r)
  BY <1>11 DEF buildUsesKmsRelationships
<1> QED
  BY <1>1, <1>2, <1>3, <1>4, <1>5, <1>6, <1>7, <1>8, <1>9, <1>10, <1>11


-----------------------------------------------------------------------------
(* The steps of the handlers                                                 *)

\* The next resource of a listing or of an iteration, with its entity.
Adds(s, r) ==
  /\ s \in DOMAIN status /\ s \notin {PEERINGS, DISK_IMAGE}
  /\ Take(s, r) /\ AddEntityAndRelationships(s, r)
  /\ UNCHANGED refused

LEMMA StepCases ==
  ASSUME [Next]_vars
  PROVE  \/ \E s \in DOMAIN status : Start(s) \/ Finish(s) \/ Fail(s)
         \/ \E s \in DOMAIN status : \E r \in toProcess(s) : RefusePage(s, r)
         \/ \E s \in DOMAIN status : \E r \in toProcess(s) : Adds(s, r)
         \/ \E r \in cloud.resources : RefuseImagePolicy(r)
         \/ \E r \in cloud.resources, refusal \in BOOLEAN :
              BuildDiskImageRelationships(r, refusal)
         \/ \E r \in cloud.resources : \E before \in SUBSET refers(r, "peerings") :
              BuildComputeNetworkPeeringRelationships(r, before)
         \/ UNCHANGED vars
<1>1. ASSUME NEW s \in DOMAIN status, NEW r \in toProcess(s), Process(s, r)
      PROVE  Adds(s, r)
  BY <1>1 DEF Process, Adds, PEERINGS, DISK_IMAGE, HandledElsewhere
<1>2. ASSUME NEW r, FetchComputeImage(r)
      PROVE  IMAGES \in DOMAIN status /\ r \in toProcess(IMAGES) /\ Adds(IMAGES, r)
  BY <1>2 DEF FetchComputeImage, Adds, Take, running, PEERINGS, DISK_IMAGE, IMAGES
<1>3. ASSUME NEW r, NEW outcome, FetchComputeInstance(r, outcome)
      PROVE  INSTANCES \in DOMAIN status /\ r \in toProcess(INSTANCES) /\ Adds(INSTANCES, r)
  BY <1>3 DEF FetchComputeInstance, Adds, Take, running, PEERINGS, DISK_IMAGE, INSTANCES
<1> QED
  BY <1>1, <1>2, <1>3 DEF Next

LEMMA Kept ==
  ASSUME [Next]_vars
  PROVE  /\ cloud' = cloud
         /\ entities \subseteq entities' /\ relationships \subseteq relationships'
         /\ diskKeys \subseteq diskKeys'
         /\ truncated \subseteq truncated' /\ refused \subseteq refused'
<1> USE DEF vars, jobState
<1>1. ASSUME NEW s \in DOMAIN status, Start(s) \/ Finish(s) \/ Fail(s)
      PROVE  UNCHANGED <<cloud, entities, relationships, diskKeys, truncated, refused>>
  BY <1>1 DEF Start, Finish, Fail
<1>2. ASSUME NEW s, NEW r, RefusePage(s, r)
      PROVE  /\ UNCHANGED <<cloud, entities, relationships, diskKeys, refused>>
             /\ truncated \subseteq truncated'
  BY <1>2 DEF RefusePage
<1>3. ASSUME NEW s, NEW r, Adds(s, r)
      PROVE  /\ UNCHANGED <<cloud, truncated, refused>>
             /\ entities \subseteq entities' /\ relationships \subseteq relationships'
             /\ diskKeys \subseteq diskKeys'
  BY <1>3 DEF Adds, Take, AddEntityAndRelationships
<1>4. ASSUME NEW r, RefuseImagePolicy(r)
      PROVE  /\ UNCHANGED <<cloud, entities, relationships, diskKeys, truncated>>
             /\ refused \subseteq refused'
  BY <1>4 DEF RefuseImagePolicy, Take
<1>5. ASSUME NEW r, NEW refusal, BuildDiskImageRelationships(r, refusal)
      PROVE  /\ UNCHANGED <<cloud, entities, diskKeys, truncated>>
             /\ relationships \subseteq relationships' /\ refused \subseteq refused'
  BY <1>5 DEF BuildDiskImageRelationships, Take
<1>6. ASSUME NEW r, NEW before, BuildComputeNetworkPeeringRelationships(r, before)
      PROVE  /\ UNCHANGED <<cloud, entities, diskKeys, truncated, refused>>
             /\ relationships \subseteq relationships'
  BY <1>6 DEF BuildComputeNetworkPeeringRelationships
<1> QED
  BY <1>1, <1>2, <1>3, <1>4, <1>5, <1>6, StepCases

\* Of the statuses, and of what is processed.
Moves(s) ==
  \/ status'[s] = status[s]
  \/ status[s] = "pending" /\ status'[s] = "running" /\ \A d \in dependsOn[s] : Ended(d)
  \/ running(s) /\ status'[s] = "success" /\ toProcess(s) = {}
  \/ running(s) /\ status'[s] = "failure"

LEMMA StatusMoves ==
  ASSUME TypeOK, [Next]_vars
  PROVE  /\ status' \in [cloud.steps -> {"pending", "running", "success", "failure"}]
         /\ \A s \in DOMAIN status : Moves(s)
<1> USE Typed DEF vars, jobState, Moves
<1>1. ASSUME NEW s \in DOMAIN status, Start(s)
      PROVE  /\ status' \in [cloud.steps -> {"pending", "running", "success", "failure"}]
             /\ \A t \in DOMAIN status : Moves(t)
  BY <1>1 DEF Start, Ended
<1>2. ASSUME NEW s \in DOMAIN status, Finish(s) \/ Fail(s)
      PROVE  /\ status' \in [cloud.steps -> {"pending", "running", "success", "failure"}]
             /\ \A t \in DOMAIN status : Moves(t)
  BY <1>2 DEF Finish, Fail
<1>3. ASSUME NEW s, NEW r, RefusePage(s, r) \/ Adds(s, r)
      PROVE  status' = status
  BY <1>3 DEF RefusePage, Adds, Take
<1>4. ASSUME NEW r, RefuseImagePolicy(r)
      PROVE  status' = status
  BY <1>4 DEF RefuseImagePolicy, Take
<1>5. ASSUME NEW r, NEW refusal, BuildDiskImageRelationships(r, refusal)
      PROVE  status' = status
  BY <1>5 DEF BuildDiskImageRelationships, Take
<1>6. ASSUME NEW r, NEW before, BuildComputeNetworkPeeringRelationships(r, before)
      PROVE  status' = status
  BY <1>6 DEF BuildComputeNetworkPeeringRelationships
<1> QED
  BY <1>1, <1>2, <1>3, <1>4, <1>5, <1>6, StepCases

LEMMA DoneMoves ==
  ASSUME TypeOK, [Next]_vars
  PROVE  /\ done' \in [cloud.steps -> SUBSET cloud.resources]
         /\ \A s \in DOMAIN status :
              /\ done[s] \subseteq done'[s]
              /\ done'[s] # done[s] => running(s)
              /\ \A r \in done'[s] \ done[s] : r \in toProcess(s)
              /\ \A r \in done'[s] \ done[s] : s # PEERINGS =>
                   \/ Adds(s, r) \/ (s = IMAGES /\ RefuseImagePolicy(r))
                   \/ /\ s = DISK_IMAGE
                      /\ \E refusal \in BOOLEAN : BuildDiskImageRelationships(r, refusal)
<1> USE Typed DEF vars, jobState
<1>1. ASSUME NEW s \in DOMAIN status, Start(s) \/ Finish(s) \/ Fail(s)
      PROVE  done' = done
  BY <1>1 DEF Start, Finish, Fail
<1>2. ASSUME NEW s, NEW r, RefusePage(s, r)
      PROVE  done' = done
  BY <1>2 DEF RefusePage
<1>3. ASSUME NEW s, NEW r, Take(s, r)
      PROVE  /\ s \in DOMAIN status /\ running(s) /\ r \in toProcess(s)
             /\ done' = [done EXCEPT ![s] = @ \cup {r}] /\ r \in cloud.resources
  <2>1. s \in DOMAIN status /\ r \in toProcess(s)
    BY <1>3 DEF Take, running
  <2> QED
    BY <1>3, <2>1, Processed DEF Take
<1>4. ASSUME NEW s, NEW r, Adds(s, r)
      PROVE  Take(s, r)
  BY <1>4 DEF Adds
<1>5. ASSUME NEW r, RefuseImagePolicy(r)
      PROVE  Take(IMAGES, r)
  BY <1>5 DEF RefuseImagePolicy, IMAGES
<1>6. ASSUME NEW r, NEW refusal, BuildDiskImageRelationships(r, refusal)
      PROVE  Take(DISK_IMAGE, r)
  BY <1>6 DEF BuildDiskImageRelationships, DISK_IMAGE
<1>7. ASSUME NEW r, NEW before, BuildComputeNetworkPeeringRelationships(r, before)
      PROVE  /\ PEERINGS \in DOMAIN status /\ running(PEERINGS)
             /\ \E new \in SUBSET toProcess(PEERINGS) :
                  /\ done' = [done EXCEPT ![PEERINGS] = @ \cup new]
                  /\ new \subseteq cloud.resources
  <2>1. PEERINGS \in DOMAIN status
    BY <1>7 DEF BuildComputeNetworkPeeringRelationships, running, PEERINGS
  <2>2. toProcess(PEERINGS) \subseteq cloud.resources
    BY <2>1, Processed
  <2>3. PICK new \in SUBSET toProcess(PEERINGS) : done' = [done EXCEPT ![PEERINGS] = @ \cup new]
    BY <1>7 DEF BuildComputeNetworkPeeringRelationships, PEERINGS
  <2> QED
    BY <1>7, <2>1, <2>2, <2>3 DEF BuildComputeNetworkPeeringRelationships, PEERINGS
<1>8. CASE \E s \in DOMAIN status : \E r \in toProcess(s) : Adds(s, r)
  <2>1. PICK s \in DOMAIN status : \E r \in toProcess(s) : Adds(s, r)
    BY <1>8
  <2>2. PICK r \in toProcess(s) : Adds(s, r)
    BY <2>1
  <2>3. Take(s, r)
    BY <1>4, <2>2
  <2> QED
    BY <1>3, <2>2, <2>3
<1>9. CASE \E r \in cloud.resources : RefuseImagePolicy(r)
  BY <1>3, <1>5, <1>9
<1>10. CASE \E r \in cloud.resources, refusal \in BOOLEAN :
              BuildDiskImageRelationships(r, refusal)
  BY <1>3, <1>6, <1>10
<1>11. CASE \E r \in cloud.resources : \E before \in SUBSET refers(r, "peerings") :
              BuildComputeNetworkPeeringRelationships(r, before)
  BY <1>7, <1>11
<1>12. CASE \/ \E s \in DOMAIN status : Start(s) \/ Finish(s) \/ Fail(s)
            \/ \E s \in DOMAIN status : \E r \in toProcess(s) : RefusePage(s, r)
            \/ UNCHANGED vars
  <2>1. done' = done
    BY <1>1, <1>2, <1>12
  <2> QED
    BY <2>1
<1> QED
  BY <1>8, <1>9, <1>10, <1>11, <1>12, StepCases

LEMMA EntitiesMoves ==
  ASSUME TypeOK, [Next]_vars, NEW e \in entities' \ entities
  PROVE  \E s \in DOMAIN status \cap lists : \E r \in toProcess(s) :
           /\ running(s) /\ r \in done'[s]
           /\ e = r \/ e \in refers(r, "namedPorts")
<1>1. ASSUME NEW s \in DOMAIN status, Start(s) \/ Finish(s) \/ Fail(s)
      PROVE  entities' = entities
  BY <1>1 DEF Start, Finish, Fail, jobState
<1>2. ASSUME NEW s, NEW r, RefusePage(s, r)
      PROVE  entities' = entities
  BY <1>2 DEF RefusePage, jobState
<1>3. ASSUME NEW s \in DOMAIN status, NEW r \in toProcess(s), Adds(s, r)
      PROVE  /\ s \in lists /\ running(s) /\ r \in done'[s]
             /\ e = r \/ e \in refers(r, "namedPorts")
  <2>1. s \in DOMAIN done
    BY Typed
  <2> QED
    BY <1>3, <2>1 DEF Adds, Take, AddEntityAndRelationships
<1>4. ASSUME NEW r, RefuseImagePolicy(r)
      PROVE  entities' = entities
  BY <1>4 DEF RefuseImagePolicy
<1>5. ASSUME NEW r, NEW refusal, BuildDiskImageRelationships(r, refusal)
      PROVE  entities' = entities
  BY <1>5 DEF BuildDiskImageRelationships
<1>6. ASSUME NEW r, NEW before, BuildComputeNetworkPeeringRelationships(r, before)
      PROVE  entities' = entities
  BY <1>6 DEF BuildComputeNetworkPeeringRelationships
<1> QED
  BY <1>1, <1>2, <1>3, <1>4, <1>5, <1>6, StepCases DEF vars, jobState

\* A new relationship, of what step s processes.
New(x, s, r) ==
  /\ s \in DOMAIN status /\ running(s) /\ r \in toProcess(s) /\ r \in entities'
  /\ s \notin lists => entities' = entities
  /\ s \in lists => refers(r, "namedPorts") \subseteq entities'
  /\ \/ Made(x, s, r)
     \/ \E t \in refers(r, "sourceImage") : t.project # Own /\ x = Mapped(r, "USES", t)
     \/ \E t \in refers(r, "peerings") : t \notin missing(r) /\ x = peering(r, t)

LEMMA RelationshipsAdded ==
  ASSUME TypeOK, [Next]_vars, NEW x \in relationships' \ relationships
  PROVE  \E s, r : New(x, s, r)
<1>1. ASSUME NEW s \in DOMAIN status, Start(s) \/ Finish(s) \/ Fail(s)
      PROVE  relationships' = relationships
  BY <1>1 DEF Start, Finish, Fail, jobState
<1>2. ASSUME NEW s, NEW r, RefusePage(s, r)
      PROVE  relationships' = relationships
  BY <1>2 DEF RefusePage, jobState
<1>3. ASSUME NEW s \in DOMAIN status, NEW r \in toProcess(s), Adds(s, r)
      PROVE  New(x, s, r)
  <2>1. Made(x, s, r)
    BY <1>3, RelationshipsMade DEF Adds, AddEntityAndRelationships
  <2>2. running(s)
    BY <1>3 DEF Adds, Take
  <2>3. CASE s \in lists
    BY <1>3, <2>1, <2>2, <2>3 DEF New, Adds, AddEntityAndRelationships
  <2>4. CASE s \notin lists
    <3>1. r \in entities /\ entities' = entities
      BY <1>3, <2>4, Processed DEF Adds, AddEntityAndRelationships
    <3> QED
      BY <2>1, <2>2, <2>4, <3>1 DEF New
  <2> QED
    BY <2>3, <2>4
<1>4. ASSUME NEW r, RefuseImagePolicy(r)
      PROVE  relationships' = relationships
  BY <1>4 DEF RefuseImagePolicy
<1>5. ASSUME NEW r, NEW refusal, BuildDiskImageRelationships(r, refusal)
      PROVE  New(x, DISK_IMAGE, r)
  <2>1. DISK_IMAGE \in DOMAIN status /\ running(DISK_IMAGE) /\ r \in toProcess(DISK_IMAGE)
    BY <1>5 DEF BuildDiskImageRelationships, Take, running, DISK_IMAGE
  <2>2. r \in entities /\ entities' = entities /\ DISK_IMAGE \notin lists
    BY <1>5, <2>1, Processed, Listings DEF BuildDiskImageRelationships
  <2>3. \/ x \in uses(r, "sourceImage", "USES")
        \/ \E t \in refers(r, "sourceImage") : t.project # Own /\ x = Mapped(r, "USES", t)
    BY <1>5 DEF BuildDiskImageRelationships
  <2>4. x \in uses(r, "sourceImage", "USES") => Made(x, DISK_IMAGE, r)
    BY LinksFound DEF Made, Classes
  <2> QED
    BY <2>1, <2>2, <2>3, <2>4 DEF New
<1>6. ASSUME NEW r, NEW before \in SUBSET refers(r, "peerings"),
             BuildComputeNetworkPeeringRelationships(r, before)
      PROVE  New(x, PEERINGS, r)
  <2>1. PEERINGS \in DOMAIN status /\ running(PEERINGS) /\ r \in toProcess(PEERINGS)
    BY <1>6 DEF BuildComputeNetworkPeeringRelationships, running, PEERINGS
  <2>2. r \in entities /\ entities' = entities /\ PEERINGS \notin lists
    BY <1>6, <2>1, Processed, Listings DEF BuildComputeNetworkPeeringRelationships
  <2>3. \E t \in before : x = peering(r, t)
    BY <1>6 DEF BuildComputeNetworkPeeringRelationships
  <2>4. before \cap missing(r) = {}
    BY <1>6 DEF BuildComputeNetworkPeeringRelationships
  <2> QED
    BY <2>1, <2>2, <2>3, <2>4 DEF New
<1> QED
  BY <1>1, <1>2, <1>3, <1>4, <1>5, <1>6, StepCases DEF vars, jobState

LEMMA NewTyped ==
  ASSUME TypeOK, NEW x, NEW s, NEW r, New(x, s, r)
  PROVE  /\ {x.from, x.to} \subseteq cloud.resources
         /\ x.class \in Classes /\ x.mapped \in BOOLEAN
<1> r \in cloud.resources
  BY Processed DEF New
<1> USE DEF Direct, Mapped
<1>1. CASE foundLink(x, r)
  <2>1. PICK class \in Classes : \E field : \E e \in found(r, field) :
          x = Direct(r, class, e) \/ x = Direct(e, class, r)
    BY <1>1 DEF foundLink
  <2>9. PICK field : \E e \in found(r, field) :
          x = Direct(r, class, e) \/ x = Direct(e, class, r)
    BY <2>1
  <2>2. PICK e \in found(r, field) : x = Direct(r, class, e) \/ x = Direct(e, class, r)
    BY <2>9
  <2>3. e \in cloud.resources
    BY Typed, FoundReferred
  <2>4. CASE x = Direct(r, class, e)
    BY <2>1, <2>3, <2>4
  <2>5. CASE x = Direct(e, class, r)
    BY <2>1, <2>3, <2>5
  <2> QED
    BY <2>2, <2>4, <2>5
<1>2. \A field : refers(r, field) \subseteq cloud.resources
  BY Referred
<1>3. entities \subseteq cloud.resources
  BY Typed
<1>4. CASE \E t \in refers(r, "peerings") : t \notin missing(r) /\ x = peering(r, t)
  BY <1>2, <1>4 DEF peering, Classes
<1>5. ASSUME NEW e \in entities
      PROVE  /\ {e, r} \subseteq cloud.resources
             /\ Direct(e, "HAS", r).class \in Classes /\ Direct(r, "HAS", e).class \in Classes
  BY <1>3 DEF Classes
<1>6. CASE \E t \in UNION {refers(r, field) :
                              field \in {"allowed", "denied", "kmsKeyName", "sourceImage"}},
              class \in {"ALLOWS", "DENIES", "USES"} : x = Mapped(r, class, t)
  BY <1>2, <1>6 DEF Classes
<1>7. CASE \E t \in refers(r, "namedPorts") : x = Direct(r, "HAS", t)
  BY <1>2, <1>7 DEF Classes
<1>8. CASE \E e \in entities : x = Direct(e, "HAS", r)
  BY <1>5, <1>8
<1>9. CASE \E e \in entities : x = Direct(r, "HAS", e)
  BY <1>5, <1>9
<1> HIDE DEF Direct, Mapped
<1> QED
  BY <1>1, <1>4, <1>6, <1>7, <1>8, <1>9 DEF New, Made
-----------------------------------------------------------------------------
(* The type of the state                                                     *)

LEMMA DataTyped ==
  ASSUME TypeOK, DoneAdded, [Next]_vars
  PROVE  /\ truncated' \subseteq lists \X {r.place : r \in cloud.resources}
         /\ refused' \subseteq cloud.resources
         /\ diskKeys' \subseteq entities'
         /\ peeredNetworks' = None \/ peeredNetworks' \subseteq entities'
         /\ instanceServiceAccounts' = None \/ instanceServiceAccounts' \subseteq entities'
<1> USE DEF jobState
<1>t. truncated \subseteq lists \X {r.place : r \in cloud.resources}
  BY DEF TypeOK
<1>k. entities \subseteq entities'
  BY Kept
<1>1. ASSUME NEW s \in DOMAIN status, Start(s) \/ Fail(s)
      PROVE  UNCHANGED <<truncated, refused, diskKeys, peeredNetworks, instanceServiceAccounts>>
  BY <1>1 DEF Start, Fail
<1>2. ASSUME NEW s \in DOMAIN status, Finish(s)
      PROVE  /\ UNCHANGED <<truncated, refused, diskKeys>>
             /\ peeredNetworks' = None \/ peeredNetworks' \subseteq entities'
             /\ instanceServiceAccounts' = None \/ instanceServiceAccounts' \subseteq entities'
  <2>1. \A t \in {"fetch-compute-networks", "fetch-compute-instances"} :
          t = s => done[s] \subseteq entities
    BY Listings DEF DoneAdded, IMAGES, INSTANCES, NETWORKS
  <2>2. \/ peeredNetworks' = peeredNetworks
        \/ peeredNetworks' \subseteq done[s] /\ s = "fetch-compute-networks"
    BY <1>2 DEF Finish, dataAfter
  <2>3. \/ instanceServiceAccounts' = instanceServiceAccounts
        \/ instanceServiceAccounts' \subseteq done[s] /\ s = "fetch-compute-instances"
    BY <1>2 DEF Finish, dataAfter
  <2>4. UNCHANGED <<truncated, refused, diskKeys>>
    BY <1>2 DEF Finish
  <2> QED
    BY <1>k, <2>1, <2>2, <2>3, <2>4, Typed
<1>3. ASSUME NEW s \in DOMAIN status, NEW r \in toProcess(s), RefusePage(s, r)
      PROVE  /\ UNCHANGED <<refused, diskKeys, peeredNetworks, instanceServiceAccounts>>
             /\ truncated' \subseteq lists \X {q.place : q \in cloud.resources}
  <2>1. s \in lists /\ r \in cloud.resources
    BY <1>3, Processed DEF RefusePage
  <2>2. truncated' = truncated \cup {<<s, r.place>>}
    BY <1>3 DEF RefusePage, endsListing
  <2>3. <<s, r.place>> \in lists \X {q.place : q \in cloud.resources}
    BY <2>1
  <2>4. UNCHANGED <<refused, diskKeys, peeredNetworks, instanceServiceAccounts>>
    BY <1>3 DEF RefusePage
  <2> QED
    BY <1>t, <2>2, <2>3, <2>4
<1>4. ASSUME NEW s \in DOMAIN status, NEW r \in toProcess(s), Adds(s, r)
      PROVE  /\ UNCHANGED <<truncated, refused, peeredNetworks, instanceServiceAccounts>>
             /\ diskKeys' \subseteq entities'
  <2>1. UNCHANGED <<truncated, refused, peeredNetworks, instanceServiceAccounts>>
    BY <1>4 DEF Adds, Take
  <2>2. diskKeys' = diskKeys \/ (diskKeys' = diskKeys \cup {r} /\ r \in entities')
    BY <1>4, Listings DEF Adds, AddEntityAndRelationships
  <2> QED
    BY <1>k, <2>1, <2>2, Typed
<1>5. ASSUME NEW r \in cloud.resources, RefuseImagePolicy(r)
      PROVE  /\ UNCHANGED <<truncated, diskKeys, peeredNetworks, instanceServiceAccounts>>
             /\ refused' = refused \cup {r}
  BY <1>5 DEF RefuseImagePolicy, Take
<1>6. ASSUME NEW r \in cloud.resources, NEW refusal \in BOOLEAN,
             BuildDiskImageRelationships(r, refusal)
      PROVE  /\ UNCHANGED <<truncated, diskKeys, peeredNetworks, instanceServiceAccounts>>
             /\ refused' = refused \/ refused' = refused \cup {r}
  BY <1>6 DEF BuildDiskImageRelationships, Take
<1>7. ASSUME NEW r, NEW before, BuildComputeNetworkPeeringRelationships(r, before)
      PROVE  UNCHANGED <<truncated, refused, diskKeys, peeredNetworks, instanceServiceAccounts>>
  BY <1>7 DEF BuildComputeNetworkPeeringRelationships
<1>8. CASE UNCHANGED vars
  BY <1>8, <1>t, Typed DEF vars
<1> QED
  BY <1>t, <1>k, <1>1, <1>2, <1>3, <1>4, <1>5, <1>6, <1>7, <1>8, StepCases, Typed

LEMMA FaultMade ==
  ASSUME TypeOK, faults' = faults \/ Fault
  PROVE  faults' \in 0..MaxFaults /\ faults' >= faults
<1>1. faults \in 0..MaxFaults
  BY DEF TypeOK
<1>2. MaxFaults \in Nat
  BY CloudAssumption
<1>3. faults' = faults \/ (faults < MaxFaults /\ faults' = faults + 1)
  BY DEF Fault
<1> QED
  BY <1>1, <1>2, <1>3

LEMMA FaultMoves ==
  ASSUME [Next]_vars
  PROVE  faults' = faults \/ Fault
<1>1. ASSUME NEW s, Start(s) \/ Finish(s) \/ Fail(s) PROVE faults' = faults \/ Fault
  BY <1>1 DEF Start, Finish, Fail
<1>2. ASSUME NEW s, NEW r, RefusePage(s, r) \/ Process(s, r) PROVE faults' = faults \/ Fault
  BY <1>2 DEF RefusePage, Process
<1>3. ASSUME NEW r, FetchComputeImage(r) \/ RefuseImagePolicy(r)
      PROVE  faults' = faults \/ Fault
  BY <1>3 DEF FetchComputeImage, RefuseImagePolicy
<1>4. ASSUME NEW r, NEW outcome, FetchComputeInstance(r, outcome)
      PROVE  faults' = faults \/ Fault
  BY <1>4 DEF FetchComputeInstance
<1>5. ASSUME NEW r, NEW refusal, BuildDiskImageRelationships(r, refusal)
      PROVE  faults' = faults \/ Fault
  BY <1>5 DEF BuildDiskImageRelationships
<1>6. ASSUME NEW r, NEW before, BuildComputeNetworkPeeringRelationships(r, before)
      PROVE  faults' = faults \/ Fault
  BY <1>6 DEF BuildComputeNetworkPeeringRelationships
<1>7. CASE UNCHANGED vars
  BY <1>7 DEF vars
<1> HIDE DEF Fault
<1> QED
  BY <1>1, <1>2, <1>3, <1>4, <1>5, <1>6, <1>7 DEF Next

\* What the inventory call of an instance does.
Reports(r, outcome) ==
  /\ INSTANCES \in DOMAIN status /\ r \in done'[INSTANCES] \ done[INSTANCES]
  /\ r \in computeInstances
  /\ outcome \in Outcomes
  /\ outcome = "not called" <=> inventoryApiDisabled
  /\ inventory' = [inventory EXCEPT ![r] = outcome]
  /\ inventoryApiDisabled' = (inventoryApiDisabled \/ catches403(outcome))

LEMMA InventoryMoves ==
  ASSUME TypeOK, [Next]_vars
  PROVE  \/ inventory' = inventory /\ inventoryApiDisabled' = inventoryApiDisabled
         \/ \E r \in cloud.resources : \E outcome : Reports(r, outcome)
<1>1. ASSUME NEW s, Start(s) \/ Finish(s) \/ Fail(s)
      PROVE  inventory' = inventory /\ inventoryApiDisabled' = inventoryApiDisabled
  BY <1>1 DEF Start, Finish, Fail
<1>2. ASSUME NEW s, NEW r, RefusePage(s, r) \/ Process(s, r)
      PROVE  inventory' = inventory /\ inventoryApiDisabled' = inventoryApiDisabled
  BY <1>2 DEF RefusePage, Process
<1>3. ASSUME NEW r, FetchComputeImage(r) \/ RefuseImagePolicy(r)
      PROVE  inventory' = inventory /\ inventoryApiDisabled' = inventoryApiDisabled
  BY <1>3 DEF FetchComputeImage, RefuseImagePolicy
<1>4. ASSUME NEW r, NEW outcome \in Outcomes,
             FetchComputeInstance(r, outcome)
      PROVE  Reports(r, outcome)
  <2>1. INSTANCES \in DOMAIN status /\ r \in toProcess(INSTANCES)
    BY <1>4 DEF FetchComputeInstance, Take, running, INSTANCES
  <2>2. r \notin done[INSTANCES] /\ r \in cloud.resources /\ r \in listed(INSTANCES)
    BY <2>1, Processed, Listings
  <2>6. r \in computeInstances
    <3>1. INSTANCES \in stepIds \cap handled
      BY <2>1, Typed, Listings
    <3>2. writes[INSTANCES] = {"compute_instance"}
      BY <3>1, Catalog
    <3> QED
      BY <2>2, <3>2 DEF listed, computeInstances
  <2>3. done' = [done EXCEPT ![INSTANCES] = @ \cup {r}]
    BY <1>4 DEF FetchComputeInstance, Take, INSTANCES
  <2>4. r \in done'[INSTANCES]
    BY <2>1, <2>3, Typed
  <2>5. /\ outcome = "not called" <=> inventoryApiDisabled
        /\ inventory' = [inventory EXCEPT ![r] = outcome]
        /\ inventoryApiDisabled' = (inventoryApiDisabled \/ catches403(outcome))
    BY <1>4 DEF FetchComputeInstance
  <2> QED
    BY <2>1, <2>2, <2>4, <2>5, <2>6 DEF Reports
<1>5. ASSUME NEW r, NEW refusal, BuildDiskImageRelationships(r, refusal)
      PROVE  inventory' = inventory /\ inventoryApiDisabled' = inventoryApiDisabled
  BY <1>5 DEF BuildDiskImageRelationships
<1>6. ASSUME NEW r, NEW before, BuildComputeNetworkPeeringRelationships(r, before)
      PROVE  inventory' = inventory /\ inventoryApiDisabled' = inventoryApiDisabled
  BY <1>6 DEF BuildComputeNetworkPeeringRelationships
<1>7. CASE UNCHANGED vars
  BY <1>7 DEF vars
<1> QED
  BY <1>1, <1>2, <1>3, <1>4, <1>5, <1>6, <1>7 DEF Next

LEMMA FaultsTyped ==
  ASSUME TypeOK, [Next]_vars
  PROVE  /\ inventory' \in [computeInstances -> Outcomes \cup {"none yet"}]
         /\ inventoryApiDisabled' \in BOOLEAN
         /\ faults' \in 0..MaxFaults
<1>1. faults' \in 0..MaxFaults
  BY FaultMoves, FaultMade
<1>2. inventory \in [computeInstances -> Outcomes \cup {"none yet"}]
  BY DEF TypeOK
<1>3. inventoryApiDisabled \in BOOLEAN
  BY DEF TypeOK
<1>4. CASE inventory' = inventory /\ inventoryApiDisabled' = inventoryApiDisabled
  BY <1>1, <1>2, <1>3, <1>4
<1>5. ASSUME NEW r, NEW outcome, Reports(r, outcome)
      PROVE  /\ inventory'
                  \in [computeInstances -> Outcomes \cup {"none yet"}]
             /\ inventoryApiDisabled' \in BOOLEAN
  <2>1. /\ inventory' = [inventory EXCEPT ![r] = outcome]
        /\ outcome \in Outcomes \cup {"none yet"}
    BY <1>5 DEF Reports
  <2>2. inventoryApiDisabled' \in BOOLEAN
    BY <1>5 DEF Reports
  <2> QED
    BY <1>2, <2>1, <2>2
<1> QED
  BY <1>1, <1>4, <1>5, InventoryMoves

LEMMA TypeStep ==
  ASSUME TypeOK, DoneAdded, [Next]_vars
  PROVE  TypeOK'
<1>1. cloud' = cloud
  BY Kept
<1>2. /\ status' \in [cloud.steps -> {"pending", "running", "success", "failure"}]
      /\ done' \in [cloud.steps -> SUBSET cloud.resources]
  BY StatusMoves, DoneMoves
<1>3. entities' \subseteq cloud.resources
  <2> SUFFICES ASSUME NEW e \in entities' \ entities PROVE e \in cloud.resources
    BY Typed
  <2>1. PICK s \in DOMAIN status, r \in cloud.resources : e = r \/ e \in refers(r, "namedPorts")
    BY EntitiesMoves, Processed
  <2> QED
    BY <2>1, Referred
<1>4. \A x \in relationships' : /\ {x.from, x.to} \subseteq cloud.resources
                                /\ x.class \in Classes /\ x.mapped \in BOOLEAN
  <2>1. \A x \in relationships : /\ {x.from, x.to} \subseteq cloud.resources
                                 /\ x.class \in Classes /\ x.mapped \in BOOLEAN
    BY DEF TypeOK
  <2> QED
    BY <2>1, RelationshipsAdded, NewTyped
<1>5. cloud \in Clouds
  BY Typed
<1>6. Classes' = Classes
  BY DEF Classes
<1>7. computeInstances' = computeInstances
  BY <1>1 DEF computeInstances
<1> QED
  BY <1>1, <1>2, <1>3, <1>4, <1>5, <1>6, <1>7, DataTyped, FaultsTyped DEF TypeOK

-----------------------------------------------------------------------------
(* The invariant is kept                                                     *)

LEMMA SameCloud ==
  ASSUME [Next]_vars
  PROVE  /\ \A r, field : refers(r, field)' = refers(r, field)
         /\ \A s : listed(s)' = listed(s)
BY Kept DEF refers, listed

LEMMA EndedKept ==
  ASSUME TypeOK, [Next]_vars, NEW s, Ended(s)
  PROVE  Ended(s)' /\ done'[s] = done[s]
<1>1. s \in DOMAIN status /\ status[s] \in {"success", "failure"}
  BY DEF Ended
<1>2. Moves(s) /\ DOMAIN status' = DOMAIN status /\ ~running(s)
  BY <1>1, StatusMoves, Typed DEF running
<1>3. status'[s] = status[s]
  BY <1>1, <1>2 DEF Moves
<1> QED
  BY <1>1, <1>2, <1>3, DoneMoves DEF Ended

LEMMA OrderStep ==
  ASSUME TypeOK, StepsInOrder, [Next]_vars
  PROVE  StepsInOrder'
<1> SUFFICES ASSUME NEW s \in DOMAIN status
             PROVE  /\ status'[s] # "pending" => \A d \in dependsOn[s] : Ended(d)'
                    /\ s \in lists /\ status'[s] = "success" =>
                         \A r \in listed(s) : <<s, r.place>> \in truncated' \/ r \in done'[s]
  <2>1. DOMAIN status' = DOMAIN status
    BY StatusMoves, Typed
  <2> QED
    BY <2>1, SameCloud DEF StepsInOrder
<1>1. Moves(s)
  BY StatusMoves
<1>2. ASSUME status'[s] # "pending" PROVE \A d \in dependsOn[s] : Ended(d)
  BY <1>1, <1>2 DEF Moves, StepsInOrder, running
<1>3. ASSUME s \in lists, status'[s] = "success", NEW r \in listed(s)
      PROVE  <<s, r.place>> \in truncated \/ r \in done[s]
  <2>1. CASE status'[s] = status[s]
    BY <1>3, <2>1 DEF StepsInOrder
  <2>2. CASE toProcess(s) = {}
    BY <1>3, <2>2, ListingOver
  <2> QED
    BY <1>1, <1>3, <2>1, <2>2 DEF Moves
<1>4. truncated \subseteq truncated' /\ done[s] \subseteq done'[s]
  BY Kept, DoneMoves
<1> QED
  BY <1>2, <1>3, <1>4, EndedKept

LEMMA DoneStep ==
  ASSUME TypeOK, DoneAdded, [Next]_vars
  PROVE  DoneAdded'
<1> SUFFICES ASSUME NEW s \in DOMAIN status \cap lists, NEW r \in done'[s]
             PROVE  /\ r \in listed(s)
                    /\ r \in entities' \/ (s = IMAGES /\ r \in refused')
  <2>1. DOMAIN status' = DOMAIN status
    BY StatusMoves, Typed
  <2> QED
    BY <2>1, SameCloud DEF DoneAdded
<1>1. entities \subseteq entities' /\ refused \subseteq refused'
  BY Kept
<1>2. CASE r \in done[s]
  BY <1>1, <1>2 DEF DoneAdded
<1>3. CASE r \notin done[s]
  <2>1. r \in toProcess(s) /\ s # PEERINGS /\ s # DISK_IMAGE
    BY <1>3, DoneMoves, Listings
  <2>2. r \in listed(s)
    BY <2>1, Processed
  <2>3. Adds(s, r) \/ (s = IMAGES /\ RefuseImagePolicy(r))
    BY <1>3, <2>1, DoneMoves
  <2>4. Adds(s, r) => r \in entities'
    BY DEF Adds, AddEntityAndRelationships
  <2>5. RefuseImagePolicy(r) => r \in refused'
    BY DEF RefuseImagePolicy
  <2> QED
    BY <2>2, <2>3, <2>4, <2>5
<1> QED
  BY <1>2, <1>3

LEMMA EntitiesStep ==
  ASSUME TypeOK, EntitiesOwn, [Next]_vars
  PROVE  EntitiesOwn'
<1>1. DOMAIN status' = DOMAIN status /\ \A s \in DOMAIN status : done[s] \subseteq done'[s]
  BY StatusMoves, DoneMoves, Typed
<1>2. ASSUME NEW e \in entities' \ entities
      PROVE  /\ e.project = Own
             /\ e.kind = "kms_crypto_key" => KMS_KEYS \in DOMAIN status /\ e \in done'[KMS_KEYS]
  <2>1. PICK s \in DOMAIN status \cap lists : \E r \in toProcess(s) :
          r \in done'[s] /\ (e = r \/ e \in refers(r, "namedPorts"))
    BY <1>2, EntitiesMoves
  <2>2. PICK r \in toProcess(s) : r \in done'[s] /\ (e = r \/ e \in refers(r, "namedPorts"))
    BY <2>1
  <2>3. r.project = Own /\ r.kind \in writes[s]
    BY <2>1, Processed DEF listed
  <2>4. CASE e = r
    <3>1. s \in stepIds \cap handled
      BY <2>1, Typed, Listings
    <3> QED
      BY <2>2, <2>3, <2>4, <3>1, Catalog
  <2>5. CASE e \in refers(r, "namedPorts")
    <3>1. e.kind = "compute_instance_group_named_port" /\ e.project = r.project
      BY <2>5, Referred, Typed, ReferencesAssumption
    <3> QED
      BY <2>3, <3>1
  <2> QED
    BY <2>2, <2>4, <2>5
<1> QED
  BY <1>1, <1>2 DEF EntitiesOwn

LEMMA FaultsStep ==
  ASSUME TypeOK, FaultsCounted, [Next]_vars
  PROVE  FaultsCounted'
<1>1. /\ faults \in Nat /\ faults' \in Nat
      /\ faults' = faults \/ (faults' = faults + 1 /\ Fault)
  <2>1. MaxFaults \in Nat /\ faults \in 0..MaxFaults /\ faults' \in 0..MaxFaults
    BY CloudAssumption, FaultsTyped DEF TypeOK
  <2> QED
    BY <2>1, FaultMoves DEF Fault
<1>2. /\ IsFiniteSet(truncated) /\ IsFiniteSet(refused)
      /\ Cardinality(truncated) \in Nat /\ Cardinality(refused) \in Nat
      /\ Cardinality(truncated) + Cardinality(refused) <= faults
  BY FS_CardinalityType DEF FaultsCounted
<1>3. \A S, x : IsFiniteSet(S) =>
        /\ IsFiniteSet(S \cup {x}) /\ Cardinality(S \cup {x}) \in Nat
        /\ Cardinality(S \cup {x}) <= Cardinality(S) + 1
  <2> SUFFICES ASSUME NEW S, NEW x, IsFiniteSet(S)
               PROVE  /\ IsFiniteSet(S \cup {x}) /\ Cardinality(S \cup {x}) \in Nat
                      /\ Cardinality(S \cup {x}) <= Cardinality(S) + 1
    OBVIOUS
  <2> QED
    BY FS_AddElement, FS_CardinalityType
<1>4. CASE truncated' = truncated /\ refused' = refused
  BY <1>1, <1>2, <1>4 DEF FaultsCounted
<1>5. CASE /\ faults' = faults + 1 /\ refused' = refused
           /\ \E x : truncated' = truncated \cup {x}
  <2>1. PICK x : truncated' = truncated \cup {x}
    BY <1>5
  <2>2. /\ IsFiniteSet(truncated') /\ Cardinality(truncated') \in Nat
        /\ Cardinality(truncated') <= Cardinality(truncated) + 1
    BY <1>2, <1>3, <2>1
  <2>3. IsFiniteSet(refused') /\ Cardinality(refused') = Cardinality(refused)
    BY <1>2, <1>5
  <2> QED
    BY <1>1, <1>2, <1>5, <2>2, <2>3 DEF FaultsCounted
<1>6. CASE /\ faults' = faults + 1 /\ truncated' = truncated
           /\ \E x : refused' = refused \cup {x}
  <2>1. PICK x : refused' = refused \cup {x}
    BY <1>6
  <2>2. /\ IsFiniteSet(refused') /\ Cardinality(refused') \in Nat
        /\ Cardinality(refused') <= Cardinality(refused) + 1
    BY <1>2, <1>3, <2>1
  <2>3. IsFiniteSet(truncated') /\ Cardinality(truncated') = Cardinality(truncated)
    BY <1>2, <1>6
  <2> QED
    BY <1>1, <1>2, <1>6, <2>2, <2>3 DEF FaultsCounted
<1>7. ASSUME NEW s \in DOMAIN status, Start(s) \/ Finish(s) \/ Fail(s)
      PROVE  truncated' = truncated /\ refused' = refused
  BY <1>7 DEF Start, Finish, Fail
<1>8. ASSUME NEW s, NEW r, RefusePage(s, r)
      PROVE  /\ faults' = faults + 1 /\ refused' = refused
             /\ truncated' = truncated \cup {<<s, r.place>>}
  BY <1>8 DEF RefusePage, endsListing, Fault
<1>9. ASSUME NEW s, NEW r, Adds(s, r)
      PROVE  truncated' = truncated /\ refused' = refused
  BY <1>9 DEF Adds, Take
<1>10. ASSUME NEW r, RefuseImagePolicy(r)
       PROVE  /\ faults' = faults + 1 /\ truncated' = truncated
              /\ refused' = refused \cup {r}
  BY <1>10 DEF RefuseImagePolicy, Take, Fault
<1>11. ASSUME NEW r, NEW refusal \in BOOLEAN, BuildDiskImageRelationships(r, refusal)
       PROVE  /\ truncated' = truncated
              /\ \/ refused' = refused
                 \/ faults' = faults + 1 /\ refused' = refused \cup {r}
  BY <1>11 DEF BuildDiskImageRelationships, Take, Fault
<1>12. ASSUME NEW r, NEW before, BuildComputeNetworkPeeringRelationships(r, before)
       PROVE  truncated' = truncated /\ refused' = refused
  BY <1>12 DEF BuildComputeNetworkPeeringRelationships
<1>13. CASE UNCHANGED vars
  BY <1>4, <1>13 DEF vars
<1> QED
  BY <1>4, <1>5, <1>6, <1>7, <1>8, <1>9, <1>10, <1>11, <1>12, <1>13, StepCases

LEMMA QuotaStep ==
  ASSUME TypeOK, QuotaRemembered, [Next]_vars
  PROVE  QuotaRemembered'
<1>1. /\ \A r \in DOMAIN inventory : inventory[r] # "none yet" =>
           INSTANCES \in DOMAIN status /\ r \in done[INSTANCES]
      /\ inventoryApiDisabled => \E q \in DOMAIN inventory : inventory[q] = "quota exceeded"
      /\ \A r \in DOMAIN inventory : inventory[r] = "not called" => inventoryApiDisabled
  BY DEF QuotaRemembered, INSTANCES
<1>2. DOMAIN status' = DOMAIN status /\ \A s \in DOMAIN status : done[s] \subseteq done'[s]
  BY StatusMoves, DoneMoves, Typed
<1>3. CASE inventory' = inventory /\ inventoryApiDisabled' = inventoryApiDisabled
  BY <1>1, <1>2, <1>3 DEF QuotaRemembered, INSTANCES
<1>5. DOMAIN inventory = computeInstances
  BY DEF TypeOK
<1>4. ASSUME NEW r, NEW outcome, Reports(r, outcome)
      PROVE  QuotaRemembered'
  <2>1. /\ r \in computeInstances
        /\ INSTANCES \in DOMAIN status /\ r \in done'[INSTANCES] \ done[INSTANCES]
        /\ outcome = "not called" <=> inventoryApiDisabled
        /\ inventory' = [inventory EXCEPT ![r] = outcome]
        /\ inventoryApiDisabled' = (inventoryApiDisabled \/ outcome = "quota exceeded")
    BY <1>4 DEF Reports, catches403
  <2>2. \A q \in DOMAIN inventory' : inventory'[q] # "none yet" =>
          INSTANCES \in DOMAIN status' /\ q \in done'[INSTANCES]
    BY <1>1, <1>2, <2>1
  <2>3. \A q \in DOMAIN inventory' : inventory'[q] = "not called" => inventoryApiDisabled'
    BY <1>1, <2>1
  <2>4. ASSUME inventoryApiDisabled'
        PROVE  \E q \in DOMAIN inventory' : inventory'[q] = "quota exceeded"
    <3>1. CASE inventoryApiDisabled
      <4>1. PICK q \in DOMAIN inventory : inventory[q] = "quota exceeded"
        BY <1>1, <3>1
      <4>2. q \in done[INSTANCES]
        BY <1>1, <4>1
      <4> QED
        BY <2>1, <4>1, <4>2
    <3>2. CASE outcome = "quota exceeded"
      BY <1>5, <2>1, <3>2
    <3> QED
      BY <2>1, <2>4, <3>1, <3>2
  <2> QED
    BY <2>2, <2>3, <2>4 DEF QuotaRemembered, INSTANCES
<1> QED
  BY <1>3, <1>4, InventoryMoves

-----------------------------------------------------------------------------
(* The relationships say what the fields say                                 *)

\* What a field, or the project, or an image's source says of a relationship.
Said(x) ==
  \/ \E ref \in cloud.references : {ref.from, ref.to} = {x.from, x.to}
  \/ x.from.kind = "compute_project"
  \/ x.from = x.to /\ refers(x.from, "sourceImageId") # {}

takenForAnothers(x) == ~cloud.configured /\ x.to \in refers(x.from, "peerings")

LEMMA NoPeers ==
  ASSUME TypeOK, NEW r, NEW field, field # "peerings", NEW t \in refers(r, field)
  PROVE  t \notin refers(r, "peerings") /\ r \notin refers(t, "peerings")
<1>1. PICK ref \in cloud.references : ref.from = r /\ ref.field = field /\ ref.to = t
  BY Referred
<1>2. {r.kind, t.kind} # {"compute_network"}
  BY <1>1, Typed, ReferencesAssumption
<1>3. \A a, b : b \in refers(a, "peerings") => {a.kind, b.kind} = {"compute_network"}
  BY Referred, Typed, ReferencesAssumption
<1> QED
  BY <1>2, <1>3

\* What a handler finds, by whatever key, is related as the field says.
LEMMA FoundTrue ==
  ASSUME TypeOK, [Next]_vars, NEW x, NEW s, NEW r, New(x, s, r), foundLink(x, r)
  PROVE  /\ Said(x) /\ ~x.mapped /\ {x.from, x.to} \subseteq entities'
         /\ ~takenForAnothers(x)
<1>1. r \in cloud.resources /\ r \in entities' /\ entities \subseteq entities'
  BY Processed, Kept DEF New
<1>9. PICK class \in Classes : \E field :
        /\ field # "peerings"
        /\ \E e \in found(r, field) : x = Direct(r, class, e) \/ x = Direct(e, class, r)
  BY DEF foundLink
<1>2. PICK field : /\ field # "peerings"
                   /\ \E e \in found(r, field) :
                        x = Direct(r, class, e) \/ x = Direct(e, class, r)
  BY <1>9
<1>3. PICK e \in found(r, field) : x = Direct(r, class, e) \/ x = Direct(e, class, r)
  BY <1>2
<1>4. /\ ~x.mapped
      /\ (x.from = r /\ x.to = e) \/ (x.from = e /\ x.to = r)
  BY <1>3 DEF Direct
<1>5. {x.from, x.to} \subseteq entities'
  BY <1>1, <1>4, FoundReferred
<1>6. CASE e \in refers(r, field)
  <2>1. \E ref \in cloud.references : {ref.from, ref.to} = {x.from, x.to}
    BY <1>4, <1>6, Referred
  <2>2. ~takenForAnothers(x)
    BY <1>2, <1>4, <1>6, NoPeers DEF takenForAnothers
  <2> QED
    BY <1>4, <1>5, <2>1, <2>2 DEF Said
<1>7. CASE e = r /\ refers(r, "sourceImageId") # {}
  <2>1. PICK t \in refers(r, "sourceImageId") : TRUE
    BY <1>7
  <2>2. r.kind = "compute_image"
    BY <2>1, Referred, Typed, ReferencesAssumption
  <2>3. r \in refers(r, "peerings") => {r.kind, r.kind} = {"compute_network"}
    BY Referred, Typed, ReferencesAssumption
  <2>4. ~takenForAnothers(x)
    BY <1>4, <1>7, <2>2, <2>3 DEF takenForAnothers
  <2> QED
    BY <1>4, <1>5, <1>7, <2>4 DEF Said
<1> QED
  BY <1>1, <1>6, <1>7, FoundReferred

\* A key that is not found when the KMS steps are over.
LEMMA KeyNotFound ==
  ASSUME TypeOK, StepsInOrder, NEW s \in {DISK_KMS, IMAGE_KMS}, s \in DOMAIN status, running(s),
         NEW r, found(r, "kmsKeyName") = {}, NEW t \in refers(r, "kmsKeyName")
  PROVE  t.kind = "kms_crypto_key" /\ Ended(KMS_KEYS) /\ t \notin entities
<1>1. t.kind = "kms_crypto_key"
  BY Referred, Typed, ReferencesAssumption
<1>2. s \in stepIds \cap handled
  BY Typed, Listings
<1>3. KMS_KEYS \in dependsOn[s]
  BY <1>2, Catalog
<1>4. Ended(KMS_KEYS)
  BY <1>3 DEF StepsInOrder, running
<1>5. keyLookedUp(r, "kmsKeyName", t) = keyOf(t)
  BY DEF keyLookedUp
<1> QED
  BY <1>1, <1>4, <1>5 DEF found

LEMMA MappedTrue ==
  ASSUME TypeOK, StepsInOrder, [Next]_vars, NEW x, NEW s, NEW r, New(x, s, r),
         NEW field, NEW t \in refers(r, field), NEW class, x = Mapped(r, class, t),
         \/ t.project # Own
         \/ field = "peerings" /\ ~cloud.configured
         \/ field = "kmsKeyName" /\ found(r, "kmsKeyName") = {} /\ s \in {DISK_KMS, IMAGE_KMS}
  PROVE  /\ Said(x) /\ x.mapped /\ x.from \in entities'
         /\ \/ x.to.project # Own
            \/ takenForAnothers(x)
            \/ x.to.kind = "kms_crypto_key" /\ Ended(KMS_KEYS) /\ x.to \notin entities
<1>1. x.from = r /\ x.to = t /\ x.mapped
  BY DEF Mapped
<1>2. Said(x)
  BY <1>1, Referred DEF Said
<1>3. r \in entities' /\ s \in DOMAIN status /\ running(s)
  BY DEF New
<1>4. CASE t.project # Own
  BY <1>1, <1>2, <1>3, <1>4
<1>5. CASE field = "peerings" /\ ~cloud.configured
  BY <1>1, <1>2, <1>3, <1>5 DEF takenForAnothers
<1>6. CASE field = "kmsKeyName" /\ found(r, "kmsKeyName") = {} /\ s \in {DISK_KMS, IMAGE_KMS}
  BY <1>1, <1>2, <1>3, <1>6, KeyNotFound
<1> QED
  BY <1>4, <1>5, <1>6

LEMMA NewTrue ==
  ASSUME TypeOK, StepsInOrder, [Next]_vars, NEW x, NEW s, NEW r, New(x, s, r)
  PROVE  /\ Said(x) /\ x.from \in entities'
         /\ x.mapped => \/ x.to.project # Own
                        \/ takenForAnothers(x)
                        \/ /\ x.to.kind = "kms_crypto_key" /\ Ended(KMS_KEYS)
                           /\ x.to \notin entities
         /\ ~x.mapped => x.to \in entities' /\ ~takenForAnothers(x)
<1>1. /\ r \in entities' /\ entities \subseteq entities' /\ r \in cloud.resources
      /\ s \in DOMAIN status /\ r \in toProcess(s)
  BY Processed, Kept DEF New
<1>2. CASE foundLink(x, r)
  BY <1>2, FoundTrue
<1>3. CASE \E t \in refers(r, "allowed") : x = Mapped(r, "ALLOWS", t)
  <2>1. PICK t \in refers(r, "allowed") : x = Mapped(r, "ALLOWS", t)
    BY <1>3
  <2>2. t.project # Own
    BY Referred, Typed, ReferencesAssumption
  <2> QED
    BY <2>1, <2>2, MappedTrue
<1>4. CASE \E t \in refers(r, "denied") : x = Mapped(r, "DENIES", t)
  <2>1. PICK t \in refers(r, "denied") : x = Mapped(r, "DENIES", t)
    BY <1>4
  <2>2. t.project # Own
    BY Referred, Typed, ReferencesAssumption
  <2> QED
    BY <2>1, <2>2, MappedTrue
<1>5. CASE \E e \in entities : r \in refers(e, "sslPolicy") /\ x = Direct(e, "HAS", r)
  <2>1. PICK e \in entities : r \in refers(e, "sslPolicy") /\ x = Direct(e, "HAS", r)
    BY <1>5
  <2>2. x.from = e /\ x.to = r /\ ~x.mapped
    BY <2>1 DEF Direct
  <2>3. Said(x) /\ ~takenForAnothers(x)
    BY <2>1, <2>2, Referred, NoPeers DEF Said, takenForAnothers
  <2> QED
    BY <1>1, <2>2, <2>3
<1>6. CASE s \in lists /\ \E t \in refers(r, "namedPorts") : x = Direct(r, "HAS", t)
  <2>1. PICK t \in refers(r, "namedPorts") : x = Direct(r, "HAS", t)
    BY <1>6
  <2>2. x.from = r /\ x.to = t /\ ~x.mapped
    BY <2>1 DEF Direct
  <2>3. t \in entities'
    BY <1>6 DEF New
  <2>4. Said(x) /\ ~takenForAnothers(x)
    BY <2>2, Referred, NoPeers DEF Said, takenForAnothers
  <2> QED
    BY <1>1, <2>2, <2>3, <2>4
<1>7. CASE s = COMPUTE_PROJECT /\ \E e \in entities : x = Direct(r, "HAS", e)
  <2>1. PICK e \in entities : x = Direct(r, "HAS", e)
    BY <1>7
  <2>2. x.from = r /\ x.to = e /\ ~x.mapped
    BY <2>1 DEF Direct
  <2>3. s \in stepIds \cap handled /\ s \in lists
    BY <1>1, <1>7, Typed, Listings
  <2>4. r.kind = "compute_project"
    BY <1>1, <1>7, <2>3, Processed, Catalog DEF listed
  <2>5. r.kind # "compute_network" /\ Said(x)
    BY <2>2, <2>4 DEF Said
  <2>6. ~takenForAnothers(x)
    BY <2>2, <2>5, Referred, Typed, ReferencesAssumption DEF takenForAnothers
  <2> QED
    BY <1>1, <2>2, <2>5, <2>6
<1>8. CASE /\ s \in {DISK_KMS, IMAGE_KMS} /\ found(r, "kmsKeyName") = {}
           /\ \E t \in refers(r, "kmsKeyName") : x = Mapped(r, "USES", t)
  BY <1>8, MappedTrue
<1>9. CASE \E t \in refers(r, "sourceImage") : t.project # Own /\ x = Mapped(r, "USES", t)
  BY <1>9, MappedTrue
<1>10. CASE \E t \in refers(r, "peerings") : t \notin missing(r) /\ x = peering(r, t)
  <2>1. PICK t \in refers(r, "peerings") : t \notin missing(r) /\ x = peering(r, t)
    BY <1>10
  <2>2. CASE withinProject(t)
    <3>1. x = Direct(r, "CONNECTS", t) /\ t \in entities /\ cloud.configured
      BY <2>1, <2>2 DEF missing, peering, withinProject
    <3>2. x.from = r /\ x.to = t /\ ~x.mapped
      BY <3>1 DEF Direct
    <3>3. Said(x) /\ ~takenForAnothers(x)
      BY <3>1, <3>2, Referred DEF Said, takenForAnothers
    <3> QED
      BY <1>1, <3>1, <3>2, <3>3
  <2>3. CASE ~withinProject(t)
    <3>1. x = Mapped(r, "CONNECTS", t) /\ (t.project # Own \/ ~cloud.configured)
      BY <2>1, <2>3 DEF peering, withinProject
    <3> QED
      BY <3>1, MappedTrue
  <2> QED
    BY <2>2, <2>3
<1> QED
  BY <1>2, <1>3, <1>4, <1>5, <1>6, <1>7, <1>8, <1>9, <1>10 DEF New, Made

LEMMA RelationshipsStep ==
  ASSUME IInv, [Next]_vars, DoneAdded', EntitiesOwn'
  PROVE  RelationshipsTrue' /\ MappedSettled'
<1>1. TypeOK /\ StepsInOrder /\ DoneAdded /\ EntitiesOwn /\ RelationshipsTrue /\ MappedSettled
  BY DEF IInv
<1>2. /\ cloud' = cloud /\ entities \subseteq entities'
      /\ \A r, field : refers(r, field)' = refers(r, field)
  BY Kept, SameCloud
<1>3. Ended(KMS_KEYS) =>
        Ended(KMS_KEYS)' /\ \A e \in entities' : e.kind = "kms_crypto_key" => e \in entities
  <2> SUFFICES ASSUME Ended(KMS_KEYS)
               PROVE  /\ Ended(KMS_KEYS)'
                      /\ \A e \in entities' : e.kind = "kms_crypto_key" => e \in entities
    OBVIOUS
  <2>1. Ended(KMS_KEYS)' /\ done'[KMS_KEYS] = done[KMS_KEYS] /\ KMS_KEYS \in DOMAIN status
    BY <1>1, EndedKept DEF Ended
  <2>2. KMS_KEYS \in lists /\ KMS_KEYS # IMAGES
    BY Listings DEF KMS_KEYS, IMAGES
  <2> QED
    BY <1>1, <2>1, <2>2 DEF DoneAdded, EntitiesOwn
<1>4. ASSUME NEW x, x.to.project # Own
      PROVE  x.to \notin entities'
  BY <1>4 DEF EntitiesOwn
<1>5. ASSUME NEW x \in relationships' \ relationships
      PROVE  /\ Said(x) /\ x.from \in entities'
             /\ x.mapped <=> x.to \notin entities' \/ takenForAnothers(x)
             /\ x.mapped => \/ x.to.project # Own \/ takenForAnothers(x)
                            \/ x.to.kind = "kms_crypto_key" /\ Ended(KMS_KEYS)'
  <2>1. PICK s, r : New(x, s, r)
    BY <1>1, <1>5, RelationshipsAdded
  <2>2. /\ Said(x) /\ x.from \in entities' /\ x.mapped \in BOOLEAN
        /\ x.mapped => \/ x.to.project # Own
                       \/ takenForAnothers(x)
                       \/ /\ x.to.kind = "kms_crypto_key" /\ Ended(KMS_KEYS)
                          /\ x.to \notin entities
        /\ ~x.mapped => x.to \in entities' /\ ~takenForAnothers(x)
    BY <1>1, <2>1, NewTrue, NewTyped
  <2> QED
    BY <1>3, <1>4, <2>2
<1>6. ASSUME NEW x \in relationships
      PROVE  /\ Said(x) /\ x.from \in entities'
             /\ x.mapped <=> x.to \notin entities' \/ takenForAnothers(x)
             /\ x.mapped => \/ x.to.project # Own \/ takenForAnothers(x)
                            \/ x.to.kind = "kms_crypto_key" /\ Ended(KMS_KEYS)'
  <2>1. /\ Said(x) /\ x.from \in entities
        /\ x.mapped <=> x.to \notin entities \/ takenForAnothers(x)
    BY <1>1 DEF RelationshipsTrue, Said, takenForAnothers
  <2>2. x.mapped => \/ x.to.project # Own \/ takenForAnothers(x)
                    \/ x.to.kind = "kms_crypto_key" /\ Ended(KMS_KEYS)
    BY <1>1 DEF MappedSettled, takenForAnothers
  <2> QED
    BY <1>2, <1>3, <1>4, <2>1, <2>2
<1>7. \A x \in relationships' :
        /\ Said(x) /\ x.from \in entities'
        /\ x.mapped <=> x.to \notin entities' \/ takenForAnothers(x)
        /\ x.mapped => \/ x.to.project # Own \/ takenForAnothers(x)
                       \/ x.to.kind = "kms_crypto_key" /\ Ended(KMS_KEYS)'
  BY <1>5, <1>6
<1>8. RelationshipsTrue'
  BY <1>2, <1>7 DEF RelationshipsTrue, Said, takenForAnothers
<1>9. MappedSettled'
  BY <1>2, <1>7 DEF MappedSettled, takenForAnothers
<1> QED
  BY <1>8, <1>9

-----------------------------------------------------------------------------
(* What a step waits for is there when it starts                             *)

\* A kind is added by one of the steps that run.
LEMMA Producer ==
  ASSUME NEW s \in stepIds \cap lists, NEW k \in writes[s]
  PROVE  listingOf(k) = s /\ producer(k) = s
<1>1. \A p \in stepIds \cap lists : k \in writes[p] => listingOf(k) = p
  BY Waits, Listings
<1>2. producer(k) \in stepIds \cap lists /\ k \in writes[producer(k)]
  BY DEF producer
<1> QED
  BY <1>1, <1>2

LEMMA KindSettled ==
  ASSUME TypeOK, StepsInOrder, [Next]_vars,
         NEW s \in DOMAIN status \cap handled, status[s] # "pending",
         NEW e \in entities', e.kind \in reads[s] \cup processedKinds(s)
  PROVE  e \in entities \/ <<s, e.kind>> \in Races
<1> SUFFICES ASSUME e \notin entities PROVE <<s, e.kind>> \in Races
  OBVIOUS
<1>1. PICK p \in DOMAIN status \cap lists : \E r \in toProcess(p) :
        running(p) /\ (e = r \/ e \in refers(r, "namedPorts"))
  BY EntitiesMoves
<1>2. PICK r \in toProcess(p) : running(p) /\ (e = r \/ e \in refers(r, "namedPorts"))
  BY <1>1
<1>3. s \in stepIds \cap handled /\ p \in stepIds \cap lists /\ p # "none"
  BY Typed, Listings
<1>4. /\ e.kind # NAMED_PORT
      /\ listingOf(e.kind) \in dependsOn[s] \cup {"none"} \/ <<s, e.kind>> \in Races
  BY <1>3, Waits
<1>5. e = r
  BY <1>2, <1>4, Referred, Typed, ReferencesAssumption DEF NAMED_PORT
<1>6. e.kind \in writes[p]
  BY <1>1, <1>5, Processed DEF listed
<1>7. listingOf(e.kind) = p
  BY <1>3, <1>6, Producer
<1>8. p \notin dependsOn[s]
  BY <1>2 DEF StepsInOrder, Ended, running
<1> QED
  BY <1>3, <1>4, <1>7, <1>8

LEMMA DataMoves ==
  ASSUME TypeOK, [Next]_vars
  PROVE  /\ \/ peeredNetworks' = peeredNetworks
            \/ /\ running(NETWORKS) /\ status'[NETWORKS] = "success" /\ done' = done
               /\ peeredNetworks' = {r \in done[NETWORKS] : refers(r, "peerings") # {}}
         /\ \/ instanceServiceAccounts' = instanceServiceAccounts
            \/ /\ running(INSTANCES) /\ status'[INSTANCES] = "success" /\ done' = done
               /\ instanceServiceAccounts'
                     = {r \in done[INSTANCES] : refers(r, "serviceAccounts") # {}}
<1> USE DEF vars, jobState
<1>1. ASSUME NEW s \in DOMAIN status, Finish(s)
      PROVE  /\ \/ peeredNetworks' = peeredNetworks
                \/ /\ s = NETWORKS
                   /\ peeredNetworks' = {r \in done[NETWORKS] : refers(r, "peerings") # {}}
             /\ \/ instanceServiceAccounts' = instanceServiceAccounts
                \/ /\ s = INSTANCES
                   /\ instanceServiceAccounts'
                         = {r \in done[INSTANCES] : refers(r, "serviceAccounts") # {}}
             /\ running(s) /\ status'[s] = "success" /\ done' = done
  BY <1>1, Typed DEF Finish, dataAfter, NETWORKS, INSTANCES
<1>2. ASSUME NEW s \in DOMAIN status, Start(s) \/ Fail(s)
      PROVE  UNCHANGED <<peeredNetworks, instanceServiceAccounts>>
  BY <1>2 DEF Start, Fail
<1>3. ASSUME NEW s, NEW r, RefusePage(s, r) \/ Adds(s, r)
      PROVE  UNCHANGED <<peeredNetworks, instanceServiceAccounts>>
  BY <1>3 DEF RefusePage, Adds, Take
<1>4. ASSUME NEW r, RefuseImagePolicy(r)
      PROVE  UNCHANGED <<peeredNetworks, instanceServiceAccounts>>
  BY <1>4 DEF RefuseImagePolicy, Take
<1>5. ASSUME NEW r, NEW refusal, BuildDiskImageRelationships(r, refusal)
      PROVE  UNCHANGED <<peeredNetworks, instanceServiceAccounts>>
  BY <1>5 DEF BuildDiskImageRelationships, Take
<1>6. ASSUME NEW r, NEW before, BuildComputeNetworkPeeringRelationships(r, before)
      PROVE  UNCHANGED <<peeredNetworks, instanceServiceAccounts>>
  BY <1>6 DEF BuildComputeNetworkPeeringRelationships
<1> QED
  BY <1>1, <1>2, <1>3, <1>4, <1>5, <1>6, StepCases

\* The steps over data wait for the listing that stores it.
LEMMA DataSettled ==
  ASSUME TypeOK, StepsInOrder, [Next]_vars
  PROVE  /\ PEERINGS \in DOMAIN status /\ status[PEERINGS] # "pending" =>
              peeredNetworks' = peeredNetworks
         /\ ACCOUNTS \in DOMAIN status /\ status[ACCOUNTS] # "pending" =>
              instanceServiceAccounts' = instanceServiceAccounts
<1>1. /\ PEERINGS \in stepIds => NETWORKS \in dependsOn[PEERINGS]
      /\ ACCOUNTS \in stepIds => INSTANCES \in dependsOn[ACCOUNTS]
  <2>1. /\ "compute_network" \in processedKinds(PEERINGS)
        /\ "compute_instance" \in processedKinds(ACCOUNTS)
    BY DEF processedKinds, PEERINGS, ACCOUNTS
  <2>2. /\ listingOf("compute_network") = NETWORKS
        /\ listingOf("compute_instance") = INSTANCES
    BY DEF listingOf, NETWORKS, INSTANCES
  <2>3. NETWORKS # "none" /\ INSTANCES # "none"
    BY DEF NETWORKS, INSTANCES
  <2>4. \A k : <<PEERINGS, k>> \notin Races /\ <<ACCOUNTS, k>> \notin Races
    BY DEF Races, PEERINGS, ACCOUNTS, DISK_IMAGE
  <2>5. {PEERINGS, ACCOUNTS} \subseteq handled
    BY Listings
  <2> QED
    BY <2>1, <2>2, <2>3, <2>4, <2>5, Waits
<1>2. DOMAIN status \subseteq stepIds
  BY Typed
<1> QED
  BY <1>1, <1>2, DataMoves DEF StepsInOrder, Ended, running

LEMMA ToProcessSettled ==
  ASSUME TypeOK, StepsInOrder, [Next]_vars,
         NEW s \in DOMAIN status \ lists, s \in handled, status[s] # "pending",
         NEW r \in toProcess(s)'
  PROVE  r \in toProcess(s) \/ (s = DISK_IMAGE /\ r.kind = "compute_region_disk")
<1>1. done[s] \subseteq done'[s]
  BY DoneMoves
<1>2. CASE s = PEERINGS
  BY <1>1, <1>2, DataSettled DEF toProcess, PEERINGS, ACCOUNTS
<1>3. CASE s = ACCOUNTS
  BY <1>1, <1>3, DataSettled DEF toProcess, PEERINGS, ACCOUNTS
<1>4. CASE s \notin {PEERINGS, ACCOUNTS}
  <2>1. /\ toProcess(s) = {e \in entities : e.kind \in iteratedKinds(s)} \ done[s]
        /\ r \in entities' /\ r.kind \in iteratedKinds(s) /\ r \notin done'[s]
    BY <1>4 DEF toProcess, PEERINGS, ACCOUNTS
  <2>2. iteratedKinds(s) = processedKinds(s)
    BY <1>4 DEF processedKinds
  <2>3. r \in entities \/ <<s, r.kind>> \in Races
    BY <2>1, <2>2, KindSettled
  <2>4. <<s, r.kind>> \in Races => s = DISK_IMAGE /\ r.kind = "compute_region_disk"
    BY ListsAre DEF Races, DISK_IMAGE, zonal, regional, global
  <2> QED
    BY <1>1, <2>1, <2>3, <2>4
<1> QED
  BY <1>2, <1>3, <1>4

LEMMA StartedStep ==
  ASSUME TypeOK, Started, [Next]_vars
  PROVE  Started'
<1> SUFFICES ASSUME NEW s \in DOMAIN status
             PROVE  /\ done'[s] # {} => status'[s] # "pending"
                    /\ s \notin lists => done'[s] \subseteq entities'
  <2>1. DOMAIN status' = DOMAIN status
    BY StatusMoves, Typed
  <2> QED
    BY <2>1 DEF Started
<1>1. Moves(s) /\ (done'[s] # done[s] => running(s))
  BY StatusMoves, DoneMoves
<1>2. done'[s] # {} => status'[s] # "pending"
  BY <1>1 DEF Started, Moves, running
<1>3. ASSUME s \notin lists, NEW r \in done'[s] PROVE r \in entities'
  <2>1. CASE r \in done[s]
    BY <1>3, <2>1, Kept DEF Started
  <2>2. CASE r \notin done[s]
    <3>1. r \in toProcess(s)
      BY <1>3, <2>2, DoneMoves
    <3> QED
      BY <1>3, <3>1, Processed, Kept
  <2> QED
    BY <2>1, <2>2
<1> QED
  BY <1>2, <1>3

LEMMA EntitiesListedStep ==
  ASSUME TypeOK, EntitiesListed, [Next]_vars
  PROVE  EntitiesListed'
<1> SUFFICES ASSUME NEW e \in entities', e.kind # NAMED_PORT
             PROVE  /\ listingOf(e.kind) \in DOMAIN status \cap lists
                    /\ e \in done'[listingOf(e.kind)]
                    /\ e.kind = "compute_disk" => e \in diskKeys'
  <2>1. DOMAIN status' = DOMAIN status
    BY StatusMoves, Typed
  <2> QED
    BY <2>1 DEF EntitiesListed
<1>1. CASE e \in entities
  BY <1>1, Kept, DoneMoves DEF EntitiesListed
<1>2. CASE e \notin entities
  <2>1. PICK p \in DOMAIN status \cap lists : \E r \in toProcess(p) :
          r \in done'[p] /\ (e = r \/ e \in refers(r, "namedPorts"))
    BY <1>2, EntitiesMoves
  <2>2. PICK r \in toProcess(p) : r \in done'[p] /\ (e = r \/ e \in refers(r, "namedPorts"))
    BY <2>1
  <2>3. e = r
    BY <2>2, Referred, Typed, ReferencesAssumption DEF NAMED_PORT
  <2>4. e.kind \in writes[p] /\ e \notin done[p] /\ p \in stepIds \cap lists
    BY <2>1, <2>3, Processed, Typed DEF listed
  <2>5. listingOf(e.kind) = p
    BY <2>4, Producer
  <2>6. ASSUME e.kind = "compute_disk" PROVE e \in diskKeys'
    <3>1. p = "fetch-compute-disks"
      BY <2>5, <2>6 DEF listingOf
    <3>2. Adds(p, e)
      BY <2>2, <2>3, <2>4, <3>1, DoneMoves DEF PEERINGS, IMAGES, DISK_IMAGE
    <3> QED
      BY <3>1, <3>2 DEF Adds, AddEntityAndRelationships
  <2> QED
    BY <2>1, <2>2, <2>3, <2>5, <2>6
<1> QED
  BY <1>1, <1>2

LEMMA DataStep ==
  ASSUME TypeOK, DataStored, [Next]_vars
  PROVE  DataStored'
<1>1. \A r, field : refers(r, field)' = refers(r, field)
  BY SameCloud
<1>2. DOMAIN status' = DOMAIN status
  BY StatusMoves, Typed
<1>3. ASSUME peeredNetworks' # None
      PROVE  /\ Ended(NETWORKS)'
             /\ \A r \in done'[NETWORKS] : refers(r, "peerings") # {} => r \in peeredNetworks'
  <2>1. CASE peeredNetworks' = peeredNetworks
    BY <1>3, <2>1, EndedKept DEF DataStored
  <2>2. CASE /\ running(NETWORKS) /\ status'[NETWORKS] = "success" /\ done' = done
             /\ peeredNetworks' = {r \in done[NETWORKS] : refers(r, "peerings") # {}}
    BY <1>2, <2>2 DEF Ended, running
  <2> QED
    BY <2>1, <2>2, DataMoves
<1>4. ASSUME instanceServiceAccounts' # None
      PROVE  /\ Ended(INSTANCES)'
             /\ \A r \in done'[INSTANCES] :
                  refers(r, "serviceAccounts") # {} => r \in instanceServiceAccounts'
  <2>1. CASE instanceServiceAccounts' = instanceServiceAccounts
    BY <1>4, <2>1, EndedKept DEF DataStored
  <2>2. CASE /\ running(INSTANCES) /\ status'[INSTANCES] = "success" /\ done' = done
             /\ instanceServiceAccounts'
                   = {r \in done[INSTANCES] : refers(r, "serviceAccounts") # {}}
    BY <1>2, <2>2 DEF Ended, running
  <2> QED
    BY <2>1, <2>2, DataMoves
<1> QED
  BY <1>1, <1>3, <1>4 DEF DataStored

LEMMA NothingLeftStep ==
  ASSUME TypeOK, StepsInOrder, NothingLeft, [Next]_vars
  PROVE  NothingLeft'
<1> SUFFICES ASSUME NEW s \in DOMAIN status \ lists, status'[s] = "success",
                    NEW r \in toProcess(s)'
             PROVE  s = DISK_IMAGE /\ r.kind = "compute_region_disk"
  <2>1. DOMAIN status' = DOMAIN status
    BY StatusMoves, Typed
  <2> QED
    BY <2>1 DEF NothingLeft
<1>1. Moves(s)
  BY StatusMoves
<1>2. status[s] = "success" \/ (running(s) /\ toProcess(s) = {})
  BY <1>1 DEF Moves
<1>3. status[s] # "pending"
  BY <1>2 DEF running
<1>4. r \in toProcess(s) \/ (s = DISK_IMAGE /\ r.kind = "compute_region_disk")
  <2>1. CASE s \in handled
    BY <1>3, <2>1, ToProcessSettled
  <2>2. CASE s \notin handled
    <3>1. s \notin {PEERINGS, ACCOUNTS} /\ iteratedKinds(s) = {}
      BY <2>2 DEF handled, iteratedKinds, BACKEND_BUCKETS, SNAPSHOT_DISK, DISK_IMAGE, IMAGE_IMAGE,
         DISK_KMS, IMAGE_KMS
    <3> QED
      BY <3>1 DEF toProcess, PEERINGS, ACCOUNTS
  <2> QED
    BY <2>1, <2>2
<1> QED
  BY <1>2, <1>4 DEF NothingLeft

-----------------------------------------------------------------------------
(* A reference is related when its subject is processed                      *)

\* A resource that is listed is of a kind that one step lists.
ListedKind(r) ==
  /\ listingOf(r.kind) \in stepIds \cap lists
  /\ r.kind \in writes[listingOf(r.kind)]

SpecialFields ==
  {"peerings", "bucketName", "serviceAccounts", "sourceDiskId", "sourceImage", "sourceImageId",
   "kmsKeyName", "sslPolicy"}

LEMMA RelaterIs ==
  ASSUME NEW ref, ListedKind(ref.from), ref.field \notin SpecialFields
  PROVE  relater(ref) = listingOf(ref.from.kind)
<1>1. producer(ref.from.kind) = listingOf(ref.from.kind)
  BY Producer DEF ListedKind
<1> QED
  BY <1>1 DEF relater, SpecialFields

LEMMA HandlerOf ==
  ASSUME NEW r
  PROVE  /\ relationshipsOf("fetch-compute-firewalls", r) = fetchComputeFirewalls(r)
         /\ relationshipsOf("fetch-compute-subnetworks", r) = fetchComputeSubnetworks(r)
         /\ relationshipsOf("fetch-compute-global-addresses", r) = fetchComputeGlobalAddresses(r)
         /\ relationshipsOf("fetch-compute-addresses", r) = fetchComputeAddresses(r)
         /\ relationshipsOf("fetch-compute-forwarding-rules", r) = fetchComputeForwardingRules(r)
         /\ relationshipsOf("fetch-compute-global-forwarding-rules", r)
              = fetchComputeGlobalForwardingRules(r)
         /\ relationshipsOf("fetch-compute-backend-services", r) = fetchComputeBackendServices(r)
         /\ relationshipsOf("fetch-compute-region_backend-services", r)
              = fetchComputeRegionBackendServices(r)
         /\ relationshipsOf("fetch-compute-loadbalancers", r) = fetchComputeLoadBalancers(r)
         /\ relationshipsOf("fetch-compute-region-loadbalancers", r)
              = fetchComputeRegionLoadBalancers(r)
         /\ \A s \in {"fetch-compute-target-http-proxies", "fetch-compute-target-https-proxies",
                      "fetch-compute-region-target-http-proxies",
                      "fetch-compute-region-target-https-proxies"} :
              relationshipsOf(s, r) = fetchComputeTargetProxies(r)
         /\ relationshipsOf("fetch-compute-target-ssl-proxies", r)
              = fetchComputeTargetSslProxies(r)
         /\ relationshipsOf("fetch-compute-ssl-policies", r) = fetchComputeSslPolicies(r)
         /\ \A s \in {"fetch-compute-instance-groups", "fetch-compute-region-instance-groups"} :
              relationshipsOf(s, r) = fetchComputeInstanceGroups(r)
         /\ relationshipsOf(IMAGES, r) = createdImages(r)
         /\ relationshipsOf(INSTANCES, r) = instanceRelationships(r)
         /\ relationshipsOf(BACKEND_BUCKETS, r)
              = buildComputeBackendBucketHasBucketRelationships(r)
         /\ relationshipsOf(ACCOUNTS, r) = buildComputeInstanceServiceAccountRelationships(r)
         /\ relationshipsOf(SNAPSHOT_DISK, r) = buildComputeSnapshotDiskRelationships(r)
         /\ \A s \in {DISK_KMS, IMAGE_KMS} : relationshipsOf(s, r) = buildUsesKmsRelationships(r)
BY DEF relationshipsOf, IMAGES, INSTANCES, BACKEND_BUCKETS, ACCOUNTS, SNAPSHOT_DISK, DISK_KMS,
   IMAGE_KMS

\* Every field is looked up by its handler, but for those never related.
LEMMA FoundRelated ==
  ASSUME TypeOK, NEW ref \in cloud.references, ListedKind(ref.from), ~neverRelated(ref),
         ref.field \notin {"peerings", "sourceImage", "sslPolicy", "namedPorts", "allowed",
                           "denied"},
         NEW e \in found(ref.from, ref.field),
         ref.from.kind = "compute_region_load_balancer" => e.kind # "compute_backend_bucket"
  PROVE  \E x \in relationshipsOf(relater(ref), ref.from) : {x.from, x.to} = {ref.from, e}
<1> DEFINE r == ref.from
           field == ref.field
           linked(S) == \E x \in S : {x.from, x.to} = {r, e}
<1>1. ASSUME NEW class, NEW S,
             uses(r, field, class) \subseteq S \/ usedBy(r, field, class) \subseteq S
      PROVE  linked(S)
  <2>1. /\ Direct(r, class, e) \in uses(r, field, class)
        /\ Direct(r, class, e).from = r /\ Direct(r, class, e).to = e
    BY DEF uses, Direct
  <2>2. /\ Direct(e, class, r) \in usedBy(r, field, class)
        /\ Direct(e, class, r).from = e /\ Direct(e, class, r).to = r
    BY DEF usedBy, Direct
  <2>3. CASE uses(r, field, class) \subseteq S
    BY <2>1, <2>3
  <2>4. CASE usedBy(r, field, class) \subseteq S
    BY <2>2, <2>4
  <2> QED
    BY <1>1, <2>3, <2>4
<1>2. field \in fieldsOf(r.kind)
  BY Typed, FieldsAssumption
<1>3. field \notin {"sourceImageId", "defaultService"}
  BY DEF neverRelated
<1> DEFINE made == relationshipsOf(relater(ref), r)
<1>4. CASE field \in {"bucketName", "serviceAccounts", "sourceDiskId", "kmsKeyName"}
  <2>1. CASE field = "bucketName"
    <3>1. made = uses(r, field, "HAS")
      BY <2>1, HandlerOf
         DEF relater, BACKEND_BUCKETS, buildComputeBackendBucketHasBucketRelationships
    <3> QED
      BY <1>1, <3>1
  <2>2. CASE field = "serviceAccounts"
    <3>1. made = uses(r, field, "TRUSTS")
      BY <2>2, HandlerOf DEF relater, ACCOUNTS, buildComputeInstanceServiceAccountRelationships
    <3> QED
      BY <1>1, <3>1
  <2>3. CASE field = "sourceDiskId"
    <3>1. made = usedBy(r, field, "CREATED")
      BY <2>3, HandlerOf DEF relater, SNAPSHOT_DISK, buildComputeSnapshotDiskRelationships
    <3> QED
      BY <1>1, <3>1
  <2>4. CASE field = "kmsKeyName"
    <3>1. relater(ref) \in {DISK_KMS, IMAGE_KMS}
      BY <2>4 DEF relater, DISK_KMS, IMAGE_KMS
    <3>2. uses(r, field, "USES") \subseteq made
      BY <2>4, <3>1, HandlerOf DEF buildUsesKmsRelationships
    <3> QED
      BY <1>1, <3>2
  <2> QED
    BY <1>4, <2>1, <2>2, <2>3, <2>4
<1>5. CASE field \notin {"bucketName", "serviceAccounts", "sourceDiskId", "kmsKeyName"}
  <2> DEFINE k == r.kind
  <2>1. made = relationshipsOf(listingOf(k), r)
    BY <1>3, <1>5, RelaterIs DEF SpecialFields
  <2>2. CASE k = "compute_firewall"
    <3>1. made = fetchComputeFirewalls(r) /\ field = "network"
      BY <1>2, <2>1, <2>2, HandlerOf DEF listingOf, fieldsOf
    <3> QED
      BY <1>1, <3>1 DEF fetchComputeFirewalls
  <2>3. CASE k = "compute_subnetwork"
    <3>1. made = fetchComputeSubnetworks(r) /\ field = "network"
      BY <1>2, <2>1, <2>3, HandlerOf DEF listingOf, fieldsOf
    <3> QED
      BY <1>1, <3>1 DEF fetchComputeSubnetworks
  <2>4. CASE k = "compute_global_address"
    <3>1. made = fetchComputeGlobalAddresses(r) /\ field \in {"subnetwork", "network"}
      BY <1>2, <2>1, <2>4, HandlerOf DEF listingOf, fieldsOf
    <3> QED
      BY <1>1, <3>1 DEF fetchComputeGlobalAddresses
  <2>5. CASE k = "compute_address"
    <3>1. made = fetchComputeAddresses(r) /\ field \in {"subnetwork", "network", "users"}
      BY <1>2, <2>1, <2>5, HandlerOf DEF listingOf, fieldsOf
    <3> QED
      BY <1>1, <3>1 DEF fetchComputeAddresses
  <2>6. CASE k \in {"compute_forwarding_rule", "compute_global_forwarding_rule"}
    <3>1. /\ made \in {fetchComputeForwardingRules(r), fetchComputeGlobalForwardingRules(r)}
          /\ field \in {"backendService", "subnetwork", "network", "target"}
      BY <1>2, <2>1, <2>6, HandlerOf DEF listingOf, fieldsOf
    <3>2. uses(r, field, "CONNECTS") \subseteq made
      BY <3>1 DEF fetchComputeForwardingRules, fetchComputeGlobalForwardingRules
    <3> QED
      BY <1>1, <3>2
  <2>7. CASE k \in {"compute_backend_service", "compute_region_backend_service"}
    <3>1. /\ made \in {fetchComputeBackendServices(r), fetchComputeRegionBackendServices(r)}
          /\ field \in {"backends", "healthChecks"}
      BY <1>2, <2>1, <2>7, HandlerOf DEF listingOf, fieldsOf
    <3>2. uses(r, field, "HAS") \subseteq made
      BY <3>1 DEF fetchComputeBackendServices, fetchComputeRegionBackendServices
    <3> QED
      BY <1>1, <3>2
  <2>8. CASE k = "compute_load_balancer"
    <3>1. made = fetchComputeLoadBalancers(r) /\ field = "pathMatchers"
      BY <1>2, <1>3, <2>1, <2>8, HandlerOf DEF listingOf, fieldsOf
    <3> QED
      BY <1>1, <3>1 DEF fetchComputeLoadBalancers
  <2>9. CASE k = "compute_region_load_balancer"
    <3>1. made = fetchComputeRegionLoadBalancers(r) /\ field = "pathMatchers"
      BY <1>2, <1>3, <2>1, <2>9, HandlerOf DEF listingOf, fieldsOf
    <3>2. Direct(r, "HAS", e).to = e /\ Direct(r, "HAS", e).from = r
      BY DEF Direct
    <3>3. Direct(r, "HAS", e) \in made
      BY <2>9, <3>1, <3>2 DEF fetchComputeRegionLoadBalancers, uses
    <3> QED
      BY <3>2, <3>3
  <2>10. CASE k \in {"compute_target_http_proxy", "compute_region_target_http_proxy",
                     "compute_target_https_proxy", "compute_region_target_https_proxy"}
    <3>1. made = fetchComputeTargetProxies(r) /\ field = "urlMap"
      BY <1>2, <2>1, <2>10, HandlerOf DEF listingOf, fieldsOf
    <3> QED
      BY <1>1, <3>1 DEF fetchComputeTargetProxies
  <2>11. CASE k = "compute_target_ssl_proxy"
    <3>1. made = fetchComputeTargetSslProxies(r) /\ field = "service"
      BY <1>2, <2>1, <2>11, HandlerOf DEF listingOf, fieldsOf
    <3> QED
      BY <1>1, <3>1 DEF fetchComputeTargetSslProxies
  <2>12. CASE k = "compute_image"
    <3>1. made = createdImages(r) /\ field = "sourceSnapshotId"
      BY <1>2, <1>3, <1>5, <2>1, <2>12, HandlerOf DEF listingOf, fieldsOf, IMAGES
    <3> QED
      BY <1>1, <3>1 DEF createdImages
  <2>13. CASE k = "compute_instance"
    <3>1. made = instanceRelationships(r) /\ field \in {"disks", "subnetwork", "created-by"}
      BY <1>2, <1>5, <2>1, <2>13, HandlerOf DEF listingOf, fieldsOf, INSTANCES
    <3> QED
      BY <1>1, <3>1 DEF instanceRelationships
  <2> QED
    BY <1>2, <1>3, <1>5, <2>2, <2>3, <2>4, <2>5, <2>6, <2>7, <2>8, <2>9, <2>10, <2>11, <2>12, <2>13
       DEF fieldsOf
<1> QED
  BY <1>4, <1>5

\* The key of a field is that of what it refers to, but for those never related.
LEMMA LookedUpFound ==
  ASSUME TypeOK, EntitiesListed, NEW ref \in cloud.references, ~neverRelated(ref),
         ref.to \in entities
  PROVE  ref.to \in found(ref.from, ref.field)
<1> DEFINE t == ref.to
<1>1. cloud \in Clouds
  BY Typed
<1>2. t \in refers(ref.from, ref.field)
  BY DEF refers
<1>3. keyLookedUp(ref.from, ref.field, t) = keyOf(t)
  <2>1. CASE ref.field = "disks"
    <3>1. t.kind = "compute_disk"
      BY <1>1, <2>1, FieldsAssumption DEF neverRelated
    <3>2. t \in diskKeys
      BY <3>1 DEF EntitiesListed, NAMED_PORT
    <3> QED
      BY <2>1, <3>2 DEF keyLookedUp
  <2>2. CASE ref.field = "sourceDiskId"
    <3>1. t.kind = "compute_disk"
      BY <1>1, <2>2, ReferencesAssumption DEF neverRelated
    <3> QED
      BY <2>2, <3>1 DEF keyLookedUp, keyOf
  <2>3. CASE ref.field = "created-by"
    <3>1. t.kind = "compute_instance_group" /\ t.project = ref.from.project
      BY <1>1, <2>3, ReferencesAssumption DEF neverRelated
    <3> QED
      BY <2>3, <3>1 DEF keyLookedUp, keyOf, instanceGroupKey
  <2>4. CASE ref.field \notin {"disks", "sourceDiskId", "created-by"}
    BY <2>4 DEF keyLookedUp, neverRelated
  <2> QED
    BY <2>1, <2>2, <2>3, <2>4
<1> QED
  BY <1>2, <1>3 DEF found

relates(made, ref) == \E x \in made : {x.from, x.to} = {ref.from, ref.to}

LEMMA HandlerRelates ==
  ASSUME TypeOK, EntitiesListed, NEW ref \in cloud.references, ListedKind(subject(ref)),
         ~neverRelated(ref), ref.field \notin {"peerings", "sourceImage"},
         \/ lookedUp(ref) \in entities
         \/ ref.field \in {"namedPorts", "allowed", "denied", "kmsKeyName"}
  PROVE  \/ relates(relationshipsOf(relater(ref), subject(ref)), ref)
         \/ /\ ref.field \in {"allowed", "denied"}
            /\ \A n \in refers(ref.from, "network") : n \notin entities
<1> DEFINE r == ref.from
           t == ref.to
<1>1. /\ cloud \in Clouds /\ ref.field \in fieldsOf(r.kind) /\ r \in cloud.resources
      /\ t \in refers(r, ref.field)
  BY Typed, FieldsAssumption, CloudAssumption DEF refers
<1>2. \A class : /\ Direct(r, class, t).from = r /\ Direct(r, class, t).to = t
                 /\ Mapped(r, class, t).from = r /\ Mapped(r, class, t).to = t
  BY DEF Direct, Mapped
<1>3. CASE ref.field = "sslPolicy"
  <2>1. relater(ref) = "fetch-compute-ssl-policies" /\ subject(ref) = t /\ r \in entities
    BY <1>3 DEF relater, subject, lookedUp
  <2>2. Direct(r, "HAS", t) \in fetchComputeSslPolicies(t)
    BY <1>1, <1>3, <2>1 DEF fetchComputeSslPolicies
  <2> QED
    BY <1>2, <2>1, <2>2, HandlerOf DEF relates
<1>4. CASE ref.field = "namedPorts"
  <2>1. subject(ref) = r /\ r.kind \in {"compute_instance_group", "compute_region_instance_group"}
    BY <1>1, <1>4 DEF subject, fieldsOf
  <2>2. relater(ref) = listingOf(r.kind)
    BY <1>4, <2>1, RelaterIs DEF SpecialFields
  <2>3. relationshipsOf(relater(ref), r) = fetchComputeInstanceGroups(r)
    BY <2>1, <2>2, HandlerOf DEF listingOf
  <2>4. Direct(r, "HAS", t) \in fetchComputeInstanceGroups(r)
    BY <1>1, <1>4 DEF fetchComputeInstanceGroups
  <2> QED
    BY <1>2, <2>1, <2>3, <2>4 DEF relates
<1>5. CASE ref.field \in {"allowed", "denied"}
  <2>1. subject(ref) = r /\ r.kind = "compute_firewall"
    BY <1>1, <1>5 DEF subject, fieldsOf
  <2>2. relater(ref) = listingOf(r.kind)
    BY <1>5, <2>1, RelaterIs DEF SpecialFields
  <2>3. relationshipsOf(relater(ref), r) = fetchComputeFirewalls(r)
    BY <2>1, <2>2, HandlerOf DEF listingOf
  <2>4. CASE found(r, "network") = {}
    <3>1. \A n \in refers(r, "network") : keyLookedUp(r, "network", n) = keyOf(n)
      BY DEF keyLookedUp
    <3> QED
      BY <1>5, <2>4, <3>1 DEF found
  <2>5. CASE found(r, "network") # {}
    <3>1. \E class : Mapped(r, class, t) \in fetchComputeFirewalls(r)
      BY <1>1, <1>5, <2>5 DEF fetchComputeFirewalls, processFirewallRuleLists
    <3> QED
      BY <1>2, <2>1, <2>3, <3>1 DEF relates
  <2> QED
    BY <2>4, <2>5
<1>6. CASE ref.field \notin {"sslPolicy", "namedPorts", "allowed", "denied"}
  <2>1. subject(ref) = r /\ lookedUp(ref) = t
    BY <1>6 DEF subject, lookedUp
  <2>2. r.kind = "compute_region_load_balancer" => t.kind # "compute_backend_bucket"
    BY DEF neverRelated
  <2>3. t \in found(r, ref.field) => relates(relationshipsOf(relater(ref), r), ref)
    BY <1>6, <2>1, <2>2, FoundRelated DEF relates
  <2>4. CASE t \in entities
    BY <2>1, <2>3, <2>4, LookedUpFound
  <2>5. CASE ref.field = "kmsKeyName" /\ found(r, "kmsKeyName") # {}
    <3>1. PICK e \in found(r, "kmsKeyName") : TRUE
      BY <2>5
    <3>2. e \in refers(r, "kmsKeyName")
      BY <1>1, <3>1, FoundReferred
    <3>3. e = t
      BY <1>1, <2>5, <3>2, Referred, FieldsAssumption
    <3> QED
      BY <2>1, <2>3, <2>5, <3>1, <3>3
  <2>6. CASE ref.field = "kmsKeyName" /\ found(r, "kmsKeyName") = {}
    <3>1. relater(ref) \in {DISK_KMS, IMAGE_KMS}
      BY <2>6 DEF relater, DISK_KMS, IMAGE_KMS
    <3>2. Mapped(r, "USES", t) \in buildUsesKmsRelationships(r)
      BY <1>1, <2>6 DEF buildUsesKmsRelationships
    <3> QED
      BY <1>2, <2>1, <3>1, <3>2, HandlerOf DEF relates
  <2> QED
    BY <1>6, <2>1, <2>4, <2>5, <2>6
<1> QED
  BY <1>3, <1>4, <1>5, <1>6

\* The races of the catalog, by the references they are of.
LEMMA RaceNamed ==
  ASSUME TypeOK, NEW ref \in cloud.references, ListedKind(subject(ref)),
         ref.field \notin {"namedPorts", "allowed", "denied"},
         <<relater(ref), lookedUp(ref).kind>> \in Races
  PROVE  racing(ref)
<1>1. cloud \in Clouds /\ ref.field \in fieldsOf(ref.from.kind)
  BY Typed, FieldsAssumption
<1>2. CASE ref.field = "sslPolicy"
  <2>1. relater(ref) = "fetch-compute-ssl-policies" /\ lookedUp(ref) = ref.from
    BY <1>2 DEF relater, lookedUp
  <2>2. ref.from.kind = "compute_region_target_https_proxy" /\ ref.to.kind = "compute_ssl_policy"
    BY <1>1, <1>2, <2>1, FieldsAssumption DEF Races, DISK_IMAGE
  <2> QED
    BY <2>2 DEF racing
<1>3. CASE ref.field \in SpecialFields \ {"sslPolicy"}
  <2>1. lookedUp(ref) = ref.to
    BY <1>3 DEF lookedUp
  <2>2. relater(ref) \in {PEERINGS, BACKEND_BUCKETS, ACCOUNTS, SNAPSHOT_DISK, IMAGE_IMAGE, DISK_KMS,
                          IMAGE_KMS}
          \/ (relater(ref) = DISK_IMAGE /\ ref.field = "sourceImage")
    BY <1>3 DEF relater, SpecialFields, PEERINGS, BACKEND_BUCKETS, ACCOUNTS, SNAPSHOT_DISK,
       DISK_IMAGE, IMAGE_IMAGE, DISK_KMS, IMAGE_KMS
  <2>3. relater(ref) = DISK_IMAGE /\ ref.field = "sourceImage"
    BY <2>2 DEF Races, PEERINGS, BACKEND_BUCKETS, ACCOUNTS, SNAPSHOT_DISK, DISK_IMAGE,
       IMAGE_IMAGE, DISK_KMS, IMAGE_KMS
  <2>4. lookedUp(ref).kind = "compute_image"
    BY <1>1, <2>1, <2>3, FieldsAssumption
  <2> QED
    BY <2>3, <2>4 DEF Races, DISK_IMAGE
<1>4. CASE ref.field \notin SpecialFields
  <2>1. subject(ref) = ref.from /\ lookedUp(ref) = ref.to
    BY <1>4 DEF subject, lookedUp, SpecialFields
  <2>2. relater(ref) = listingOf(ref.from.kind)
    BY <1>4, <2>1, RelaterIs
  <2>3. ref.from.kind # "compute_ssl_policy"
    BY <1>1 DEF fieldsOf
  <2>4. <<listingOf(ref.from.kind), ref.to.kind>> \in Races
    BY <2>1, <2>2
  <2> HIDE DEF Races
  <2>5. /\ listingOf(ref.from.kind) = "fetch-compute-backend-services" =>
             ref.from.kind = "compute_backend_service"
        /\ listingOf(ref.from.kind) = "fetch-compute-region_backend-services" =>
             ref.from.kind = "compute_region_backend_service"
        /\ listingOf(ref.from.kind) = "fetch-compute-global-forwarding-rules" =>
             ref.from.kind = "compute_global_forwarding_rule"
        /\ listingOf(ref.from.kind) = "fetch-compute-ssl-policies" =>
             ref.from.kind = "compute_ssl_policy"
        /\ listingOf(ref.from.kind) # DISK_IMAGE
    BY DEF listingOf, DISK_IMAGE
  <2> QED
    BY <2>3, <2>4, <2>5 DEF Races, racing
<1> QED
  BY <1>2, <1>3, <1>4

LEMMA RelaterHandled ==
  ASSUME NEW ref, ListedKind(subject(ref))
  PROVE  relater(ref) \in handled
<1>1. CASE ref.field \in SpecialFields
  BY <1>1, Listings
     DEF relater, SpecialFields, PEERINGS, BACKEND_BUCKETS, ACCOUNTS, SNAPSHOT_DISK, DISK_IMAGE,
         IMAGE_IMAGE, DISK_KMS, IMAGE_KMS, handled, global
<1>2. CASE ref.field \notin SpecialFields
  <2>1. subject(ref) = ref.from
    BY <1>2 DEF subject, SpecialFields
  <2> QED
    BY <1>2, <2>1, RelaterIs, Listings DEF ListedKind
<1> QED
  BY <1>1, <1>2

\* What a handler does not find when it runs is not added later.
LEMMA TargetSettled ==
  ASSUME TypeOK, StepsInOrder, [Next]_vars, NEW ref \in cloud.references,
         relater(ref) \in DOMAIN status, status[relater(ref)] # "pending",
         ListedKind(subject(ref)), ~neverRelated(ref), ~racing(ref),
         ref.field \notin {"namedPorts", "allowed", "denied"}, lookedUp(ref) \in entities'
  PROVE  lookedUp(ref) \in entities
<1>1. lookedUp(ref).kind \in reads[relater(ref)]
  BY Typed, FieldsAssumption
<1> QED
  BY <1>1, KindSettled, RelaterHandled, RaceNamed

LEMMA LostKept ==
  ASSUME TypeOK, StepsInOrder, [Next]_vars, NEW ref \in cloud.references,
         relater(ref) \in DOMAIN status, status[relater(ref)] # "pending",
         ListedKind(subject(ref)), lostWithAnother(ref)
  PROVE  lostWithAnother(ref)'
<1>1. \A r, field : refers(r, field)' = refers(r, field)
  BY SameCloud
<1>2. cloud \in Clouds /\ cloud' = cloud
  BY Typed, Kept
<1>3. CASE /\ ref.field \in {"allowed", "denied"}
           /\ \A n \in refers(ref.from, "network") : n \notin entities
  <2>1. ref.from.kind = "compute_firewall" /\ subject(ref) = ref.from
    BY <1>2, <1>3, FieldsAssumption DEF fieldsOf, subject
  <2>2. relater(ref) = listingOf(ref.from.kind)
    BY <1>3, <2>1, RelaterIs DEF SpecialFields
  <2>3. ASSUME NEW n \in refers(ref.from, "network") PROVE n \notin entities'
    <3>1. PICK other \in cloud.references :
            other.from = ref.from /\ other.field = "network" /\ other.to = n
      BY Referred
    <3>2. subject(other) = ref.from /\ lookedUp(other) = n /\ relater(other) = relater(ref)
      BY <2>1, <2>2, <3>1, RelaterIs DEF subject, lookedUp, SpecialFields
    <3>3. ~neverRelated(other) /\ ~racing(other)
      BY <2>1, <3>1 DEF neverRelated, racing
    <3> QED
      BY <1>3, <2>1, <3>1, <3>2, <3>3, TargetSettled
  <2> QED
    BY <1>1, <1>3, <2>3 DEF lostWithAnother
<1>4. CASE ref.field = "peerings"
  <2>1. peeredNetworks' = peeredNetworks
    BY <1>4, DataSettled DEF relater, PEERINGS
  <2>2. ASSUME NEW n, NEW t \in missing(n) PROVE t \in missing(n)'
    <3>1. t \in refers(n, "peerings") /\ withinProject(t) /\ t \notin entities
      BY <2>2 DEF missing
    <3>2. t.kind = "compute_network"
      BY <1>2, <3>1, Referred, ReferencesAssumption
    <3>3. t.kind \in processedKinds(PEERINGS) /\ <<PEERINGS, t.kind>> \notin Races
      BY <3>2 DEF processedKinds, Races, PEERINGS, ACCOUNTS, DISK_IMAGE
    <3>4. t \notin entities'
      BY <1>4, <3>1, <3>3, KindSettled, Listings DEF relater, PEERINGS
    <3> QED
      BY <1>1, <1>2, <3>1, <3>4 DEF missing, withinProject
  <2> QED
    BY <1>4, <2>1, <2>2 DEF lostWithAnother
<1>5. CASE ref.field = "serviceAccounts"
  BY <1>5, DataSettled DEF relater, ACCOUNTS, lostWithAnother
<1>6. CASE ref.field = "sourceImage" /\ ref.from \in refused
  BY <1>6, Kept DEF lostWithAnother
<1> QED
  BY <1>3, <1>4, <1>5, <1>6 DEF lostWithAnother

LEMMA SubjectKind ==
  ASSUME TypeOK, NEW ref \in cloud.references
  PROVE  subject(ref).kind # NAMED_PORT
BY Typed, FieldsAssumption DEF subject, fieldsOf, NAMED_PORT

LEMMA ListedEntity ==
  ASSUME TypeOK, DoneAdded, EntitiesListed, NEW e \in entities, e.kind # NAMED_PORT
  PROVE  /\ ListedKind(e)
         /\ listingOf(e.kind) \in DOMAIN status /\ e \in done[listingOf(e.kind)]
<1>1. listingOf(e.kind) \in DOMAIN status \cap lists /\ e \in done[listingOf(e.kind)]
  BY DEF EntitiesListed
<1>2. e \in listed(listingOf(e.kind))
  BY <1>1 DEF DoneAdded
<1> QED
  BY <1>1, <1>2, Typed DEF ListedKind, listed

\* A resource is processed before, or as, its entity is added.
LEMMA SubjectListed ==
  ASSUME TypeOK, DoneAdded, Started, EntitiesListed, [Next]_vars, NEW s \in DOMAIN status,
         NEW r \in entities' \cap done'[s], r.kind # NAMED_PORT
  PROVE  ListedKind(r) /\ (r \in done[s] => r \in entities)
<1>1. CASE r \in entities
  BY <1>1, ListedEntity
<1>2. CASE r \notin entities
  <2>1. PICK p \in DOMAIN status \cap lists : \E q \in toProcess(p) :
          r = q \/ r \in refers(q, "namedPorts")
    BY <1>2, EntitiesMoves
  <2>2. PICK q \in toProcess(p) : r = q \/ r \in refers(q, "namedPorts")
    BY <2>1
  <2>3. r = q
    BY <2>2, Referred, Typed, ReferencesAssumption DEF NAMED_PORT
  <2>4. r.kind \in writes[p] /\ r \notin done[p] /\ p \in stepIds \cap lists
    BY <2>1, <2>3, Processed, Typed DEF listed
  <2>5. listingOf(r.kind) = p
    BY <2>4, Producer
  <2>6. ASSUME r \in done[s] PROVE FALSE
    <3>1. s \in stepIds \cap lists
      BY <1>2, <2>6, Typed DEF Started
    <3>2. r.kind \in writes[s]
      BY <2>6, <3>1 DEF DoneAdded, listed
    <3> QED
      BY <2>4, <2>5, <2>6, <3>1, <3>2, Producer
  <2> QED
    BY <2>4, <2>5, <2>6 DEF ListedKind
<1> QED
  BY <1>1, <1>2

LEMMA SettledKept ==
  ASSUME TypeOK, StepsInOrder, [Next]_vars, NEW ref \in cloud.references,
         relater(ref) \in DOMAIN status, status[relater(ref)] # "pending",
         ListedKind(subject(ref)), ~neverRelated(ref), ~racing(ref), settled(ref)
  PROVE  settled(ref)'
<1>1. CASE related(ref)
  BY <1>1, Kept DEF settled, related
<1>2. CASE lostWithAnother(ref)
  BY <1>2, LostKept DEF settled
<1>3. CASE /\ lookedUp(ref) \notin entities /\ ref.field # "namedPorts"
           /\ ~(ref.to.project # Own /\ ref.field \in MappedFields)
  <2>1. ref.field \notin {"allowed", "denied"}
    BY <1>3, Typed, ReferencesAssumption DEF MappedFields
  <2>2. lookedUp(ref) \notin entities'
    BY <1>3, <2>1, TargetSettled
  <2> QED
    BY <1>3, <2>2 DEF settled
<1> QED
  BY <1>1, <1>2, <1>3 DEF settled

\* The peerings of a network are related, or lost with one that is missing.
LEMMA PeeringsHandled ==
  ASSUME TypeOK, [Next]_vars, NEW ref \in cloud.references, ref.field = "peerings",
         PEERINGS \in DOMAIN status, NEW r \in done'[PEERINGS] \ done[PEERINGS], r = ref.from
  PROVE  settled(ref)'
<1>1. ASSUME NEW s \in DOMAIN status, Start(s) \/ Finish(s) \/ Fail(s) PROVE done' = done
  BY <1>1 DEF Start, Finish, Fail
<1>2. ASSUME NEW s, NEW q, RefusePage(s, q) PROVE done' = done
  BY <1>2 DEF RefusePage
<1>3. ASSUME NEW s, NEW q, s # PEERINGS, Take(s, q) PROVE done'[PEERINGS] = done[PEERINGS]
  BY <1>3, Typed DEF Take
<1>4. ASSUME NEW q, NEW refusal, BuildDiskImageRelationships(q, refusal)
      PROVE  done'[PEERINGS] = done[PEERINGS]
  <2>1. Take(DISK_IMAGE, q) /\ DISK_IMAGE # PEERINGS
    BY <1>4 DEF BuildDiskImageRelationships, DISK_IMAGE, PEERINGS
  <2> QED
    BY <1>3, <2>1
<1>5. ASSUME NEW q, RefuseImagePolicy(q) PROVE done'[PEERINGS] = done[PEERINGS]
  <2>1. Take(IMAGES, q) /\ IMAGES # PEERINGS
    BY <1>5 DEF RefuseImagePolicy, IMAGES, PEERINGS
  <2> QED
    BY <1>3, <2>1
<1>6. ASSUME NEW s, NEW q, Adds(s, q) PROVE done'[PEERINGS] = done[PEERINGS]
  BY <1>3, <1>6 DEF Adds
<1>7. PICK q \in cloud.resources : \E before \in SUBSET refers(q, "peerings") :
        BuildComputeNetworkPeeringRelationships(q, before)
  BY <1>1, <1>2, <1>4, <1>5, <1>6, StepCases DEF vars
<1>8. PICK before \in SUBSET refers(q, "peerings") :
        BuildComputeNetworkPeeringRelationships(q, before)
  BY <1>7
<1>9. /\ q \in toProcess(PEERINGS) /\ UNCHANGED <<cloud, entities, peeredNetworks>>
      /\ relationships' = relationships \cup {peering(q, t) : t \in before}
  BY <1>8 DEF BuildComputeNetworkPeeringRelationships, PEERINGS
<1>10. CASE missing(q) = {}
  <2>1. before = refers(q, "peerings") /\ r = q
    BY <1>8, <1>10, Typed DEF BuildComputeNetworkPeeringRelationships, PEERINGS
  <2>2. ref.to \in before
    BY <2>1 DEF refers
  <2>3. peering(q, ref.to) \in relationships'
    BY <1>9, <2>2
  <2>4. peering(q, ref.to).from = ref.from /\ peering(q, ref.to).to = ref.to
    BY <2>1 DEF peering, Direct, Mapped
  <2> QED
    BY <2>3, <2>4 DEF settled, related
<1>11. CASE missing(q) # {}
  <2>1. peeredNetworks # None /\ q \in peeredNetworks
    BY <1>9, Listings DEF toProcess, PEERINGS, ACCOUNTS
  <2>2. missing(q)' = missing(q)
    BY <1>9 DEF missing, withinProject, refers
  <2>3. peeredNetworks' = peeredNetworks
    BY <1>9
  <2>4. lostWithAnother(ref)'
    BY <1>11, <2>1, <2>2, <2>3 DEF lostWithAnother
  <2> QED
    BY <2>4 DEF settled
<1> QED
  BY <1>10, <1>11

\* A disk is related to its image, or to none where that is refused.
LEMMA ImageHandled ==
  ASSUME TypeOK, EntitiesListed, NEW ref \in cloud.references, ref.field = "sourceImage",
         ~neverRelated(ref), NEW refusal, BuildDiskImageRelationships(ref.from, refusal)
  PROVE  settled(ref)'
<1> DEFINE r == ref.from
           t == ref.to
           public == {x \in refers(r, "sourceImage") : x.project # Own}
<1>1. /\ t \in refers(r, "sourceImage") /\ subject(ref) = r /\ lookedUp(ref) = t
  BY DEF refers, subject, lookedUp
<1>2. /\ entities' = entities
      /\ refusal => refused' = refused \cup {r}
      /\ relationships' = relationships \cup
           IF public = {} THEN uses(r, "sourceImage", "USES")
           ELSE IF refusal THEN {} ELSE {Mapped(r, "USES", x) : x \in public}
  BY DEF BuildDiskImageRelationships
<1>3. \A x \in refers(r, "sourceImage") : x = t
  BY Referred, Typed, FieldsAssumption
<1>4. CASE t.project = Own /\ t \in entities
  <2>1. public = {}
    BY <1>3, <1>4
  <2>2. t \in found(r, "sourceImage")
    BY <1>4, LookedUpFound
  <2>3. Direct(r, "USES", t) \in relationships'
    BY <1>2, <2>1, <2>2 DEF uses
  <2>4. Direct(r, "USES", t).from = r /\ Direct(r, "USES", t).to = t
    BY DEF Direct
  <2> QED
    BY <2>3, <2>4 DEF settled, related
<1>5. CASE t.project = Own /\ t \notin entities
  BY <1>1, <1>2, <1>5 DEF settled
<1>6. CASE t.project # Own /\ refusal
  <2>1. lostWithAnother(ref)'
    BY <1>2, <1>6 DEF lostWithAnother
  <2> QED
    BY <2>1 DEF settled
<1>7. CASE t.project # Own /\ ~refusal
  <2>1. t \in public
    BY <1>1, <1>7
  <2>2. Mapped(r, "USES", t) \in relationships'
    BY <1>2, <1>7, <2>1
  <2>3. Mapped(r, "USES", t).from = r /\ Mapped(r, "USES", t).to = t
    BY DEF Mapped
  <2> QED
    BY <2>2, <2>3 DEF settled, related
<1> QED
  BY <1>4, <1>5, <1>6, <1>7

LEMMA AddedHandled ==
  ASSUME TypeOK, StepsInOrder, EntitiesListed, [Next]_vars, NEW ref \in cloud.references,
         ListedKind(subject(ref)), ~neverRelated(ref), ~racing(ref),
         Adds(relater(ref), subject(ref))
  PROVE  settled(ref)'
<1> DEFINE s == relater(ref)
           r == subject(ref)
<1>1. /\ s \in DOMAIN status /\ status[s] # "pending" /\ s \notin {PEERINGS, DISK_IMAGE}
      /\ relationshipsOf(s, r) \subseteq relationships'
  BY DEF Adds, Take, AddEntityAndRelationships, running
<1>2. ref.field \notin {"peerings", "sourceImage"}
  BY <1>1 DEF relater, PEERINGS, DISK_IMAGE
<1>3. CASE \/ lookedUp(ref) \in entities
           \/ ref.field \in {"namedPorts", "allowed", "denied", "kmsKeyName"}
  <2>1. CASE relates(relationshipsOf(s, r), ref)
    BY <1>1, <2>1 DEF relates, settled, related
  <2>2. CASE /\ ref.field \in {"allowed", "denied"}
             /\ \A n \in refers(ref.from, "network") : n \notin entities
    <3>1. lostWithAnother(ref)
      BY <2>2 DEF lostWithAnother
    <3> QED
      BY <1>1, <3>1, LostKept DEF settled
  <2> QED
    BY <1>2, <1>3, <2>1, <2>2, HandlerRelates
<1>4. CASE /\ lookedUp(ref) \notin entities
           /\ ref.field \notin {"namedPorts", "allowed", "denied", "kmsKeyName"}
  <2>1. lookedUp(ref) \notin entities'
    BY <1>1, <1>4, TargetSettled
  <2>2. ref.field \notin MappedFields
    BY <1>2, <1>4 DEF MappedFields
  <2> QED
    BY <1>4, <2>1, <2>2 DEF settled
<1> QED
  BY <1>3, <1>4

LEMMA HandledStep ==
  ASSUME TypeOK, StepsInOrder, DoneAdded, Started, EntitiesListed, Handled, [Next]_vars
  PROVE  Handled'
<1> SUFFICES ASSUME NEW ref \in cloud.references, relater(ref) \in DOMAIN status,
                    subject(ref) \in done'[relater(ref)] \cap entities',
                    ~neverRelated(ref), ~racing(ref)
             PROVE  settled(ref)'
  <2>1. DOMAIN status' = DOMAIN status /\ cloud' = cloud
    BY StatusMoves, Typed, Kept
  <2> QED
    BY <2>1 DEF Handled
<1> DEFINE s == relater(ref)
           r == subject(ref)
<1>1. ListedKind(r) /\ (r \in done[s] => r \in entities)
  BY SubjectKind, SubjectListed
<1>2. CASE r \in done[s]
  <2>1. status[s] # "pending"
    BY <1>2 DEF Started
  <2>2. settled(ref)
    BY <1>1, <1>2 DEF Handled
  <2> QED
    BY <1>1, <2>1, <2>2, SettledKept
<1>3. CASE r \notin done[s]
  <2>1. CASE s = PEERINGS
    <3>1. ref.field = "peerings"
      BY <1>1, <2>1, RelaterIs, Listings
         DEF relater, subject, ListedKind, SpecialFields, PEERINGS, DISK_IMAGE
    <3>2. r = ref.from
      BY <3>1 DEF subject
    <3> QED
      BY <1>3, <2>1, <3>1, <3>2, PeeringsHandled
  <2>2. CASE s = DISK_IMAGE /\ \E refusal \in BOOLEAN : BuildDiskImageRelationships(r, refusal)
    <3>1. ref.field = "sourceImage"
      BY <1>1, <2>2, RelaterIs, Listings
         DEF relater, subject, ListedKind, SpecialFields, PEERINGS, DISK_IMAGE
    <3>2. r = ref.from
      BY <3>1 DEF subject
    <3> QED
      BY <2>2, <3>1, <3>2, ImageHandled
  <2>3. CASE s = IMAGES /\ RefuseImagePolicy(r)
    <3>1. r \in entities
      BY <2>3 DEF RefuseImagePolicy
    <3>2. r \in toProcess(s)
      BY <1>3, DoneMoves
    <3>3. r.kind \in writes[s] /\ s \in stepIds \cap lists
      BY <2>3, <3>2, Processed, Typed, Listings DEF listed
    <3>4. listingOf(r.kind) = s
      BY <3>3, Producer
    <3> QED
      BY <1>3, <3>1, <3>4, SubjectKind, ListedEntity
  <2>4. CASE Adds(s, r)
    BY <1>1, <2>4, AddedHandled
  <2> QED
    BY <1>3, <2>1, <2>2, <2>3, <2>4, DoneMoves
<1> QED
  BY <1>2, <1>3

-----------------------------------------------------------------------------
(* The theorems                                                              *)

LEMMA InitIInv == Init => IInv
<1> SUFFICES ASSUME Init PROVE IInv
  OBVIOUS
<1>1. /\ truncated = {} /\ entities = {} /\ relationships = {} /\ diskKeys = {} /\ refused = {}
      /\ peeredNetworks = None /\ instanceServiceAccounts = None /\ faults = 0
      /\ inventoryApiDisabled = FALSE
  BY DEF Init
<1>2. /\ cloud \in Clouds
      /\ status = [s \in cloud.steps |-> "pending"]
      /\ done = [s \in cloud.steps |-> {}]
      /\ inventory = [r \in computeInstances |-> "none yet"]
  BY DEF Init
<1>3. TypeOK
  <2>1. faults \in 0..MaxFaults
    BY <1>1, CloudAssumption
  <2>2. /\ status \in [cloud.steps -> {"pending", "running", "success", "failure"}]
        /\ done \in [cloud.steps -> SUBSET cloud.resources]
        /\ inventory \in [computeInstances -> Outcomes \cup {"none yet"}]
    BY <1>2
  <2> QED
    BY <1>1, <1>2, <2>1, <2>2 DEF TypeOK
<1>4. StepsInOrder /\ DoneAdded
  BY <1>2 DEF StepsInOrder, DoneAdded
<1>5. EntitiesOwn /\ RelationshipsTrue /\ MappedSettled
  BY <1>1 DEF EntitiesOwn, RelationshipsTrue, MappedSettled
<1>6. FaultsCounted
  BY <1>1, FS_EmptySet DEF FaultsCounted
<1>7. QuotaRemembered
  BY <1>1, <1>2 DEF QuotaRemembered
<1>8. Started /\ NothingLeft /\ Handled
  BY <1>1, <1>2 DEF Started, NothingLeft, Handled
<1>9. EntitiesListed /\ DataStored
  BY <1>1 DEF EntitiesListed, DataStored
<1> QED
  BY <1>3, <1>4, <1>5, <1>6, <1>7, <1>8, <1>9 DEF IInv

LEMMA IInvStep == IInv /\ [Next]_vars => IInv'
<1> SUFFICES ASSUME IInv, [Next]_vars PROVE IInv'
  OBVIOUS
<1>1. /\ TypeOK /\ StepsInOrder /\ DoneAdded /\ EntitiesOwn /\ FaultsCounted /\ QuotaRemembered
      /\ Started /\ EntitiesListed /\ DataStored /\ NothingLeft /\ Handled
  BY DEF IInv
<1>2. TypeOK'
  BY <1>1, TypeStep
<1>3. StepsInOrder'
  BY <1>1, OrderStep
<1>4. DoneAdded' /\ EntitiesOwn'
  BY <1>1, DoneStep, EntitiesStep
<1>5. RelationshipsTrue' /\ MappedSettled'
  BY <1>4, RelationshipsStep
<1>6. FaultsCounted' /\ QuotaRemembered'
  BY <1>1, FaultsStep, QuotaStep
<1>7. Started' /\ EntitiesListed' /\ DataStored'
  BY <1>1, StartedStep, EntitiesListedStep, DataStep
<1>8. NothingLeft' /\ Handled'
  BY <1>1, NothingLeftStep, HandledStep
<1> QED
  BY <1>2, <1>3, <1>4, <1>5, <1>6, <1>7, <1>8 DEF IInv

THEOREM Invariance == Spec => []IInv
BY InitIInv, IInvStep, PTL DEF Spec

\* The job state holds resources of the cloud, and the data what was listed.
THEOREM TypeCorrect == Spec => []TypeOK
<1>1. IInv => TypeOK
  BY DEF IInv
<1> QED
  BY <1>1, Invariance, PTL

\* A relationship says what a field of one of its ends says, and is mapped just
\* when the job state does not hold the other (fetchComputeFirewalls,
\* buildUsesKmsRelationships, processInstanceNetworkPeering and the others).
THEOREM RelationshipsAreTrue == Spec => []RelationshipsTrue
<1>1. IInv => RelationshipsTrue
  BY DEF IInv
<1> QED
  BY <1>1, Invariance, PTL

LEMMA LostByFaults == IInv => LossBounded
<1> SUFFICES ASSUME IInv, NEW s \in DOMAIN status \cap lists, status[s] = "success"
             PROVE  Cardinality({r.place : r \in lost(s) \ refused})
                      + Cardinality(lost(s) \cap refused) <= faults
  BY DEF LossBounded
<1> DEFINE places == {r.place : r \in lost(s) \ refused}
           call == [p \in places |-> <<s, p>>]
<1>1. \A r \in lost(s) \ refused : <<s, r.place>> \in truncated
  <2> TAKE r \in lost(s) \ refused
  <2>1. r \in listed(s) /\ r \notin entities /\ r \notin refused
    BY DEF lost
  <2>2. r \notin done[s]
    BY <2>1 DEF IInv, DoneAdded
  <2> QED
    BY <2>1, <2>2 DEF IInv, StepsInOrder
<1>2. call \in Injection(places, truncated)
  <2>1. call \in [places -> truncated]
    BY <1>1
  <2>2. \A p, q \in places : call[p] = call[q] => p = q
    OBVIOUS
  <2> QED
    BY <2>1, <2>2 DEF Injection, IsInjective
<1>3. /\ IsFiniteSet(truncated) /\ IsFiniteSet(refused)
      /\ Cardinality(truncated) + Cardinality(refused) <= faults
  BY DEF IInv, FaultsCounted
<1>4. IsFiniteSet(places) /\ Cardinality(places) <= Cardinality(truncated)
  <2> HIDE DEF places, call
  <2> QED
    BY <1>2, <1>3, FS_Injection
<1>5. /\ IsFiniteSet(lost(s) \cap refused)
      /\ Cardinality(lost(s) \cap refused) <= Cardinality(refused)
  BY <1>3, FS_Subset
<1>6. /\ Cardinality(places) \in Nat /\ Cardinality(lost(s) \cap refused) \in Nat
      /\ Cardinality(truncated) \in Nat /\ Cardinality(refused) \in Nat
  BY <1>3, <1>4, <1>5, FS_CardinalityType
<1>7. faults \in Int
  <2>1. MaxFaults \in Nat /\ faults \in 0..MaxFaults
    BY CloudAssumption DEF IInv, TypeOK
  <2> QED
    BY <2>1
<1> HIDE DEF places
<1>8. Cardinality(places) + Cardinality(lost(s) \cap refused) <= faults
  BY <1>3, <1>4, <1>5, <1>6, <1>7
<1> QED
  BY <1>8 DEF places

\* A refused call costs a step the rest of one place's listing, or one image
\* (withErrorHandling in iterateMultiZonalResources and fetchComputeImages).
THEOREM LossIsBounded == Spec => []LossBounded
BY LostByFaults, Invariance, PTL

\* An instance has no inventory call of its own only where one of another ran
\* into the quota (fetchComputeInstanceInventory): the second part of LossExplained.
THEOREM OnlyQuotaStopsInventory ==
  Spec => [](\A r \in DOMAIN inventory : inventory[r] = "not called" =>
               \E q \in DOMAIN inventory : inventory[q] = "quota exceeded")
<1>1. IInv => \A r \in DOMAIN inventory : inventory[r] = "not called" =>
                \E q \in DOMAIN inventory : inventory[q] = "quota exceeded"
  BY DEF IInv, QuotaRemembered
<1> QED
  BY <1>1, Invariance, PTL

\* What a step has processed when it succeeds: the subject of each of its references.
LEMMA SubjectProcessed ==
  ASSUME IInv, NEW ref \in cloud.references, relater(ref) \in DOMAIN status,
         status[relater(ref)] = "success", subject(ref) \in entities,
         ~neverRelated(ref), ~racing(ref), ~lostWithAnother(ref)
  PROVE  subject(ref) \in done[relater(ref)]
<1> DEFINE s == relater(ref)
           r == subject(ref)
<1>1. /\ TypeOK /\ DoneAdded /\ EntitiesListed /\ DataStored /\ NothingLeft
      /\ cloud \in Clouds /\ ref.field \in fieldsOf(ref.from.kind)
  BY Typed, FieldsAssumption DEF IInv
<1>2. ListedKind(r) /\ r \in done[listingOf(r.kind)]
  BY <1>1, SubjectKind, ListedEntity
<1>3. CASE ref.field \notin SpecialFields
  <2>1. r = ref.from
    BY <1>3 DEF subject, SpecialFields
  <2> QED
    BY <1>2, <1>3, <2>1, RelaterIs
<1>4. CASE ref.field = "sslPolicy"
  <2>1. r = ref.to /\ r.kind = "compute_ssl_policy" /\ s = "fetch-compute-ssl-policies"
    BY <1>1, <1>4, FieldsAssumption DEF subject, relater
  <2> QED
    BY <1>2, <2>1 DEF listingOf
<1>5. CASE ref.field = "peerings"
  <2>1. r = ref.from /\ s = PEERINGS /\ r.kind = "compute_network"
    BY <1>1, <1>5, ReferencesAssumption DEF subject, relater, PEERINGS
  <2>2. r \in done[NETWORKS] /\ refers(r, "peerings") # {}
    BY <1>2, <1>5, <2>1 DEF listingOf, NETWORKS, refers
  <2>3. peeredNetworks # None /\ r \in peeredNetworks
    BY <1>1, <1>5, <2>2 DEF DataStored, lostWithAnother
  <2>4. r \in done[s] \/ r \in toProcess(s)
    BY <2>1, <2>3, Listings DEF toProcess, PEERINGS, ACCOUNTS
  <2> QED
    BY <1>1, <2>1, <2>4, Listings DEF NothingLeft
<1>6. CASE ref.field = "serviceAccounts"
  <2>1. r = ref.from /\ s = ACCOUNTS /\ r.kind = "compute_instance"
    BY <1>1, <1>6 DEF subject, relater, ACCOUNTS, fieldsOf
  <2>2. r \in done[INSTANCES] /\ refers(r, "serviceAccounts") # {}
    BY <1>2, <1>6, <2>1 DEF listingOf, INSTANCES, refers
  <2>3. instanceServiceAccounts # None /\ r \in instanceServiceAccounts
    BY <1>1, <1>6, <2>2 DEF DataStored, lostWithAnother
  <2>4. r \in done[s] \/ r \in toProcess(s)
    BY <2>1, <2>3, Listings DEF toProcess, PEERINGS, ACCOUNTS
  <2>5. s # DISK_IMAGE
    BY <2>1 DEF ACCOUNTS, DISK_IMAGE
  <2> QED
    BY <1>1, <2>1, <2>4, <2>5, Listings DEF NothingLeft
<1>7. CASE ref.field \in {"bucketName", "sourceDiskId", "sourceImage", "kmsKeyName"}
  <2>1. r = ref.from
    BY <1>7 DEF subject
  <2>2. /\ s \in {BACKEND_BUCKETS, SNAPSHOT_DISK, DISK_IMAGE, DISK_KMS, IMAGE_KMS}
        /\ r.kind \in iteratedKinds(s) /\ s \notin {PEERINGS, ACCOUNTS}
    BY <1>1, <1>7, <2>1
       DEF relater, fieldsOf, iteratedKinds, BACKEND_BUCKETS, SNAPSHOT_DISK, DISK_IMAGE, DISK_KMS,
           IMAGE_KMS, PEERINGS, ACCOUNTS
  <2>3. s \notin lists
    BY <2>2, Listings
  <2>4. r \in done[s] \/ r \in toProcess(s)
    BY <2>2, <2>3 DEF toProcess, PEERINGS, ACCOUNTS
  <2>5. ~(s = DISK_IMAGE /\ r.kind = "compute_region_disk")
    <3>1. s = DISK_IMAGE => ref.field = "sourceImage"
      BY <1>7 DEF relater, DISK_IMAGE
    <3> QED
      BY <1>1, <2>1, <3>1 DEF fieldsOf
  <2> QED
    BY <1>1, <2>3, <2>4, <2>5 DEF NothingLeft
<1> QED
  BY <1>3, <1>4, <1>5, <1>6, <1>7 DEF SpecialFields, neverRelated

LEMMA LossesExplained == IInv => LossExplained
<1> SUFFICES ASSUME IInv PROVE LossExplained
  OBVIOUS
<1>1. ASSUME NEW ref \in cloud.references, relater(ref) \in DOMAIN status,
             status[relater(ref)] = "success", ref.from \in entities,
             ref.to \in entities \/ (ref.to.project # Own /\ ref.field \in MappedFields),
             ~neverRelated(ref), ~racing(ref), ~lostWithAnother(ref)
      PROVE  related(ref)
  <2>1. subject(ref) \in entities
    BY <1>1 DEF subject, MappedFields
  <2>2. settled(ref)
    BY <1>1, <2>1, SubjectProcessed DEF IInv, Handled
  <2> QED
    BY <1>1, <2>2 DEF settled, lookedUp
<1>2. \A r \in DOMAIN inventory : inventory[r] = "not called" =>
        \E q \in DOMAIN inventory : inventory[q] = "quota exceeded"
  BY DEF IInv, QuotaRemembered
<1> QED
  BY <1>1, <1>2 DEF LossExplained

\* When a step has succeeded, each reference it is to relate has a relationship,
\* if its two ends are there, or is one no handler looks up, races with the step
\* that adds its target, or is lost with an entity, a datum or an image that is
\* not there (the handlers of src/steps/compute/steps and the steps over their
\* entities, for every order in which the catalog lets them run).
THEOREM LossIsExplained == Spec => []LossExplained
BY LossesExplained, Invariance, PTL

===============================================================================
