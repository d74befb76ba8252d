----------------------------- MODULE ComputeSteps -----------------------------
(*****************************************************************************)
(* The steps of src/steps/compute, one definition per file. Zonal and        *)
(* regional disks, instance groups, health checks, backend services, load    *)
(* balancers and proxies share their entity type; they are kinds of their    *)
(* own here, since a look-up by key finds only one of the two, and a handler *)
(* that iterates over the type reads both.                                   *)
(*****************************************************************************)
EXTENDS StepRecords

buildComputeBackendBucketHasBucketRelationshipsStepMap ==
  Step("build-compute-backend-bucket-bucket-relationships",
       {"fetch-compute-backend-buckets", "fetch-cloud-storage-buckets"},
       Handler({"compute_backend_bucket", "storage_bucket"}, {}))

buildComputeInstanceServiceAccountRelationshipsStepMap ==
  Step("build-compute-instance-service-account-relationships",
       {"fetch-compute-instances", "fetch-iam-service-accounts"},
       Handler({"compute_instance", "iam_service_account"}, {}))

buildComputeNetworkPeeringRelationshipsStepMap ==
  Step("fetch-compute-networks-peering-relationships",
       {"fetch-compute-networks"},
       Handler({"compute_network"}, {}))

\* The snapshots' relationships without the disks they are made of.
buildComputeSnapshotDiskRelationshipsTooEarly ==
  Step("build-compute-snapshot-disk-relationships",
       {"fetch-compute-snapshots"},
       Handler({"compute_snapshot", "compute_disk"}, {}))

buildComputeSnapshotDiskRelationshipsStepMap ==
  Step("build-compute-snapshot-disk-relationships",
       {"fetch-compute-snapshots", "fetch-compute-disks"},
       Handler({"compute_snapshot", "compute_disk"}, {}))

buildDiskImageRelationshipsStepMap ==
  Step("build-compute-disk-image-relationships",
       {"fetch-compute-disks", "fetch-compute-images"},
       Handler({"compute_disk", "compute_region_disk", "compute_image"}, {}))

buildDiskUsesKmsRelationshipsStepMap ==
  Step("build-compute-disk-kms-relationships",
       {"fetch-compute-disks", "fetch-compute-region-disks",
        "fetch-kms-keys", "fetch-kms-key-rings"},
       Handler({"compute_disk", "compute_region_disk", "kms_crypto_key"}, {}))

buildImageCreatedImageRelationshipsStepMap ==
  Step("build-image-image-relationships", {"fetch-compute-images"},
       Handler({"compute_image"}, {}))

buildImageUsesKmsRelationshipsStepMap ==
  Step("build-compute-image-kms-relationships",
       {"fetch-compute-images", "fetch-kms-keys"},
       Handler({"compute_image", "kms_crypto_key"}, {}))

fetchComputeAddressesStepMap ==
  Step("fetch-compute-addresses",
       {"fetch-compute-networks", "fetch-compute-subnetworks",
        "fetch-compute-instances", "fetch-compute-forwarding-rules"},
       Handler({"compute_subnetwork", "compute_network", "compute_instance",
                "compute_forwarding_rule"},
               {"compute_address"}))

fetchBackendBucketsStepMap ==
  Step("fetch-compute-backend-buckets", {},
       Handler({}, {"compute_backend_bucket"}))

fetchComputeBackendServicesStepMap ==
  Step("fetch-compute-backend-services",
       {"fetch-compute-instance-groups", "fetch-compute-health-checks"},
       Handler({"compute_instance_group", "compute_region_instance_group",
                "compute_health_check"},
               {"compute_backend_service"}))

fetchComputeDisksStepMap ==
  Step("fetch-compute-disks", {},
       Handler({}, {"compute_disk"}))

fetchComputeFirewallsStepMap ==
  Step("fetch-compute-firewalls", {"fetch-compute-networks"},
       Handler({"compute_network"}, {"compute_firewall"}))

fetchComputeForwardingRulesStepMap ==
  Step("fetch-compute-forwarding-rules",
       {"fetch-compute-region_backend-services", "fetch-compute-networks",
        "fetch-compute-subnetworks",
        "fetch-compute-region-target-http-proxies",
        "fetch-compute-region-target-https-proxies"},
       Handler({"compute_region_backend_service", "compute_subnetwork",
                "compute_network", "compute_region_target_http_proxy",
                "compute_region_target_https_proxy"},
               {"compute_forwarding_rule"}))

fetchComputeGlobalAddressesStepMap ==
  Step("fetch-compute-global-addresses",
       {"fetch-compute-networks", "fetch-compute-subnetworks"},
       Handler({"compute_subnetwork", "compute_network"},
               {"compute_global_address"}))

fetchComputeGlobalForwardingRulesStepMap ==
  Step("fetch-compute-global-forwarding-rules",
       {"fetch-compute-backend-services", "fetch-compute-networks",
        "fetch-compute-subnetworks", "fetch-compute-target-http-proxies",
        "fetch-compute-target-https-proxies"},
       Handler({"compute_backend_service", "compute_subnetwork",
                "compute_network", "compute_target_http_proxy",
                "compute_target_https_proxy", "compute_target_ssl_proxy"},
               {"compute_global_forwarding_rule"}))

fetchComputeHealthChecksStepMap ==
  Step("fetch-compute-health-checks", {},
       Handler({}, {"compute_health_check"}))

fetchComputeImagesStepMap ==
  Step("fetch-compute-images", {"fetch-compute-snapshots"},
       Handler({"compute_snapshot"}, {"compute_image"}))

fetchComputeInstanceGroupsStepMap ==
  Step("fetch-compute-instance-groups", {},
       Handler({}, {"compute_instance_group"}))

fetchComputeInstancesStepMap ==
  Step("fetch-compute-instances",
       {"fetch-compute-disks", "fetch-compute-networks",
        "fetch-compute-subnetworks", "fetch-compute-instance-groups"},
       Handler({"compute_disk", "compute_subnetwork",
                "compute_instance_group"},
               {"compute_instance"}))

fetchComputeLoadbalancersStepMap ==
  Step("fetch-compute-loadbalancers",
       {"fetch-compute-backend-services", "fetch-compute-backend-buckets"},
       Handler({"compute_backend_service", "compute_backend_bucket"},
               {"compute_load_balancer"}))

fetchComputeNetworksStepMap ==
  Step("fetch-compute-networks", {},
       Handler({}, {"compute_network"}))

fetchComputeProjectStepMap ==
  Step("fetch-compute-project", {"fetch-compute-instances"},
       Handler({"compute_instance"}, {"compute_project"}))

fetchComputeRegionBackendServicesStepMap ==
  Step("fetch-compute-region_backend-services",
       {"fetch-compute-region-instance-groups",
        "fetch-compute-region-health-checks"},
       Handler({"compute_instance_group", "compute_region_instance_group",
                "compute_health_check", "compute_region_health_check"},
               {"compute_region_backend_service"}))

fetchComputeRegionDisksStepMap ==
  Step("fetch-compute-region-disks", {},
       Handler({}, {"compute_region_disk"}))

fetchComputeRegionHealthChecksStepMap ==
  Step("fetch-compute-region-health-checks", {},
       Handler({}, {"compute_region_health_check"}))

fetchComputeRegionInstanceGroupsStepMap ==
  Step("fetch-compute-region-instance-groups", {},
       Handler({}, {"compute_region_instance_group"}))

fetchComputeRegionLoadbalancersStepMap ==
  Step("fetch-compute-region-loadbalancers",
       {"fetch-compute-region_backend-services"},
       Handler({"compute_region_backend_service"},
               {"compute_region_load_balancer"}))

fetchComputeRegionTargetHttpProxiesStepMap ==
  Step("fetch-compute-region-target-http-proxies",
       {"fetch-compute-region-loadbalancers"},
       Handler({"compute_region_load_balancer"},
               {"compute_region_target_http_proxy"}))

fetchComputeRegionTargetHttpsProxiesStepMap ==
  Step("fetch-compute-region-target-https-proxies",
       {"fetch-compute-region-loadbalancers"},
       Handler({"compute_region_load_balancer"},
               {"compute_region_target_https_proxy"}))

fetchComputeSnapshotsStepMap ==
  Step("fetch-compute-snapshots", {},
       Handler({}, {"compute_snapshot"}))

fetchComputeSslPoliciesStepMap ==
  Step("fetch-compute-ssl-policies",
       {"fetch-compute-target-https-proxies",
        "fetch-compute-target-ssl-proxies"},
       Handler({"compute_target_https_proxy",
                "compute_region_target_https_proxy",
                "compute_target_ssl_proxy"},
               {"compute_ssl_policy"}))

fetchComputeSubnetworksStepMap ==
  Step("fetch-compute-subnetworks", {"fetch-compute-networks"},
       Handler({"compute_network"}, {"compute_subnetwork"}))

fetchComputeTargetHttpProxiesStepMap ==
  Step("fetch-compute-target-http-proxies", {"fetch-compute-loadbalancers"},
       Handler({"compute_load_balancer"}, {"compute_target_http_proxy"}))

fetchComputeTargetHttpsProxiesStepMap ==
  Step("fetch-compute-target-https-proxies", {"fetch-compute-loadbalancers"},
       Handler({"compute_load_balancer"}, {"compute_target_https_proxy"}))

fetchComputeTargetSslProxiesStepMap ==
  Step("fetch-compute-target-ssl-proxies", {"fetch-compute-backend-services"},
       Handler({"compute_backend_service"}, {"compute_target_ssl_proxy"}))

computeSteps ==
  { fetchComputeNetworksStepMap,
    fetchComputeSubnetworksStepMap,
    fetchComputeDisksStepMap,
    fetchComputeRegionDisksStepMap,
    fetchBackendBucketsStepMap,
    fetchComputeSnapshotsStepMap,
    fetchComputeHealthChecksStepMap,
    fetchComputeRegionHealthChecksStepMap,
    fetchComputeInstanceGroupsStepMap,
    fetchComputeRegionInstanceGroupsStepMap,
    fetchComputeProjectStepMap,
    fetchComputeAddressesStepMap,
    fetchComputeRegionBackendServicesStepMap,
    fetchComputeBackendServicesStepMap,
    fetchComputeGlobalAddressesStepMap,
    fetchComputeRegionLoadbalancersStepMap,
    fetchComputeLoadbalancersStepMap,
    fetchComputeTargetSslProxiesStepMap,
    fetchComputeImagesStepMap,
    fetchComputeTargetHttpsProxiesStepMap,
    fetchComputeInstancesStepMap,
    fetchComputeRegionTargetHttpsProxiesStepMap,
    fetchComputeFirewallsStepMap,
    fetchComputeRegionTargetHttpProxiesStepMap,
    fetchComputeTargetHttpProxiesStepMap,
    fetchComputeSslPoliciesStepMap,
    fetchComputeForwardingRulesStepMap,
    fetchComputeGlobalForwardingRulesStepMap,
    buildComputeNetworkPeeringRelationshipsStepMap,
    buildComputeSnapshotDiskRelationshipsStepMap,
    buildDiskImageRelationshipsStepMap,
    buildComputeBackendBucketHasBucketRelationshipsStepMap,
    buildComputeInstanceServiceAccountRelationshipsStepMap,
    buildImageCreatedImageRelationshipsStepMap,
    buildImageUsesKmsRelationshipsStepMap,
    buildDiskUsesKmsRelationshipsStepMap }
===============================================================================
