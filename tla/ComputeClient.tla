----------------------------- MODULE ComputeClient ----------------------------
(*****************************************************************************)
(* What the methods of ComputeClient (src/steps/compute/client.ts) list. A   *)
(* zonal or regional API is called once for each place of the table of       *)
(* regions that src/google-cloud/regions.ts holds, in its order: nothing is  *)
(* listed of a place the table lacks.                                        *)
(*****************************************************************************)
EXTENDS Sequences

CONSTANTS Zones, Regions   \* googleCloudRegions, in its order

ASSUME RegionsAssumption ==
  /\ Zones \in Seq(STRING)
  /\ Regions \in Seq(STRING)

Global == <<"global">>

Listing(step, places) == [step |-> step, places |-> places]

iterateComputeRegionDisks == Listing("fetch-compute-region-disks", Regions)
iterateComputeDisks == Listing("fetch-compute-disks", Zones)
iterateComputeSnapshots == Listing("fetch-compute-snapshots", Global)
iterateComputeGlobalAddresses == Listing("fetch-compute-global-addresses", Global)
iterateComputeAddresses == Listing("fetch-compute-addresses", Regions)
iterateGlobalForwardingRules == Listing("fetch-compute-global-forwarding-rules", Global)
iterateForwardingRules == Listing("fetch-compute-forwarding-rules", Regions)
iterateCustomComputeImages == Listing("fetch-compute-images", Global)
fetchComputeProject == Listing("fetch-compute-project", Global)
iterateComputeInstances == Listing("fetch-compute-instances", Zones)
iterateFirewalls == Listing("fetch-compute-firewalls", Global)
iterateSubnetworks == Listing("fetch-compute-subnetworks", Regions)
iterateNetworks == Listing("fetch-compute-networks", Global)
iterateRegionHealthChecks == Listing("fetch-compute-region-health-checks", Regions)
iterateHealthChecks == Listing("fetch-compute-health-checks", Global)
iterateRegionInstanceGroups == Listing("fetch-compute-region-instance-groups", Regions)
iterateInstanceGroups == Listing("fetch-compute-instance-groups", Zones)
iterateRegionLoadBalancers == Listing("fetch-compute-region-loadbalancers", Regions)
iterateLoadBalancers == Listing("fetch-compute-loadbalancers", Global)
iterateRegionBackendServices == Listing("fetch-compute-region_backend-services", Regions)
iterateBackendServices == Listing("fetch-compute-backend-services", Global)
iterateBackendBuckets == Listing("fetch-compute-backend-buckets", Global)
iterateTargetSslProxies == Listing("fetch-compute-target-ssl-proxies", Global)
iterateRegionTargetHttpsProxies == Listing("fetch-compute-region-target-https-proxies", Regions)
iterateTargetHttpsProxies == Listing("fetch-compute-target-https-proxies", Global)
iterateRegionTargetHttpProxies == Listing("fetch-compute-region-target-http-proxies", Regions)
iterateTargetHttpProxies == Listing("fetch-compute-target-http-proxies", Global)
iterateSslPolicies == Listing("fetch-compute-ssl-policies", Global)

\* The listings of other clients whose entities the handlers of this one look
\* up. A refused call costs them what is left of the listing.
otherListings ==
  {Listing(step, Global) :
     step \in {"fetch-kms-keys", "fetch-iam-service-accounts", "fetch-cloud-storage-buckets"}}

listings ==
  { iterateComputeRegionDisks, iterateComputeDisks, iterateComputeSnapshots,
    iterateComputeGlobalAddresses, iterateComputeAddresses,
    iterateGlobalForwardingRules, iterateForwardingRules,
    iterateCustomComputeImages, fetchComputeProject, iterateComputeInstances,
    iterateFirewalls, iterateSubnetworks, iterateNetworks,
    iterateRegionHealthChecks, iterateHealthChecks,
    iterateRegionInstanceGroups, iterateInstanceGroups,
    iterateRegionLoadBalancers, iterateLoadBalancers,
    iterateRegionBackendServices, iterateBackendServices,
    iterateBackendBuckets, iterateTargetSslProxies,
    iterateRegionTargetHttpsProxies, iterateTargetHttpsProxies,
    iterateRegionTargetHttpProxies, iterateTargetHttpProxies,
    iterateSslPolicies } \cup otherListings

lists == {l.step : l \in listings}

placesOf == [s \in lists |-> (CHOOSE l \in listings : l.step = s).places]
===============================================================================
