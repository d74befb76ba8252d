--------------------------- MODULE MCComputeHandlers ---------------------------
(*****************************************************************************)
(* ComputeHandlers over small projects, one for each group of steps that     *)
(* look each other's entities up, with what is zonal and regional, in two    *)
(* zones and in one the table of regions lacks, and in another project.      *)
(*****************************************************************************)
EXTENDS ComputeHandlers

zones == <<"us-a", "us-b">>
regions == <<"us">>

R(kind, place, name) ==
  [kind |-> "compute_" \o kind, project |-> "own", place |-> place, name |-> name]
OfKind(kind, project, name) ==
  [kind |-> kind, project |-> project, place |-> "global", name |-> name]
G(kind, name) == R(kind, "global", name)

ref(from, field, to) == [from |-> from, field |-> field, to |-> to]

stepsOf(ids) == UNION {cone(id) : id \in ids}

cloudOf(references, others, ids, configured) ==
  [resources |-> others \cup UNION {{x.from, x.to} : x \in references},
   references |-> references, configured |-> configured, steps |-> stepsOf(ids)]

-----------------------------------------------------------------------------

disk == R("disk", "us-a", "d1")
disk2 == R("disk", "us-b", "d2")
regionDisk == R("region_disk", "us", "rd")
image == G("image", "i1")
publicImage == [G("image", "debian") EXCEPT !.project = "debian-cloud"]

images ==
  cloudOf({ref(G("snapshot", "s1"), "sourceDiskId", disk),
           ref(G("snapshot", "s2"), "sourceDiskId", regionDisk),
           ref(image, "sourceSnapshotId", G("snapshot", "s1")),
           ref(disk, "sourceImage", publicImage)},
          {R("disk", "us-new", "d3")},
          {"build-compute-snapshot-disk-relationships", "build-compute-disk-image-relationships",
           "fetch-compute-region-disks"},
          TRUE)

imagesOfImages ==
  cloudOf({ref(G("image", "i2"), "sourceImageId", image),
           ref(disk2, "sourceImage", image)}, {},
          {"build-image-image-relationships", "build-compute-disk-image-relationships"}, TRUE)

kmsKey == OfKind("kms_crypto_key", "own", "k1")
foreignKey == OfKind("kms_crypto_key", "other", "k1")

encrypted ==
  cloudOf({ref(disk, "kmsKeyName", kmsKey), ref(regionDisk, "kmsKeyName", kmsKey),
           ref(image, "kmsKeyName", foreignKey)}, {},
          {"build-compute-disk-kms-relationships", "build-compute-image-kms-relationships"}, TRUE)

network == G("network", "n1")
network2 == G("network", "n2")
network3 == G("network", "n3")
foreignNetwork == [G("network", "n1") EXCEPT !.project = "other"]
subnetwork == R("subnetwork", "us", "sn")
range == OfKind("ip_range", "internet", "0.0.0.0/0")

networks(configured) ==
  cloudOf({ref(network, "peerings", network2), ref(network2, "peerings", network),
           ref(network3, "peerings", foreignNetwork),
           ref(G("firewall", "f1"), "network", network),
           ref(G("firewall", "f1"), "allowed", range),
           ref(G("firewall", "f2"), "network", network2),
           ref(G("firewall", "f2"), "denied", range)}, {},
          {"fetch-compute-networks-peering-relationships", "fetch-compute-firewalls"}, configured)

instance1 == R("instance", "us-a", "i1")
instance2 == R("instance", "us-b", "gke")
account == OfKind("iam_service_account", "own", "sa")

instances ==
  cloudOf({ref(instance1, "disks", disk), ref(instance2, "disks", regionDisk),
           ref(instance1, "created-by", R("instance_group", "us-b", "ig")),
           ref(instance2, "created-by", R("region_instance_group", "us", "rig")),
           ref(R("instance_group", "us-b", "ig"), "namedPorts",
               R("instance_group_named_port", "us-b", "http")),
           ref(instance1, "serviceAccounts", account)},
          {R("instance_group", "us-a", "ig"), G("project", "own")},
          {"build-compute-instance-service-account-relationships", "fetch-compute-project"}, TRUE)

addressing ==
  cloudOf({ref(subnetwork, "network", network), ref(instance1, "subnetwork", subnetwork),
           ref(R("address", "us", "a1"), "users", instance1),
           ref(R("address", "us", "a1"), "subnetwork", subnetwork),
           ref(G("global_address", "ga"), "network", network)}, {},
          {"fetch-compute-addresses", "fetch-compute-global-addresses"}, TRUE)

sslPolicy == G("ssl_policy", "p")
backendService == G("backend_service", "bs")
backendBucket == G("backend_bucket", "bb")
urlMap == G("load_balancer", "lb")
httpsProxy == G("target_https_proxy", "https")
sslProxy == G("target_ssl_proxy", "ssl")

balancing ==
  cloudOf({ref(backendService, "backends", R("instance_group", "us-a", "ig")),
           ref(backendService, "healthChecks", G("health_check", "hc")),
           ref(urlMap, "pathMatchers", backendService),
           ref(urlMap, "pathMatchers", backendBucket),
           ref(urlMap, "defaultService", G("backend_service", "bs2")),
           ref(httpsProxy, "urlMap", urlMap), ref(httpsProxy, "sslPolicy", sslPolicy),
           ref(sslProxy, "service", backendService), ref(sslProxy, "sslPolicy", sslPolicy)}, {},
          {"fetch-compute-ssl-policies"}, TRUE)

forwarding ==
  cloudOf({ref(G("global_forwarding_rule", "gfr"), "target", sslProxy),
           ref(G("global_forwarding_rule", "gfr"), "network", network),
           ref(backendBucket, "bucketName", OfKind("storage_bucket", "own", "b"))}, {},
          {"fetch-compute-global-forwarding-rules", "fetch-compute-target-ssl-proxies",
           "build-compute-backend-bucket-bucket-relationships"}, TRUE)

regionalService == R("region_backend_service", "us", "rbs")
regionalUrlMap == R("region_load_balancer", "us", "rlb")
regionalProxy == R("region_target_http_proxy", "us", "rhttp")

regional ==
  cloudOf({ref(regionalService, "backends", R("region_instance_group", "us", "rig")),
           ref(regionalService, "backends", R("instance_group", "us-a", "ig")),
           ref(regionalService, "healthChecks", R("region_health_check", "us", "rhc")),
           ref(regionalUrlMap, "pathMatchers", regionalService),
           ref(regionalProxy, "urlMap", regionalUrlMap),
           ref(R("forwarding_rule", "us", "fr"), "target", regionalProxy)}, {},
          {"fetch-compute-forwarding-rules", "fetch-compute-instance-groups"}, TRUE)

clouds ==
  {images, imagesOfImages, encrypted, networks(TRUE), networks(FALSE), instances, addressing,
   balancing, forwarding, regional}
===============================================================================
