---------------------------- MODULE ComputeHandlers ----------------------------
(*****************************************************************************)
(* The handlers of the Compute steps (src/steps/compute/steps), run together *)
(* over one job state: each adds the entities its client lists and relates   *)
(* them to what it finds in the job state by then.                           *)
(*                                                                           *)
(* A resource refers to another through a field; the handler looks for the   *)
(* key it makes of the field's value. What a step is ordered after, and the  *)
(* kind of entity it adds, are the catalog's. The callback of a resource     *)
(* runs as one action: what it looks up is stable meanwhile, but for the     *)
(* known races, where it finds the entity or not.                            *)
(*****************************************************************************)
EXTENDS ComputeClient, StepCatalog, Naturals, FiniteSets

CONSTANTS
  Clouds,      \* the resources, and which refers to which
  Own,         \* client.projectId
  MaxFaults,   \* the calls of a run that may fail
  None

VARIABLES
  cloud,
  status,         \* of each enabled step
  done,           \* what each step has processed
  truncated,      \* <<step, place>>: the listing was cut short by a refused call
  entities,
  relationships,
  diskKeys,       \* data: the disks whose selfLink is mapped to their key
  peeredNetworks, \* data, or None
  instanceServiceAccounts, \* data: the instances it has accounts of, or None
  refused,        \* the images whose policy may not be read, and the disks
                  \* whose public image may not
  inventory,      \* what became of the inventory call of each instance
  inventoryApiDisabled,
  faults

jobState == <<entities, relationships, diskKeys, peeredNetworks, instanceServiceAccounts>>
vars == <<cloud, status, done, truncated, jobState, refused, inventory,
          inventoryApiDisabled, faults>>

Resource == [kind : STRING, project : STRING, place : STRING, name : STRING]
Refers == [from : Resource, field : STRING, to : Resource]

Cloud == [resources : SUBSET Resource, references : SUBSET Refers,
          configured : BOOLEAN,   \* whether config.projectId is given
          steps : SUBSET stepIds]

\* A run enables a step with all it depends on.
ASSUME CloudAssumption ==
  /\ \A c \in Clouds :
       /\ DOMAIN c = {"resources", "references", "configured", "steps"}
       /\ \A ref \in c.references : {ref.from, ref.to} \subseteq c.resources
       /\ c.steps \subseteq stepIds
       /\ \A s \in c.steps : dependsOn[s] \subseteq c.steps
  /\ MaxFaults \in Nat

-----------------------------------------------------------------------------
(* The job state                                                             *)

refers(r, field) == {ref.to : ref \in {x \in cloud.references : x.from = r /\ x.field = field}}

\* The _key of an entity: the selfLink of the resource, for most.
keyOf(r) ==
  CASE r.kind = "compute_disk" -> <<"disk", r.place, r.name>>
    [] r.kind = "compute_region_disk" -> <<"region_disk", r.place, r.name>>
    [] r.kind = "compute_snapshot" -> <<"snapshot", r.place, r.name>>
    [] r.kind \in {"compute_instance_group", "compute_region_instance_group"} ->
         <<"instanceGroups", r.project, r.place, r.name>>
    [] OTHER -> <<r.kind, r.project, r.place, r.name>>

\* No two resources have one key, nor two disks one identifier, which the
\* place and the name stand for; a place is not called "zones".
ASSUME KeysAssumption ==
  \A c \in Clouds :
    /\ \A r \in c.resources : keyOf(r) # None /\ r.place # "zones"
    /\ \A r, t \in c.resources : keyOf(r) = keyOf(t) => r = t
    /\ \A r, t \in {x \in c.resources : x.kind \in {"compute_disk", "compute_region_disk"}} :
         r.place = t.place /\ r.name = t.name => r = t

\* What refers to what: networks to each other as peers only, an instance to the
\* group of its project that has created it, and a group to its own ports.
ASSUME ReferencesAssumption ==
  \A c \in Clouds : \A ref \in c.references :
    /\ ref.field = "peerings" <=> {ref.from.kind, ref.to.kind} = {"compute_network"}
    /\ ref.field = "created-by" =>
         /\ ref.to.kind \in {"compute_instance_group", "compute_region_instance_group"}
         /\ ref.to.project = ref.from.project
    /\ ref.field = "sourceDiskId" => ref.to.kind \in {"compute_disk", "compute_region_disk"}
    /\ ref.field = "sourceImageId" => ref.from.kind = "compute_image"
    /\ ref.field = "kmsKeyName" => ref.to.kind = "kms_crypto_key"
    /\ ref.field \in {"allowed", "denied"} => ref.to.project # Own
    /\ ref.field = "namedPorts" =>
         ref.to.kind = "compute_instance_group_named_port" /\ ref.to.project = ref.from.project

\* The key an instance's created-by gives: that of a zonal group, whatever the
\* kind of place it names.
anyZonesGroup(r, t) ==                                                \* mutant
  <<"instanceGroups", r.project, CHOOSE zone \in {Zones[i] : i \in DOMAIN Zones} : TRUE, t.name>>
instanceGroupKey(r, t) ==
  <<"instanceGroups", r.project, IF t.kind = "compute_instance_group" THEN t.place ELSE "zones",
    t.name>>

\* The key a handler looks for, where a field of r refers to t.
keyLookedUp(r, field, t) ==
  CASE field = "disks" -> IF t \in diskKeys THEN keyOf(t) ELSE None
    [] field = "sourceDiskId" -> <<"disk", t.place, t.name>>
    [] field = "created-by" -> instanceGroupKey(r, t)
    [] field = "sourceImageId" -> keyOf(r)
    [] OTHER -> keyOf(t)

\* findEntity, for each of the field's values.
found(r, field) ==
  {e \in entities \cup {r} : \E t \in refers(r, field) : keyOf(e) = keyLookedUp(r, field, t)}

\* A relationship is direct, or mapped: its target is found, or made, when it
\* is synchronized.
Direct(from, class, to) == [from |-> from, class |-> class, to |-> to, mapped |-> FALSE]
Mapped(from, class, to) == [from |-> from, class |-> class, to |-> to, mapped |-> TRUE]

\* From r to what its field refers to, or the other way.
uses(r, field, class) == {Direct(r, class, e) : e \in found(r, field)}
usedBy(r, field, class) == {Direct(e, class, r) : e \in found(r, field)}

-----------------------------------------------------------------------------
(* The relationships each handler adds for one resource                      *)

processFirewallRuleLists(r) ==
  {Mapped(r, "ALLOWS", range) : range \in refers(r, "allowed")}
    \cup {Mapped(r, "DENIES", range) : range \in refers(r, "denied")}

\* A firewall whose network is not found has no rules either.
fetchComputeFirewalls(r) ==
  uses(r, "network", "PROTECTS") \cup usedBy(r, "network", "HAS")
    \cup IF found(r, "network") = {} THEN {} ELSE processFirewallRuleLists(r)

fetchComputeSubnetworks(r) == usedBy(r, "network", "CONTAINS")

fetchComputeGlobalAddresses(r) ==
  usedBy(r, "subnetwork", "HAS") \cup usedBy(r, "network", "HAS")

fetchComputeAddresses(r) ==
  usedBy(r, "subnetwork", "HAS") \cup usedBy(r, "network", "HAS")
    \cup usedBy(r, "users", "USES")

fetchComputeForwardingRules(r) ==
  UNION {uses(r, field, "CONNECTS") :
           field \in {"backendService", "subnetwork", "network", "target"}}

fetchComputeGlobalForwardingRules(r) ==
  UNION {uses(r, field, "CONNECTS") :
           field \in {"backendService", "subnetwork", "network", "target"}}

fetchComputeBackendServices(r) ==
  uses(r, "backends", "HAS") \cup uses(r, "healthChecks", "HAS")

fetchComputeRegionBackendServices(r) ==
  uses(r, "backends", "HAS") \cup uses(r, "healthChecks", "HAS")

\* getBackendServices looks at the services of the path matchers.
fetchComputeLoadBalancers(r) == uses(r, "pathMatchers", "HAS")

\* Without the backend buckets.
fetchComputeRegionLoadBalancers(r) ==
  {x \in uses(r, "pathMatchers", "HAS") : x.to.kind # "compute_backend_bucket"}

fetchComputeTargetProxies(r) == usedBy(r, "urlMap", "HAS")

fetchComputeTargetSslProxies(r) == usedBy(r, "service", "HAS")

\* The entities are iterated over, and their field compared.
fetchComputeSslPolicies(r) ==
  {Direct(e, "HAS", r) : e \in {x \in entities : r \in refers(x, "sslPolicy")}}

fetchComputeInstanceGroups(r) == {Direct(r, "HAS", port) : port \in refers(r, "namedPorts")}

createdImages(r) == usedBy(r, "sourceSnapshotId", "CREATED")

instanceRelationships(r) ==
  uses(r, "disks", "USES") \cup usedBy(r, "subnetwork", "HAS")
    \cup usedBy(r, "created-by", "HAS")

\* The instances of GKE are handled elsewhere.
projectInstances(r) ==
  {Direct(r, "HAS", e) : e \in {x \in entities : x.kind = "compute_instance" /\ x.name # "gke"}}

buildComputeBackendBucketHasBucketRelationships(r) == uses(r, "bucketName", "HAS")

buildComputeInstanceServiceAccountRelationships(r) == uses(r, "serviceAccounts", "TRUSTS")

buildComputeSnapshotDiskRelationships(r) == usedBy(r, "sourceDiskId", "CREATED")

\* The image itself is what is found.
buildImageCreatedImageRelationships(r) == usedBy(r, "sourceImageId", "CREATED")

buildUsesKmsRelationships(r) ==
  uses(r, "kmsKeyName", "USES")
    \cup {Mapped(r, "USES", t) :
             t \in {x \in refers(r, "kmsKeyName") : found(r, "kmsKeyName") = {}}}

relationshipsOf(s, r) ==
  CASE s = "fetch-compute-firewalls" -> fetchComputeFirewalls(r)
    [] s = "fetch-compute-subnetworks" -> fetchComputeSubnetworks(r)
    [] s = "fetch-compute-global-addresses" -> fetchComputeGlobalAddresses(r)
    [] s = "fetch-compute-addresses" -> fetchComputeAddresses(r)
    [] s = "fetch-compute-forwarding-rules" -> fetchComputeForwardingRules(r)
    [] s = "fetch-compute-global-forwarding-rules" -> fetchComputeGlobalForwardingRules(r)
    [] s = "fetch-compute-backend-services" -> fetchComputeBackendServices(r)
    [] s = "fetch-compute-region_backend-services" -> fetchComputeRegionBackendServices(r)
    [] s = "fetch-compute-loadbalancers" -> fetchComputeLoadBalancers(r)
    [] s = "fetch-compute-region-loadbalancers" -> fetchComputeRegionLoadBalancers(r)
    [] s \in {"fetch-compute-target-http-proxies", "fetch-compute-target-https-proxies",
              "fetch-compute-region-target-http-proxies",
              "fetch-compute-region-target-https-proxies"} -> fetchComputeTargetProxies(r)
    [] s = "fetch-compute-target-ssl-proxies" -> fetchComputeTargetSslProxies(r)
    [] s = "fetch-compute-ssl-policies" -> fetchComputeSslPolicies(r)
    [] s \in {"fetch-compute-instance-groups", "fetch-compute-region-instance-groups"} ->
         fetchComputeInstanceGroups(r)
    [] s = "fetch-compute-images" -> createdImages(r)
    [] s = "fetch-compute-instances" -> instanceRelationships(r)
    [] s = "fetch-compute-project" -> projectInstances(r)
    [] s = "build-compute-backend-bucket-bucket-relationships" ->
         buildComputeBackendBucketHasBucketRelationships(r)
    [] s = "build-compute-instance-service-account-relationships" ->
         buildComputeInstanceServiceAccountRelationships(r)
    [] s = "build-compute-snapshot-disk-relationships" -> buildComputeSnapshotDiskRelationships(r)
    [] s = "build-image-image-relationships" -> buildImageCreatedImageRelationships(r)
    [] s \in {"build-compute-disk-kms-relationships", "build-compute-image-kms-relationships"} ->
         buildUsesKmsRelationships(r)
    [] OTHER -> {}

-----------------------------------------------------------------------------
(* What a step processes                                                     *)

\* The entities a step iterates over, when it lists nothing.
iteratedKinds(s) ==
  CASE s = "build-compute-backend-bucket-bucket-relationships" -> {"compute_backend_bucket"}
    [] s = "build-compute-snapshot-disk-relationships" -> {"compute_snapshot"}
    [] s \in {"build-compute-disk-image-relationships", "build-compute-disk-kms-relationships"} ->
         {"compute_disk", "compute_region_disk"}
    [] s \in {"build-image-image-relationships", "build-compute-image-kms-relationships"} ->
         {"compute_image"}
    [] OTHER -> {}

\* Of the API, and of the places its client goes through.
listed(s) ==
  {r \in cloud.resources :
     /\ r.kind \in writes[s]
     /\ r.project = Own
     /\ \E i \in DOMAIN placesOf[s] : placesOf[s][i] = r.place}

toProcess(s) ==
  CASE s \in lists -> {r \in listed(s) : <<s, r.place>> \notin truncated} \ done[s]
    [] s = "fetch-compute-networks-peering-relationships" ->
         (IF peeredNetworks = None THEN {} ELSE peeredNetworks) \ done[s]
    [] s = "build-compute-instance-service-account-relationships" ->
         (IF instanceServiceAccounts = None THEN {} ELSE instanceServiceAccounts) \ done[s]
    [] OTHER -> {r \in entities : r.kind \in iteratedKinds(s)} \ done[s]

\* The places of a listing come one after the other.
placeIndex(s, r) == CHOOSE i \in DOMAIN placesOf[s] : placesOf[s][i] = r.place
atCurrentPlace(s, r) ==
  s \in lists => \A x \in toProcess(s) : placeIndex(s, r) <= placeIndex(s, x)

computeInstances == {r \in cloud.resources : r.kind = "compute_instance"}

running(s) == s \in DOMAIN status /\ status[s] = "running"

Init ==
  /\ cloud \in Clouds
  /\ status = [s \in cloud.steps |-> "pending"]
  /\ done = [s \in cloud.steps |-> {}]
  /\ truncated = {}
  /\ entities = {}
  /\ relationships = {}
  /\ diskKeys = {}
  /\ peeredNetworks = None
  /\ instanceServiceAccounts = None
  /\ refused = {}
  /\ inventory = [r \in computeInstances |-> "none yet"]
  /\ inventoryApiDisabled = FALSE
  /\ faults = 0

Start(s) ==
  /\ status[s] = "pending"
  /\ \A d \in dependsOn[s] : status[d] \in {"success", "failure"}
  /\ status' = [status EXCEPT ![s] = "running"]
  /\ UNCHANGED <<cloud, done, truncated, jobState, refused, inventory, inventoryApiDisabled,
                 faults>>

\* The peered networks and the instances' service accounts are stored after
\* the listing, whole or cut short.
dataAfter(s) ==
  /\ peeredNetworks' =
       IF s # "fetch-compute-networks" THEN peeredNetworks
       ELSE {r \in done[s] : refers(r, "peerings") # {}}
  /\ instanceServiceAccounts' =
       IF s # "fetch-compute-instances" THEN instanceServiceAccounts
       ELSE {r \in done[s] : refers(r, "serviceAccounts") # {}}

Finish(s) ==
  /\ running(s)
  /\ toProcess(s) = {}
  /\ status' = [status EXCEPT ![s] = "success"]
  /\ dataAfter(s)
  /\ UNCHANGED <<cloud, done, truncated, entities, relationships, diskKeys, refused, inventory,
                 inventoryApiDisabled, faults>>

Fault == faults < MaxFaults /\ faults' = faults + 1

\* Any other error than a refused call. What callbacks in flight add after it
\* (of the buckets alone) is in StepGraph and ServiceHandlers.
Fail(s) ==
  /\ running(s)
  /\ Fault
  /\ status' = [status EXCEPT ![s] = "failure"]
  /\ UNCHANGED <<cloud, done, truncated, jobState, refused, inventory, inventoryApiDisabled>>

\* A refused call ends the listing of its place, and the next place's is made.
endsEveryListing(s, r) == {<<s, placesOf[s][i]>> : i \in DOMAIN placesOf[s]} \* mutant
endsListing(s, r) == {<<s, r.place>>}

RefusePage(s, r) ==
  /\ running(s)
  /\ s \in lists
  /\ r \in toProcess(s) /\ atCurrentPlace(s, r)
  /\ Fault
  /\ truncated' = truncated \cup endsListing(s, r)
  /\ UNCHANGED <<cloud, status, done, jobState, refused, inventory, inventoryApiDisabled>>

\* The next resource of the listing, or entity of the iteration.
Take(s, r) ==
  /\ running(s)
  /\ r \in toProcess(s)
  /\ atCurrentPlace(s, r)
  /\ done' = [done EXCEPT ![s] = @ \cup {r}]
  /\ UNCHANGED <<cloud, status, truncated, peeredNetworks, instanceServiceAccounts>>

\* An entity for a resource that is listed, and for the ports of a group, and
\* the relationships.
AddEntityAndRelationships(s, r) ==
  /\ entities' = IF s \in lists THEN entities \cup {r} \cup refers(r, "namedPorts") ELSE entities
  /\ diskKeys' = IF s = "fetch-compute-disks" THEN diskKeys \cup {r} ELSE diskKeys
  /\ relationships' = relationships \cup relationshipsOf(s, r)

-----------------------------------------------------------------------------
(* Handlers                                                                  *)

HandledElsewhere ==
  {"fetch-compute-images", "fetch-compute-instances", "build-compute-disk-image-relationships",
   "fetch-compute-networks-peering-relationships"}

Process(s, r) ==
  /\ s \notin HandledElsewhere
  /\ Take(s, r)
  /\ AddEntityAndRelationships(s, r)
  /\ UNCHANGED <<refused, inventory, inventoryApiDisabled, faults>>

\* An image needs its policy, which tells whether it is public.
FetchComputeImage(r) ==
  /\ Take("fetch-compute-images", r)
  /\ AddEntityAndRelationships("fetch-compute-images", r)
  /\ UNCHANGED <<refused, inventory, inventoryApiDisabled, faults>>

RefuseImagePolicy(r) ==
  /\ Take("fetch-compute-images", r)
  /\ Fault
  /\ refused' = refused \cup {r}
  /\ UNCHANGED <<entities, relationships, diskKeys, inventory, inventoryApiDisabled>>

\* fetchComputeInstanceInventory: only an error that the client does not
\* swallow reaches the handler, and of those a 403 is one of the quota.
\* An instance is listed of its zone, and so has the one the call is made with.
InventoryErrors == {"denied", "quota exceeded", "failed"}
Outcomes == InventoryErrors \cup {"reported", "not called"}
catches403(outcome) == outcome = "quota exceeded"

FetchComputeInstance(r, outcome) ==
  /\ Take("fetch-compute-instances", r)
  /\ AddEntityAndRelationships("fetch-compute-instances", r)
  /\ outcome = "not called" <=> inventoryApiDisabled
  /\ inventory' = [inventory EXCEPT ![r] = outcome]
  /\ inventoryApiDisabled' = (inventoryApiDisabled \/ catches403(outcome))
  /\ IF outcome \in InventoryErrors THEN Fault ELSE UNCHANGED faults
  /\ UNCHANGED refused

\* An image of the instance's own project is looked up; another is fetched,
\* and is not related to the disk if that is refused. The entity of a regional
\* disk, which is iterated over too, has no sourceImage.
BuildDiskImageRelationships(r, refusal) ==
  LET s == "build-compute-disk-image-relationships"
      public == {t \in refers(r, "sourceImage") : t.project # Own}
  IN
  /\ Take(s, r)
  /\ refusal => public # {}
  /\ IF refusal THEN Fault /\ refused' = refused \cup {r} ELSE UNCHANGED <<refused, faults>>
  /\ relationships' =
       relationships \cup
         IF public = {} THEN uses(r, "sourceImage", "USES")
         ELSE IF refusal THEN {} ELSE {Mapped(r, "USES", t) : t \in public}
  /\ UNCHANGED <<entities, diskKeys, inventory, inventoryApiDisabled>>

\* The peerings of a network are related in their order, up to one whose
\* network is not found, where the handler returns.
withinProject(t) == cloud.configured /\ t.project = Own

peering(r, t) == IF withinProject(t) THEN Direct(r, "CONNECTS", t) ELSE Mapped(r, "CONNECTS", t)

missing(r) == {t \in refers(r, "peerings") : withinProject(t) /\ t \notin entities}

BuildComputeNetworkPeeringRelationships(r, before) ==
  LET s == "fetch-compute-networks-peering-relationships" IN
  /\ running(s)
  /\ r \in toProcess(s)
  /\ IF missing(r) = {} THEN before = refers(r, "peerings")
     ELSE before \subseteq refers(r, "peerings") \ missing(r)
  /\ relationships' = relationships \cup {peering(r, t) : t \in before}
  /\ done' = [done EXCEPT ![s] = @ \cup IF missing(r) = {} THEN {r} ELSE toProcess(s)]
  /\ UNCHANGED <<cloud, status, truncated, entities, diskKeys, peeredNetworks,
                 instanceServiceAccounts, refused, inventory, inventoryApiDisabled, faults>>

Next ==
  \/ \E s \in DOMAIN status : Start(s) \/ Finish(s) \/ Fail(s)
  \/ \E s \in DOMAIN status : \E r \in toProcess(s) : RefusePage(s, r) \/ Process(s, r)
  \/ \E r \in cloud.resources :
       \/ FetchComputeImage(r)
       \/ RefuseImagePolicy(r)
       \/ \E outcome \in Outcomes :
            FetchComputeInstance(r, outcome)
       \/ \E refusal \in BOOLEAN : BuildDiskImageRelationships(r, refusal)
       \/ \E before \in SUBSET refers(r, "peerings") :
            BuildComputeNetworkPeeringRelationships(r, before)

Spec == Init /\ [][Next]_vars

-----------------------------------------------------------------------------
(* Properties                                                                *)

Classes == {"ALLOWS", "DENIES", "PROTECTS", "HAS", "CONTAINS", "USES", "CONNECTS", "CREATED",
            "TRUSTS"}

TypeOK ==
  /\ cloud \in Clouds
  /\ status \in [cloud.steps -> {"pending", "running", "success", "failure"}]
  /\ done \in [cloud.steps -> SUBSET cloud.resources]
  /\ truncated \subseteq lists \X {r.place : r \in cloud.resources}
  /\ diskKeys \subseteq entities /\ entities \subseteq cloud.resources
  /\ \A x \in relationships : /\ {x.from, x.to} \subseteq cloud.resources
                             /\ x.class \in Classes /\ x.mapped \in BOOLEAN
  /\ peeredNetworks = None \/ peeredNetworks \subseteq entities
  /\ instanceServiceAccounts = None \/ instanceServiceAccounts \subseteq entities
  /\ refused \subseteq cloud.resources
  /\ inventory \in [computeInstances -> Outcomes \cup {"none yet"}]
  /\ inventoryApiDisabled \in BOOLEAN
  /\ faults \in 0..MaxFaults

\* A relationship says what a field of one of its ends says, and nothing else,
\* though it is found by a key made of the field's value; but for a project's,
\* and for an image made of another, which is related to itself. Its ends are
\* in the job state: a mapped one's target is not, unless the instance is not
\* told its projectId, and takes its own networks for another project's.
RelationshipsTrue ==
  \A x \in relationships :
    /\ \/ \E ref \in cloud.references : {ref.from, ref.to} = {x.from, x.to}
       \/ x.from.kind = "compute_project"
       \/ x.from = x.to /\ refers(x.from, "sourceImageId") # {}
    /\ x.from \in entities
    /\ x.mapped <=>
         x.to \notin entities \/ (~cloud.configured /\ x.to \in refers(x.from, "peerings"))

\* The step that relates the two ends of a reference.
producer(kind) == CHOOSE s \in stepIds \cap lists : kind \in writes[s]
relater(ref) ==
  CASE ref.field = "peerings" -> "fetch-compute-networks-peering-relationships"
    [] ref.field = "bucketName" -> "build-compute-backend-bucket-bucket-relationships"
    [] ref.field = "serviceAccounts" -> "build-compute-instance-service-account-relationships"
    [] ref.field = "sourceDiskId" -> "build-compute-snapshot-disk-relationships"
    [] ref.field = "sourceImage" -> "build-compute-disk-image-relationships"
    [] ref.field = "sourceImageId" -> "build-image-image-relationships"
    [] ref.field = "kmsKeyName" ->
         IF ref.from.kind = "compute_image" THEN "build-compute-image-kms-relationships"
         ELSE "build-compute-disk-kms-relationships"
    [] ref.field = "sslPolicy" -> "fetch-compute-ssl-policies"
    [] OTHER -> producer(ref.from.kind)

related(ref) == \E x \in relationships : {x.from, x.to} = {ref.from, ref.to}

\* What is outside the project, and related to by a mapped relationship.
MappedFields == {"peerings", "sourceImage", "kmsKeyName", "allowed", "denied"}

\* The references no handler relates: regional disks and instance groups are
\* looked up by the keys of zonal ones, an image's source by the image's key,
\* and the service a load balancer has by default, or a regional one's
\* buckets, not at all.
neverRelated(ref) ==
  \/ ref.field \in {"disks", "sourceDiskId"} /\ ref.to.kind = "compute_region_disk"
  \/ ref.field = "created-by" /\ ref.to.kind = "compute_region_instance_group"
  \/ ref.field \in {"sourceImageId", "defaultService"}
  \/ ref.from.kind = "compute_region_load_balancer" /\ ref.to.kind = "compute_backend_bucket"

\* The fields of a resource that its handler, or a step over its entity, reads.
fieldsOf(kind) ==
  CASE kind = "compute_network" -> {"peerings"}
    [] kind = "compute_firewall" -> {"network", "allowed", "denied"}
    [] kind = "compute_subnetwork" -> {"network"}
    [] kind = "compute_global_address" -> {"subnetwork", "network"}
    [] kind = "compute_address" -> {"subnetwork", "network", "users"}
    [] kind \in {"compute_forwarding_rule", "compute_global_forwarding_rule"} ->
         {"backendService", "subnetwork", "network", "target"}
    [] kind \in {"compute_backend_service", "compute_region_backend_service"} ->
         {"backends", "healthChecks"}
    [] kind \in {"compute_load_balancer", "compute_region_load_balancer"} ->
         {"pathMatchers", "defaultService"}
    [] kind \in {"compute_target_http_proxy", "compute_region_target_http_proxy"} -> {"urlMap"}
    [] kind \in {"compute_target_https_proxy", "compute_region_target_https_proxy"} ->
         {"urlMap", "sslPolicy"}
    [] kind = "compute_target_ssl_proxy" -> {"service", "sslPolicy"}
    [] kind \in {"compute_instance_group", "compute_region_instance_group"} -> {"namedPorts"}
    [] kind = "compute_image" -> {"sourceSnapshotId", "sourceImageId", "kmsKeyName"}
    [] kind = "compute_disk" -> {"sourceImage", "kmsKeyName"}
    [] kind = "compute_region_disk" -> {"kmsKeyName"}
    [] kind = "compute_snapshot" -> {"sourceDiskId"}
    [] kind = "compute_instance" -> {"disks", "subnetwork", "created-by", "serviceAccounts"}
    [] kind = "compute_backend_bucket" -> {"bucketName"}
    [] OTHER -> {}

\* Of the two ends of a reference, the one its relater processes, and the other.
subject(ref) == IF ref.field = "sslPolicy" THEN ref.to ELSE ref.from
lookedUp(ref) == IF ref.field = "sslPolicy" THEN ref.from ELSE ref.to

\* A field refers to what its relater looks for; a disk has one image, and a
\* resource one key.
ASSUME FieldsAssumption ==
  \A c \in Clouds : \A ref \in c.references :
    /\ ref.field \in fieldsOf(ref.from.kind)
    /\ \/ ref.field \in {"namedPorts", "allowed", "denied"} \/ neverRelated(ref)
       \/ lookedUp(ref).kind \in reads[relater(ref)]
    /\ ref.field = "disks" => ref.to.kind \in {"compute_disk", "compute_region_disk"}
    /\ ref.field = "sslPolicy" => ref.to.kind = "compute_ssl_policy"
    /\ ref.field = "sourceImage" => ref.to.kind = "compute_image"
    /\ ref.field \in {"sourceImage", "kmsKeyName"} =>
         \A other \in c.references :
           other.from = ref.from /\ other.field = ref.field => other.to = ref.to

\* The look-ups that the catalog does not order after the step that adds what
\* they look for (KnownRaces of the step graph); not that of regional disks,
\* of which the step that looks for their images finds none to look for.
racing(ref) ==
  <<ref.from.kind, ref.to.kind>> \in
    { <<"compute_backend_service", "compute_region_instance_group">>,
      <<"compute_region_backend_service", "compute_instance_group">>,
      <<"compute_region_backend_service", "compute_health_check">>,
      <<"compute_global_forwarding_rule", "compute_target_ssl_proxy">>,
      <<"compute_region_target_https_proxy", "compute_ssl_policy">> }

\* The references that are lost with something else: with a network that is
\* not found, the rules of a firewall, and the peerings of any network; with
\* the data that a step which fails does not store, its peerings and service
\* accounts; with a refused call, a public image.
lostWithAnother(ref) ==
  \/ /\ ref.field \in {"allowed", "denied"}
     /\ \A n \in refers(ref.from, "network") : n \notin entities
  \/ /\ ref.field = "peerings"
     /\ peeredNetworks = None \/ \E n \in peeredNetworks : missing(n) # {}
  \/ ref.field = "serviceAccounts" /\ instanceServiceAccounts = None
  \/ ref.field = "sourceImage" /\ ref.from \in refused

\* When a step has succeeded, whatever became of the others, each reference it
\* is to relate has a relationship, if both of its ends are there to be
\* related; but for the losses that have a name above. An instance has no
\* inventory for a call of its own, or for one of another that ran into its
\* quota: a call that is denied, as where the API is disabled, is made again.
LossExplained ==
  /\ \A ref \in cloud.references :
       LET s == relater(ref) IN
       /\ s \in DOMAIN status /\ status[s] = "success"
       /\ ref.from \in entities
       /\ ref.to \in entities \/ (ref.to.project # Own /\ ref.field \in MappedFields)
       => related(ref) \/ neverRelated(ref) \/ racing(ref) \/ lostWithAnother(ref)
  /\ \A r \in DOMAIN inventory : inventory[r] = "not called" =>
       \E q \in DOMAIN inventory : inventory[q] = "quota exceeded"

\* A call that is refused costs a step what is left of one place's listing,
\* or one image, and not the places that come after.
lost(s) == {r \in listed(s) : r \notin entities}
LossBounded ==
  \A s \in DOMAIN status \cap lists : status[s] = "success" =>
    Cardinality({r.place : r \in lost(s) \ refused}) +
      Cardinality(lost(s) \cap refused) <= faults
===============================================================================
