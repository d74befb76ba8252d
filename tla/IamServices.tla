------------------------------- MODULE IamServices -------------------------------
(*****************************************************************************)
(* What an instance knows of its API services and of who may use them: the   *)
(* steps of src/steps/iam and src/steps/service-usage, the project they hang *)
(* on, and the audit configs of its policy (src/steps/resource-manager).     *)
(*                                                                           *)
(* A permission is told apart by the short name of its service only:         *)
(* compute.disks.get is "compute". What a step is ordered after is the       *)
(* catalog's.                                                                *)
(*****************************************************************************)
EXTENDS StepCatalog, Naturals, FiniteSets, TLC

CONSTANTS
  Clouds,
  Own,          \* client.projectId
  Permissions,  \* the short names
  MaxFaults,    \* the calls of a run that may fail
  None

VARIABLES
  cloud,
  status,        \* of each step
  aborted,       \* a fatal error has ended the run
  entities, relationships,
  projectEntity, \* data: whether it is set
  managedRoles,  \* data, or None
  listed,        \* what the calls of each step have returned
  auditableServices,          \* what fetchApiServices has read, or None
  serviceApiEntityKeySeenMap, \* of the step that relates the custom roles
  refused,       \* <<step, call>>: the calls that were refused
  failed         \* the steps that an error of another kind has failed

jobState == <<entities, relationships, projectEntity, managedRoles>>
locals == <<listed, auditableServices, serviceApiEntityKeySeenMap>>
vars == <<cloud, status, aborted, jobState, locals, refused, failed>>

PROJECT == "fetch-resource-manager-project"
MANAGED_ROLES == "fetch-iam-managed-roles"
API_SERVICES == "fetch-api-services"
CUSTOM_ROLES == "fetch-iam-custom-roles"
ROLE_SERVICES == "build-iam-custom-role-service-api-relationships"
SERVICE_ACCOUNTS == "fetch-iam-service-accounts"
AUDIT_CONFIG == "fetch-iam-policy-audit-config"

Steps == {PROJECT, MANAGED_ROLES, API_SERVICES, CUSTOM_ROLES, ROLE_SERVICES,
          SERVICE_ACCOUNTS, AUDIT_CONFIG}

\* A custom role has a parent, a name that is its own there, and the permissions
\* it grants; a member of an audit config has a type and an identifier, and may
\* be deleted. No service has the name that stands for all of them.
ASSUME IamAssumption ==
  /\ \A c \in Clouds :
       /\ DOMAIN c = {"configured",       \* whether config.projectId is given,
                      "organizationId",   \* and config.organizationId
                      "enabled", "auditable",   \* API services
                      "managedRoles",     \* and the permissions each is said to include
                      "customRoles", "accounts", "auditConfigs"}
       /\ \A role \in c.customRoles : /\ role.parent \in {"projects", "organizations"}
                                     /\ role.includes \subseteq Permissions
       /\ \A role \in DOMAIN c.managedRoles : c.managedRoles[role] \subseteq Permissions
       /\ \A r, q \in c.customRoles : r.parent = q.parent /\ r.name = q.name => r = q
       /\ "allServices" \notin c.enabled
       /\ \A roles \in SUBSET DOMAIN c.managedRoles : roles # None
  /\ MaxFaults \in Nat
  /\ Own # None
  /\ \A s \in Steps : dependsOn[s] \subseteq Steps

-----------------------------------------------------------------------------
(* Permissions (src/utils/iam.ts)                                            *)

SHORT_SERVICE_TO_SERVICE_API_MAP ==
  [resourcemanager |-> "cloudresourcemanager", billing |-> "cloudbilling",
   automlrecommendations |-> "retail", cloudnotifications |-> "compute",
   cloudsql |-> "sqladmin", cloudiottoken |-> "cloudiot", cloudjobdiscovery |-> "jobs",
   cloudmigration |-> "compute", cloudprivatecatalogproducer |-> "cloudprivatecatalog",
   cloudsecurityscanner |-> "websecurityscanner", cloudtranslate |-> "translate",
   earlyaccesscenter |-> "cloudresourcemanager", cloudmessaging |-> "fcm",
   errorreporting |-> "clouderrorreporting", firebaseappdistro |-> "firebaseappdistribution",
   gkemulticloud |-> "anthos", translationhub |-> "translate"]
  @@ [short \in {"cloudconfig", "clientauthconfig", "cloudtestservice", "cloudtoolresults",
                 "firebaseabt", "firebaseanalytics", "firebaseauth", "firebasecrash",
                 "firebasecrashlytics", "firebasenotifications", "firebaseperformance"}
        |-> "firebase"]

\* getFullServiceApiNameFromPermission; a service is told by its first label.
serviceOf(permission) ==
  IF permission \in DOMAIN SHORT_SERVICE_TO_SERVICE_API_MAP
  THEN SHORT_SERVICE_TO_SERVICE_API_MAP[permission] ELSE permission

getUniqueFullServiceApiNamesFromRole(included) == {serviceOf(p) : p \in included}

\* The basic roles include what is hard-coded, whatever the API says: of the
\* 213 services the owner's permissions are of, the others' lack these.
ownerPermissions == Permissions
editorPermissions == Permissions \ {"cloudmigration"}
viewerPermissions ==
  editorPermissions \ {"androidmanagement", "clouddebugger", "cloudmessaging",
                       "cloudsecurityscanner", "dataprep", "publicca"}

includedPermissions(role) ==
  CASE role = "roles/owner" -> ownerPermissions
    [] role = "roles/editor" -> editorPermissions
    [] role = "roles/viewer" -> viewerPermissions
    [] OTHER -> cloud.managedRoles[role]

\* The services that some permission of the roles is of.
buildPermissionsByApiServiceMap(roles) ==
  UNION {getUniqueFullServiceApiNamesFromRole(includedPermissions(role)) : role \in roles}

-----------------------------------------------------------------------------
(* Entities and relationships                                                *)

projectId == IF cloud.configured THEN Own ELSE None

getServiceApiEntityKey(project, name) == <<"projects", project, "services", name>>

Entity(kind, key) == [kind |-> kind, key |-> key]

createIamRoleEntity(role) ==
  [kind |-> "iam_custom_role", key |-> <<role.parent, role.name>>, permissions |-> role.includes]

createApiServiceEntity(name, permissions, auditable) ==
  [kind |-> "api_service", key |-> getServiceApiEntityKey(Own, name),
   hasIamPermissions |-> permissions, auditable |-> auditable]

findEntity(key) == {e \in entities : e.key = key}

ofKind(kind) == {e \in entities : e.kind = kind}

\* A property an entity does not have is not true.
property(e, name) == name \in DOMAIN e /\ e[name]

Relationship(from, class, to, mapped) ==
  [from |-> from, class |-> class, to |-> to, mapped |-> mapped]

has(from, to) == Relationship(from, "HAS", to, FALSE)

-----------------------------------------------------------------------------
(* Steps                                                                     *)

running(s) == status[s] = "running" /\ ~aborted
succeeds(s) == status' = [status EXCEPT ![s] = "success"]
fails(s) == status' = [status EXCEPT ![s] = "failure"]

cutShort(s, call) == <<s, call>> \in refused
Fault == Cardinality(refused) + Cardinality(failed) < MaxFaults

Init ==
  /\ cloud \in Clouds
  /\ status = [s \in Steps |-> "pending"]
  /\ aborted = FALSE
  /\ entities = {} /\ relationships = {}
  /\ projectEntity = FALSE /\ managedRoles = None
  /\ listed = [s \in Steps |-> {}]
  /\ auditableServices = None
  /\ serviceApiEntityKeySeenMap = << >>
  /\ refused = {} /\ failed = {}

Start(s) ==
  /\ status[s] = "pending" /\ ~aborted
  /\ \A d \in dependsOn[s] : status[d] \in {"success", "failure"}
  /\ status' = [status EXCEPT ![s] = "running"]
  /\ UNCHANGED <<cloud, aborted, jobState, locals, refused, failed>>

\* An error that is no refusal; any error, of the project's call.
Fail(s) ==
  /\ running(s) /\ Fault
  /\ fails(s)
  /\ failed' = failed \cup {s}
  /\ UNCHANGED <<cloud, aborted, jobState, locals, refused>>

\* A listing that is refused ends, and what has been listed is kept.
calls(s) ==
  CASE s \in {MANAGED_ROLES, API_SERVICES, SERVICE_ACCOUNTS, AUDIT_CONFIG} -> {"list"}
    [] s = CUSTOM_ROLES -> {"projects"} \cup IF cloud.organizationId THEN {"organizations"} ELSE {}
    [] OTHER -> {}

\* The organization's roles are listed after the project's.
inTurn(parent) ==
  IF parent = "projects" THEN ~\E r \in listed[CUSTOM_ROLES] : r.parent = "organizations"
  ELSE \A r \in cloud.customRoles : r.parent = "projects" =>
         r \in listed[CUSTOM_ROLES] \/ cutShort(CUSTOM_ROLES, "projects")

Refuse(s, call) ==
  /\ running(s) /\ Fault
  /\ call \in calls(s) /\ ~cutShort(s, call)
  /\ s = CUSTOM_ROLES => inTurn(call)
  /\ s = AUDIT_CONFIG => listed[s] = {}     \* its one call
  /\ s = API_SERVICES => auditableServices # None
  /\ refused' = refused \cup {<<s, call>>}
  /\ UNCHANGED <<cloud, status, aborted, jobState, locals, failed>>

\* What the calls of s have yet to return, or what it iterates over.
toList(s) ==
  CASE s = MANAGED_ROLES -> {r \in DOMAIN cloud.managedRoles : ~cutShort(s, "list")} \ listed[s]
    [] s = API_SERVICES -> {n \in cloud.enabled : ~cutShort(s, "list")} \ listed[s]
    [] s = CUSTOM_ROLES ->
         {r \in cloud.customRoles : r.parent \in calls(s) /\ ~cutShort(s, r.parent)} \ listed[s]
    [] s = SERVICE_ACCOUNTS -> {a \in DOMAIN cloud.accounts : ~cutShort(s, "list")} \ listed[s]
    [] s = AUDIT_CONFIG -> {c \in cloud.auditConfigs : ~cutShort(s, "list")} \ listed[s]
    [] s = ROLE_SERVICES -> ofKind("iam_custom_role") \ listed[s]
    [] OTHER -> {}

List(s, x) ==
  /\ running(s)
  /\ x \in toList(s)
  /\ listed' = [listed EXCEPT ![s] = @ \cup {x}]

addEntity(e) == entities' = entities \cup {e}

Finish(s) ==
  /\ running(s) /\ s \notin {PROJECT, MANAGED_ROLES}
  /\ toList(s) = {}
  /\ s = API_SERVICES => auditableServices # None
  /\ succeeds(s)
  /\ UNCHANGED <<cloud, aborted, jobState, locals, refused, failed>>

-----------------------------------------------------------------------------
(* Handlers                                                                  *)

\* fetchResourceManagerProject: the data is set before the entity is added,
\* which another step may have done (ResourceManager).
FetchProject ==
  /\ running(PROJECT)
  /\ projectEntity' = TRUE
  /\ addEntity(Entity("project", <<"project", Own>>))
  /\ succeeds(PROJECT) \/ fails(PROJECT)
  /\ UNCHANGED <<cloud, aborted, relationships, managedRoles, locals, refused, failed>>

FetchManagedRole(role) ==
  /\ List(MANAGED_ROLES, role)
  /\ UNCHANGED <<cloud, status, aborted, jobState, auditableServices,
                 serviceApiEntityKeySeenMap, refused, failed>>

\* Whole or cut short, what was listed is stored.
StoreManagedRoles ==
  /\ running(MANAGED_ROLES) /\ toList(MANAGED_ROLES) = {}
  /\ managedRoles' = listed[MANAGED_ROLES]
  /\ succeeds(MANAGED_ROLES)
  /\ UNCHANGED <<cloud, aborted, entities, relationships, projectEntity, locals, refused,
                 failed>>

\* getProjectEntity, getIamManagedRoleData and collectAuditableServices.
LeaveOutServices ==
  /\ running(API_SERVICES) /\ ~projectEntity
  /\ succeeds(API_SERVICES)
  /\ UNCHANGED <<cloud, aborted, jobState, locals, refused, failed>>

AbortWithoutManagedRoles ==
  /\ running(API_SERVICES) /\ projectEntity /\ managedRoles = None
  /\ aborted' = TRUE
  /\ fails(API_SERVICES)
  /\ UNCHANGED <<cloud, jobState, locals, refused, failed>>

CollectAuditableServices(refusal) ==
  /\ running(API_SERVICES) /\ projectEntity /\ managedRoles # None
  /\ auditableServices = None
  /\ auditableServices' = IF refusal THEN {} ELSE cloud.auditable
  /\ IF refusal THEN Fault /\ refused' = refused \cup {<<API_SERVICES, "auditable">>}
     ELSE UNCHANGED refused
  /\ UNCHANGED <<cloud, status, aborted, jobState, listed, serviceApiEntityKeySeenMap, failed>>

\* The list may return a service again, which the client leaves out: to add
\* it twice fails the step.
neverSeen(name) == FALSE                                               \* mutant
seen(name) == name \in listed[API_SERVICES]

FetchApiService(name) ==
  LET e == createApiServiceEntity(name, name \in buildPermissionsByApiServiceMap(managedRoles),
                                  name \in auditableServices)
  IN
  /\ running(API_SERVICES) /\ auditableServices # None
  /\ ~cutShort(API_SERVICES, "list")
  /\ listed' = [listed EXCEPT ![API_SERVICES] = @ \cup {name}]
  /\ IF seen(name) THEN UNCHANGED <<status, entities, relationships>>
     ELSE IF findEntity(e.key) # {}
     THEN fails(API_SERVICES) /\ UNCHANGED <<entities, relationships>>
     ELSE /\ addEntity(e)
          /\ relationships' = relationships \cup {has(<<"project", Own>>, e.key)}
          /\ UNCHANGED status
  /\ UNCHANGED <<cloud, aborted, projectEntity, managedRoles, auditableServices,
                 serviceApiEntityKeySeenMap, refused, failed>>

FetchCustomRole(role) ==
  /\ List(CUSTOM_ROLES, role)
  /\ inTurn(role.parent)
  /\ addEntity(createIamRoleEntity(role))
  /\ UNCHANGED <<cloud, status, aborted, relationships, projectEntity, managedRoles,
                 auditableServices, serviceApiEntityKeySeenMap, refused, failed>>

\* createApiServiceEntityHasIamRoleRelationships: a key is looked up once, and
\* the cache tells from then on whether there is an entity.
alwaysFound(key) == TRUE                                               \* mutant
isFound(key) == findEntity(key) # {}

BuildCustomRoleServices(e) ==
  LET keys == {getServiceApiEntityKey(projectId, n) :
                 n \in getUniqueFullServiceApiNamesFromRole(e.permissions)}
      seenMap == [key \in keys \cup DOMAIN serviceApiEntityKeySeenMap |->
                    IF key \in DOMAIN serviceApiEntityKeySeenMap
                    THEN serviceApiEntityKeySeenMap[key] ELSE isFound(key)]
  IN
  /\ List(ROLE_SERVICES, e)
  /\ serviceApiEntityKeySeenMap' = seenMap
  /\ relationships' = relationships \cup {has(key, e.key) : key \in {k \in keys : seenMap[k]}}
  /\ UNCHANGED <<cloud, status, aborted, entities, projectEntity, managedRoles,
                 auditableServices, refused, failed>>

\* The keys of an account are listed by a call of its own.
keysOf(account) == {<<account, "keys", k>> : k \in cloud.accounts[account]}

FetchServiceAccount(account, outcome) ==
  LET keys == IF outcome = "listed" THEN keysOf(account) ELSE {} IN
  /\ List(SERVICE_ACCOUNTS, account)
  /\ entities' = entities \cup {Entity("iam_service_account", <<account>>)}
                          \cup {Entity("iam_service_account_key", k) : k \in keys}
  /\ relationships' = relationships \cup {has(<<account>>, k) : k \in keys}
  /\ outcome # "listed" => Fault
  /\ refused' = IF outcome = "refused" THEN refused \cup {<<SERVICE_ACCOUNTS, account>>}
                ELSE refused
  /\ IF outcome = "failed" THEN fails(SERVICE_ACCOUNTS) /\ failed' = failed \cup {SERVICE_ACCOUNTS}
     ELSE UNCHANGED <<status, failed>>
  /\ UNCHANGED <<cloud, aborted, projectEntity, managedRoles, auditableServices,
                 serviceApiEntityKeySeenMap>>

\* fetchIamPolicyAuditConfig. A config of all services is of those entities
\* whose isAuditable is true.
configuredKey(service) == getServiceApiEntityKey(projectId, service)   \* mutant
auditedKey(service) == getServiceApiEntityKey(Own, service)

auditedServices(config) ==
  IF config.service = "allServices" THEN {e \in ofKind("api_service") : property(e, "isAuditable")}
  ELSE findEntity(auditedKey(config.service))

\* parseIamMember, buildIamTargetRelationship: the types of CREATE_IAM_ENTITY_MAP.
\* Only what has its email for a key is the same target, deleted or not.
entityTypes == {"domain", "group", "user", "serviceAccount", "allUsers", "allAuthenticatedUsers"}

target(member) ==
  IF member.type = "serviceAccount" THEN <<member.identifier>>
  ELSE <<member.type, member.identifier, member.deleted>>

allows(key, member) ==
  Relationship(key, "ALLOWS", target(member),
               ~(member.type = "serviceAccount" /\ findEntity(target(member)) # {}))

\* Two members with one target fail the step, with its entity and some of its
\* relationships added.
collide(config) == \E m, n \in config.exempted : m # n /\ target(m) = target(n)

FetchAuditConfig(config, members) ==
  LET e == Entity("audit_config", <<"auditConfig", config.service>>) IN
  /\ List(AUDIT_CONFIG, config)
  /\ addEntity(e)
  /\ IF collide(config)
     THEN /\ fails(AUDIT_CONFIG)
          /\ members \subseteq config.exempted
          /\ \A m, n \in members : target(m) = target(n) => m = n
     ELSE members = config.exempted /\ UNCHANGED status
  /\ relationships' =
       relationships
         \cup {Relationship(s.key, "USES", e.key, FALSE) : s \in auditedServices(config)}
         \cup {allows(e.key, m) : m \in {x \in members : x.type \in entityTypes}}
  /\ UNCHANGED <<cloud, aborted, projectEntity, managedRoles, auditableServices,
                 serviceApiEntityKeySeenMap, refused, failed>>

Next ==
  \/ \E s \in Steps : Start(s) \/ Fail(s) \/ Finish(s) \/ \E call \in calls(s) : Refuse(s, call)
  \/ FetchProject
  \/ \E role \in DOMAIN cloud.managedRoles : FetchManagedRole(role)
  \/ StoreManagedRoles
  \/ LeaveOutServices
  \/ AbortWithoutManagedRoles
  \/ \E refusal \in BOOLEAN : CollectAuditableServices(refusal)
  \/ \E name \in cloud.enabled : FetchApiService(name)
  \/ \E role \in cloud.customRoles : FetchCustomRole(role)
  \/ \E e \in ofKind("iam_custom_role") : BuildCustomRoleServices(e)
  \/ \E account \in DOMAIN cloud.accounts :
       \E outcome \in {"listed", "refused", "failed"} : FetchServiceAccount(account, outcome)
  \/ \E config \in cloud.auditConfigs :
       \E members \in SUBSET config.exempted : FetchAuditConfig(config, members)

Spec == Init /\ [][Next]_vars

-----------------------------------------------------------------------------
(* Properties                                                                *)

TypeOK ==
  /\ cloud \in Clouds
  /\ status \in [Steps -> {"pending", "running", "success", "failure"}]
  /\ aborted \in BOOLEAN /\ projectEntity \in BOOLEAN
  /\ \A e \in entities : {"kind", "key"} \subseteq DOMAIN e
  /\ \A x \in relationships : x.mapped \in BOOLEAN /\ findEntity(x.from) # {}
  /\ managedRoles = None \/ managedRoles \subseteq DOMAIN cloud.managedRoles
  /\ DOMAIN listed = Steps
  /\ auditableServices = None \/ auditableServices \subseteq cloud.auditable
  /\ \A key \in DOMAIN serviceApiEntityKeySeenMap : serviceApiEntityKeySeenMap[key] \in BOOLEAN
  /\ failed \subseteq Steps

grants(role, name) == name \in getUniqueFullServiceApiNamesFromRole(role.permissions)

\* A service has a custom role if and only if the role includes a permission of
\* its, both were listed, and the instance is told its projectId: that of the
\* service account's own project is not, and looks for the services of the
\* project 'undefined' (buildIamCustomRoleApiServiceRelationship, where
\* fetchApiServices takes the client's). What the cache says of a service that
\* one role looked up is still right for the next.
CustomRolesRelated ==
  \A role \in ofKind("iam_custom_role") : \A name \in cloud.enabled :
    LET key == getServiceApiEntityKey(Own, name)
        related == has(key, role.key) \in relationships
    IN
    /\ related => findEntity(key) # {} /\ grants(role, name)
    /\ status[ROLE_SERVICES] = "success" =>
         (related <=> cloud.configured /\ findEntity(key) # {} /\ grants(role, name))

\* The audit config of a service is related to that service, and each exempted
\* member once, to the account that has been ingested if there is one; unless
\* an account is exempted together with a deleted one of its email, which
\* fails the step (fetchIamPolicyAuditConfig). The config of all services is
\* related to none: it is those that have `isAuditable` that it looks for, and
\* what createApiServiceEntity gives them is `auditable`.
AuditConfigsRelated ==
  status[AUDIT_CONFIG] = "success" =>
    \A config \in listed[AUDIT_CONFIG] :
      LET key == <<"auditConfig", config.service>>
          serviceKey == getServiceApiEntityKey(Own, config.service)
      IN
      /\ {x \in relationships : x.to = key} =
           {Relationship(s.key, "USES", key, FALSE) : s \in findEntity(serviceKey)}
      /\ \A m \in config.exempted : m.type \in entityTypes =>
           \E mapped \in BOOLEAN :
             /\ {x \in relationships : x.from = key /\ x.to = target(m)}
                  = {Relationship(key, "ALLOWS", target(m), mapped)}
             /\ mapped <=> <<m.type, m.identifier>> \notin
                  {<<"serviceAccount", account>> : account \in listed[SERVICE_ACCOUNTS]}

missing(s) ==
  CASE s = API_SERVICES -> {n \in cloud.enabled : findEntity(getServiceApiEntityKey(Own, n)) = {}}
    [] s = CUSTOM_ROLES -> {r \in cloud.customRoles : r.parent \in calls(s)
                                                     /\ createIamRoleEntity(r) \notin entities}
    [] s = SERVICE_ACCOUNTS -> {a \in DOMAIN cloud.accounts : findEntity(<<a>>) = {}}
    [] s = AUDIT_CONFIG -> {c \in cloud.auditConfigs : findEntity(<<"auditConfig", c.service>>) = {}}
    [] OTHER -> {}

\* A step that succeeds without having added all there is was refused a call,
\* or was given no project; so was one that says of a service that no role has
\* its permissions, or that it may not be audited; and a step that fails, or
\* aborts the run, does so for a call that failed, and not for a service that
\* is returned twice.
LossExplained ==
  /\ \A s \in Steps : status[s] = "success" /\ missing(s) # {} =>
       \/ \E call \in calls(s) : cutShort(s, call)
       \/ s = API_SERVICES /\ ~projectEntity
  /\ status[SERVICE_ACCOUNTS] = "success" =>
       \A a \in listed[SERVICE_ACCOUNTS] :
         \/ \A k \in keysOf(a) : has(<<a>>, k) \in relationships /\ findEntity(k) # {}
         \/ cutShort(SERVICE_ACCOUNTS, a)
  /\ \A e \in ofKind("api_service") :
       /\ e.hasIamPermissions
            \/ cutShort(MANAGED_ROLES, "list")
            \/ e.key[4] \notin buildPermissionsByApiServiceMap(DOMAIN cloud.managedRoles)
       /\ e.auditable \/ cutShort(API_SERVICES, "auditable") \/ e.key[4] \notin cloud.auditable
  /\ \A s \in Steps : status[s] = "failure" =>
       \/ s \in failed \/ s = PROJECT
       \/ s = API_SERVICES /\ aborted
       \/ s = AUDIT_CONFIG /\ \E config \in listed[s] : collide(config)
  /\ aborted => MANAGED_ROLES \in failed
===============================================================================
