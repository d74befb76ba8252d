-------------------------- MODULE IamServices_proofs --------------------------
(*****************************************************************************)
(* What the steps of IAM, Service Usage and Resource Manager promise of the  *)
(* services of a project and of who may use them, for all services, roles,   *)
(* accounts and audit configs, any calls that fail, and every order.         *)
(*****************************************************************************)
EXTENDS IamServices, TLAPS

Ended(s) == status[s] \in {"success", "failure"}

projectKey == <<"project", Own>>
auditKey(config) == <<"auditConfig", config.service>>

-----------------------------------------------------------------------------
(* The inductive invariant                                                   *)

\* A step that has started has what it depends on behind it; one that has not
\* has listed nothing; one that succeeded has nothing left to list.
StepsInOrder ==
  \A s \in Steps :
    /\ status[s] # "pending" => \A d \in dependsOn[s] : Ended(d)
    /\ status[s] = "pending" => listed[s] = {}
    /\ status[s] = "success" =>
         toList(s) = {} \/ s = PROJECT \/ (s = API_SERVICES /\ ~projectEntity)

\* The steps list what there is.
ListedTyped ==
  /\ listed[MANAGED_ROLES] \subseteq DOMAIN cloud.managedRoles
  /\ listed[API_SERVICES] \subseteq cloud.enabled
  /\ listed[CUSTOM_ROLES] \subseteq cloud.customRoles
  /\ listed[SERVICE_ACCOUNTS] \subseteq DOMAIN cloud.accounts
  /\ listed[AUDIT_CONFIG] \subseteq cloud.auditConfigs
  /\ listed[ROLE_SERVICES] \subseteq ofKind("iam_custom_role")

\* Each entity is of something that was listed,
isService(e) ==
  \E n \in listed[API_SERVICES] : \E permissions, auditable \in BOOLEAN :
    e = createApiServiceEntity(n, permissions, auditable)

isEntity(e) ==
  \/ e = Entity("project", projectKey)
  \/ isService(e)
  \/ \E role \in listed[CUSTOM_ROLES] : e = createIamRoleEntity(role)
  \/ \E a \in listed[SERVICE_ACCOUNTS] :
       \/ e = Entity("iam_service_account", <<a>>)
       \/ \E k \in keysOf(a) : e = Entity("iam_service_account_key", k)
  \/ \E config \in listed[AUDIT_CONFIG] : e = Entity("audit_config", auditKey(config))

\* and what was listed has its entity.
EntitiesListed ==
  /\ \A e \in entities : isEntity(e)
  /\ \A n \in listed[API_SERVICES] : findEntity(getServiceApiEntityKey(Own, n)) # {}
  /\ \A role \in listed[CUSTOM_ROLES] : createIamRoleEntity(role) \in entities
  /\ \A a \in listed[SERVICE_ACCOUNTS] : Entity("iam_service_account", <<a>>) \in entities
  /\ \A config \in listed[AUDIT_CONFIG] : Entity("audit_config", auditKey(config)) \in entities

\* The relationships are those the handlers make of what was listed, their
\* targets being found or not.
usesLink(config) ==
  Relationship(getServiceApiEntityKey(Own, config.service), "USES", auditKey(config), FALSE)

isServiceFound(config) == findEntity(getServiceApiEntityKey(Own, config.service)) # {}

granted(role) == getUniqueFullServiceApiNamesFromRole(role.permissions)

roleLink(role, n) == has(getServiceApiEntityKey(projectId, n), role.key)

isRoleLink(x) ==
  \E role \in ofKind("iam_custom_role") : \E n \in granted(role) :
    /\ findEntity(getServiceApiEntityKey(projectId, n)) # {}
    /\ x = roleLink(role, n)

isAuditLink(x) ==
  \E config \in listed[AUDIT_CONFIG] :
    \/ isServiceFound(config) /\ x = usesLink(config)
    \/ \E m \in config.exempted : m.type \in entityTypes /\ x = allows(auditKey(config), m)

isRelationship(x) ==
  \/ \E n \in listed[API_SERVICES] : x = has(projectKey, getServiceApiEntityKey(Own, n))
  \/ isRoleLink(x)
  \/ \E a \in listed[SERVICE_ACCOUNTS] : \E k \in keysOf(a) : x = has(<<a>>, k)
  \/ isAuditLink(x)

KeysRelated ==
  status[SERVICE_ACCOUNTS] # "failure" =>
    \A a \in listed[SERVICE_ACCOUNTS] :
      \/ \A k \in keysOf(a) : has(<<a>>, k) \in relationships /\ findEntity(k) # {}
      \/ cutShort(SERVICE_ACCOUNTS, a)

RolesRelated ==
  \A role \in listed[ROLE_SERVICES] : \A n \in granted(role) :
    findEntity(getServiceApiEntityKey(projectId, n)) # {}
      => roleLink(role, n) \in relationships

ConfigsRelated ==
  \A config \in listed[AUDIT_CONFIG] :
    /\ isServiceFound(config) => usesLink(config) \in relationships
    /\ status[AUDIT_CONFIG] # "failure" =>
         \A m \in config.exempted :
           m.type \in entityTypes => allows(auditKey(config), m) \in relationships

Related ==
  /\ \A x \in relationships : isRelationship(x)
  /\ KeysRelated /\ RolesRelated /\ ConfigsRelated

\* What the step that relates the custom roles remembers of a key is right.
SeenRight ==
  \A key \in DOMAIN serviceApiEntityKeySeenMap :
    /\ \E role \in listed[ROLE_SERVICES] : \E n \in granted(role) :
         key = getServiceApiEntityKey(projectId, n)
    /\ serviceApiEntityKeySeenMap[key] = isFound(key)

\* What one step hands to another is set when it is complete, or was cut short.
DataHanded ==
  /\ projectEntity => Entity("project", projectKey) \in entities
  /\ status[MANAGED_ROLES] = "success" => managedRoles = listed[MANAGED_ROLES]
  /\ managedRoles # None => status[MANAGED_ROLES] = "success"
  /\ auditableServices # None =>
       /\ managedRoles # None /\ projectEntity
       /\ \/ auditableServices = cloud.auditable
          \/ auditableServices = {} /\ cutShort(API_SERVICES, "auditable")

\* The last two parts of LossExplained.
ServicesTrue ==
  \A e \in ofKind("api_service") :
    /\ e.hasIamPermissions
         \/ cutShort(MANAGED_ROLES, "list")
         \/ e.key[4] \notin buildPermissionsByApiServiceMap(DOMAIN cloud.managedRoles)
    /\ e.auditable \/ cutShort(API_SERVICES, "auditable") \/ e.key[4] \notin cloud.auditable

FailuresExplained ==
  /\ \A s \in Steps : status[s] = "failure" =>
       \/ s \in failed \/ s = PROJECT
       \/ s = API_SERVICES /\ aborted
       \/ s = AUDIT_CONFIG /\ \E config \in listed[s] : collide(config)
  /\ aborted => MANAGED_ROLES \in failed

IInv ==
  /\ TypeOK
  /\ StepsInOrder
  /\ ListedTyped
  /\ EntitiesListed
  /\ Related
  /\ SeenRight
  /\ DataHanded
  /\ ServicesTrue
  /\ FailuresExplained

-----------------------------------------------------------------------------
(* The steps, and what the catalog orders them after                         *)

LEMMA StepNames ==
  /\ \A s, t \in Steps : s = t \/ s # t
  /\ PROJECT \notin {MANAGED_ROLES, API_SERVICES, CUSTOM_ROLES, ROLE_SERVICES,
                     SERVICE_ACCOUNTS, AUDIT_CONFIG}
  /\ MANAGED_ROLES \notin {API_SERVICES, CUSTOM_ROLES, ROLE_SERVICES,
                           SERVICE_ACCOUNTS, AUDIT_CONFIG}
  /\ API_SERVICES \notin {CUSTOM_ROLES, ROLE_SERVICES, SERVICE_ACCOUNTS, AUDIT_CONFIG}
  /\ CUSTOM_ROLES \notin {ROLE_SERVICES, SERVICE_ACCOUNTS, AUDIT_CONFIG}
  /\ ROLE_SERVICES \notin {SERVICE_ACCOUNTS, AUDIT_CONFIG}
  /\ SERVICE_ACCOUNTS # AUDIT_CONFIG
BY DEF PROJECT, MANAGED_ROLES, API_SERVICES, CUSTOM_ROLES, ROLE_SERVICES, SERVICE_ACCOUNTS,
       AUDIT_CONFIG

LEMMA StepsNamed ==
  /\ PROJECT \in Steps /\ MANAGED_ROLES \in Steps /\ API_SERVICES \in Steps
  /\ CUSTOM_ROLES \in Steps /\ ROLE_SERVICES \in Steps /\ SERVICE_ACCOUNTS \in Steps
  /\ AUDIT_CONFIG \in Steps
BY DEF Steps

\* The names of the steps that wait for another.
waiting == {API_SERVICES, ROLE_SERVICES, AUDIT_CONFIG}

LEMMA NotInOthers ==
  \A step \in steps \ (iamSteps \cup serviceUsageSteps \cup resourceManagerSteps) :
    step.id \notin waiting
<1> USE DEF waiting, API_SERVICES, ROLE_SERVICES, AUDIT_CONFIG, Step, LastStep, StepOf
<1>1. \A step \in computeSteps : step.id \notin waiting
  BY DEF computeSteps, fetchComputeNetworksStepMap, fetchComputeSubnetworksStepMap,
         fetchComputeDisksStepMap, fetchComputeRegionDisksStepMap,
         fetchBackendBucketsStepMap, fetchComputeSnapshotsStepMap,
         fetchComputeHealthChecksStepMap, fetchComputeRegionHealthChecksStepMap,
         fetchComputeInstanceGroupsStepMap, fetchComputeRegionInstanceGroupsStepMap,
         fetchComputeProjectStepMap, fetchComputeAddressesStepMap,
         fetchComputeRegionBackendServicesStepMap, fetchComputeBackendServicesStepMap,
         fetchComputeGlobalAddressesStepMap, fetchComputeRegionLoadbalancersStepMap,
         fetchComputeLoadbalancersStepMap, fetchComputeTargetSslProxiesStepMap,
         fetchComputeImagesStepMap, fetchComputeTargetHttpsProxiesStepMap,
         fetchComputeInstancesStepMap, fetchComputeRegionTargetHttpsProxiesStepMap,
         fetchComputeFirewallsStepMap, fetchComputeRegionTargetHttpProxiesStepMap,
         fetchComputeTargetHttpProxiesStepMap, fetchComputeSslPoliciesStepMap,
         fetchComputeForwardingRulesStepMap, fetchComputeGlobalForwardingRulesStepMap,
         buildComputeNetworkPeeringRelationshipsStepMap,
         buildComputeSnapshotDiskRelationshipsStepMap,
         buildDiskImageRelationshipsStepMap,
         buildComputeBackendBucketHasBucketRelationshipsStepMap,
         buildComputeInstanceServiceAccountRelationshipsStepMap,
         buildImageCreatedImageRelationshipsStepMap,
         buildImageUsesKmsRelationshipsStepMap, buildDiskUsesKmsRelationshipsStepMap
<1>2. \A step \in functionsSteps \cup storageSteps \cup kmsSteps \cup sqlAdminSteps
                    \cup bigQuerySteps \cup dnsManagedZonesSteps : step.id \notin waiting
  BY DEF functionsSteps, storageSteps, kmsSteps, sqlAdminSteps, bigQuerySteps,
         dnsManagedZonesSteps
<1>3. \A step \in containerSteps \cup loggingSteps \cup monitoringSteps
                    \cup binaryAuthorizationSteps \cup pubSubSteps \cup appEngineSteps :
        step.id \notin waiting
  BY DEF containerSteps, loggingSteps, monitoringSteps, binaryAuthorizationSteps, pubSubSteps,
         appEngineSteps
<1>4. \A step \in cloudRunSteps \cup redisSteps \cup memcacheSteps \cup spannerSteps
                    \cup apiGatewaySteps \cup privateCaSteps : step.id \notin waiting
  BY DEF cloudRunSteps, redisSteps, memcacheSteps, spannerSteps, apiGatewaySteps,
         privateCaSteps, fetchCaPoolsStepMap, fetchAuthorityCertificatesStepMap,
         fetchCertificateAuthoritiesStepMap,
         buildCertificateAuthorityBucketRelationshipsStepMap
<1>5. \A step \in accessPoliciesSteps \cup dataprocSteps \cup bigTableSteps
                    \cup billingBudgetsSteps \cup cloudBillingSteps : step.id \notin waiting
  BY DEF accessPoliciesSteps, dataprocSteps, bigTableSteps, billingBudgetsSteps,
         cloudBillingSteps
<1>6. \A step \in secretManagerSteps \cup cloudBuildSteps \cup cloudSourceRepositoriesSteps
                    \cup webSecurityScannerSteps \cup cloudAssetSteps : step.id \notin waiting
  BY DEF secretManagerSteps, cloudBuildSteps, cloudSourceRepositoriesSteps,
         webSecurityScannerSteps, cloudAssetSteps, fetchCloudBuildStep,
         fetchCloudBuildTriggerStep, fetchCloudBuildWorkerPoolsStep,
         fetchCloudBuildGithubEnterpriseConfigStep,
         fetchCloudBuildBitbucketServerConfigStep,
         fetchCloudBuildBitbucketRepositoriesStep,
         buildCloudBuildTriggerTriggersBuildRelationshipsStep,
         buildCloudBuildUsesStorageBucketRelationshipsStep,
         buildCloudBuildUsesSourceRepositoryRelationshipsStep,
         buildCloudBuildTriggerUsesGithubRepositoryStep,
         fetchCloudSourceRepositoriesStep, fetchScanConfigsStepMap, fetchScanRunsStepMap
<1> HIDE DEF waiting, API_SERVICES, ROLE_SERVICES, AUDIT_CONFIG, Step, LastStep, StepOf
<1> QED
  BY <1>1, <1>2, <1>3, <1>4, <1>5, <1>6 DEF steps, defaultSteps

\* Each has one record, which says what it waits for.
LEMMA RecordsOf ==
  /\ \A step \in iamSteps \cup serviceUsageSteps \cup resourceManagerSteps :
       /\ step.id = API_SERVICES => step.dependsOn = {PROJECT, MANAGED_ROLES}
       /\ step.id = ROLE_SERVICES => step.dependsOn = {CUSTOM_ROLES, API_SERVICES}
       /\ step.id = AUDIT_CONFIG => step.dependsOn = {API_SERVICES, SERVICE_ACCOUNTS}
  /\ \A s \in waiting :
       \E step \in iamSteps \cup serviceUsageSteps \cup resourceManagerSteps : step.id = s
BY DEF waiting, API_SERVICES, ROLE_SERVICES, AUDIT_CONFIG, PROJECT, MANAGED_ROLES, CUSTOM_ROLES,
       SERVICE_ACCOUNTS, Step, StepOf, iamSteps, serviceUsageSteps, resourceManagerSteps

LEMMA Dependencies ==
  /\ dependsOn[API_SERVICES] = {PROJECT, MANAGED_ROLES}
  /\ dependsOn[ROLE_SERVICES] = {CUSTOM_ROLES, API_SERVICES}
  /\ dependsOn[AUDIT_CONFIG] = {API_SERVICES, SERVICE_ACCOUNTS}
<1>1. \A s \in waiting : \E step \in steps : step.id = s
  BY RecordsOf DEF steps, defaultSteps
<1>2. \A s \in waiting : s \in stepIds /\ stepNamed[s] \in steps /\ stepNamed[s].id = s
  BY <1>1 DEF stepIds, stepNamed
<1>3. \A s \in waiting :
        stepNamed[s] \in iamSteps \cup serviceUsageSteps \cup resourceManagerSteps
  BY <1>2, NotInOthers
<1> QED
  BY <1>2, <1>3, RecordsOf DEF dependsOn, waiting


-----------------------------------------------------------------------------
(* What a step of the handlers does to each part of the state                *)

\* When a step may succeed.
Complete(s) == toList(s) = {} \/ s = PROJECT \/ (s = API_SERVICES /\ ~projectEntity)

Moves(s) ==
  \/ status'[s] = status[s]
  \/ /\ status[s] = "pending" /\ status'[s] = "running"
     /\ \A d \in dependsOn[s] : Ended(d)
  \/ running(s) /\ status'[s] = "success" /\ Complete(s) /\ listed' = listed
  \/ running(s) /\ status'[s] = "failure"

LEMMA StatusMoves ==
  ASSUME TypeOK, [Next]_vars
  PROVE  /\ status' \in [Steps -> {"pending", "running", "success", "failure"}]
         /\ \A s \in Steps : Moves(s)
<1> USE StepsNamed DEF TypeOK, Moves, running, succeeds, fails
<1>1. ASSUME NEW s \in Steps, Start(s)
      PROVE  /\ status' \in [Steps -> {"pending", "running", "success", "failure"}]
             /\ \A t \in Steps : Moves(t)
  BY <1>1 DEF Start, Ended
<1>2. ASSUME NEW s \in Steps, Fail(s)
      PROVE  /\ status' \in [Steps -> {"pending", "running", "success", "failure"}]
             /\ \A t \in Steps : Moves(t)
  BY <1>2 DEF jobState, locals, Fail
<1>3. ASSUME NEW s \in Steps, Finish(s)
      PROVE  /\ status' \in [Steps -> {"pending", "running", "success", "failure"}]
             /\ \A t \in Steps : Moves(t)
  BY <1>3 DEF Finish, Complete, locals
<1>4. ASSUME NEW s \in Steps, NEW call \in calls(s), Refuse(s, call)
      PROVE  /\ status' \in [Steps -> {"pending", "running", "success", "failure"}]
             /\ \A t \in Steps : Moves(t)
  BY <1>4 DEF jobState, locals, Refuse
<1>5. ASSUME FetchProject
      PROVE  /\ status' \in [Steps -> {"pending", "running", "success", "failure"}]
             /\ \A t \in Steps : Moves(t)
  BY <1>5 DEF FetchProject, Complete, locals
<1>6. ASSUME NEW role \in DOMAIN cloud.managedRoles, FetchManagedRole(role)
      PROVE  /\ status' \in [Steps -> {"pending", "running", "success", "failure"}]
             /\ \A t \in Steps : Moves(t)
  BY <1>6 DEF FetchManagedRole, List
<1>7. ASSUME StoreManagedRoles
      PROVE  /\ status' \in [Steps -> {"pending", "running", "success", "failure"}]
             /\ \A t \in Steps : Moves(t)
  BY <1>7 DEF StoreManagedRoles, Complete, locals
<1>8. ASSUME LeaveOutServices
      PROVE  /\ status' \in [Steps -> {"pending", "running", "success", "failure"}]
             /\ \A t \in Steps : Moves(t)
  BY <1>8 DEF LeaveOutServices, Complete, locals
<1>9. ASSUME AbortWithoutManagedRoles
      PROVE  /\ status' \in [Steps -> {"pending", "running", "success", "failure"}]
             /\ \A t \in Steps : Moves(t)
  BY <1>9 DEF jobState, locals, AbortWithoutManagedRoles
<1>10. ASSUME NEW refusal \in BOOLEAN, CollectAuditableServices(refusal)
      PROVE  /\ status' \in [Steps -> {"pending", "running", "success", "failure"}]
             /\ \A t \in Steps : Moves(t)
  BY <1>10 DEF jobState, locals, CollectAuditableServices
<1>11. ASSUME NEW name \in cloud.enabled, FetchApiService(name)
      PROVE  /\ status' \in [Steps -> {"pending", "running", "success", "failure"}]
             /\ \A t \in Steps : Moves(t)
  BY <1>11 DEF jobState, locals, FetchApiService
<1>12. ASSUME NEW role \in cloud.customRoles, FetchCustomRole(role)
      PROVE  /\ status' \in [Steps -> {"pending", "running", "success", "failure"}]
             /\ \A t \in Steps : Moves(t)
  BY <1>12 DEF FetchCustomRole, List
<1>13. ASSUME NEW e \in ofKind("iam_custom_role"), BuildCustomRoleServices(e)
      PROVE  /\ status' \in [Steps -> {"pending", "running", "success", "failure"}]
             /\ \A t \in Steps : Moves(t)
  BY <1>13 DEF BuildCustomRoleServices, List
<1>14. ASSUME NEW account \in DOMAIN cloud.accounts, NEW outcome \in {"listed", "refused", "failed"},
             FetchServiceAccount(account, outcome)
      PROVE  /\ status' \in [Steps -> {"pending", "running", "success", "failure"}]
             /\ \A t \in Steps : Moves(t)
  BY <1>14 DEF FetchServiceAccount, List
<1>15. ASSUME NEW config \in cloud.auditConfigs, NEW members \in SUBSET config.exempted,
             FetchAuditConfig(config, members)
      PROVE  /\ status' \in [Steps -> {"pending", "running", "success", "failure"}]
             /\ \A t \in Steps : Moves(t)
  BY <1>15 DEF FetchAuditConfig, List
<1>16. ASSUME UNCHANGED vars
      PROVE  /\ status' \in [Steps -> {"pending", "running", "success", "failure"}]
             /\ \A t \in Steps : Moves(t)
  BY <1>16 DEF jobState, locals, vars
<1> QED
  BY <1>1, <1>2, <1>3, <1>4, <1>5, <1>6, <1>7, <1>8, <1>9, <1>10, <1>11,
     <1>12, <1>13, <1>14, <1>15, <1>16 DEF Next


LEMMA Kept ==
  ASSUME [Next]_vars
  PROVE  /\ cloud' = cloud /\ (aborted => aborted')
         /\ entities \subseteq entities' /\ relationships \subseteq relationships'
         /\ refused \subseteq refused' /\ failed \subseteq failed'
<1> USE DEF jobState, locals, addEntity
<1>1. ASSUME NEW s \in Steps, Start(s)
      PROVE  /\ cloud' = cloud /\ (aborted => aborted')
             /\ entities \subseteq entities' /\ relationships \subseteq relationships'
             /\ refused \subseteq refused' /\ failed \subseteq failed'
  BY <1>1 DEF Start
<1>2. ASSUME NEW s \in Steps, Fail(s)
      PROVE  /\ cloud' = cloud /\ (aborted => aborted')
             /\ entities \subseteq entities' /\ relationships \subseteq relationships'
             /\ refused \subseteq refused' /\ failed \subseteq failed'
  BY <1>2 DEF Fail
<1>3. ASSUME NEW s \in Steps, Finish(s)
      PROVE  /\ cloud' = cloud /\ (aborted => aborted')
             /\ entities \subseteq entities' /\ relationships \subseteq relationships'
             /\ refused \subseteq refused' /\ failed \subseteq failed'
  BY <1>3 DEF Finish
<1>4. ASSUME NEW s \in Steps, NEW call \in calls(s), Refuse(s, call)
      PROVE  /\ cloud' = cloud /\ (aborted => aborted')
             /\ entities \subseteq entities' /\ relationships \subseteq relationships'
             /\ refused \subseteq refused' /\ failed \subseteq failed'
  BY <1>4 DEF Refuse
<1>5. ASSUME FetchProject
      PROVE  /\ cloud' = cloud /\ (aborted => aborted')
             /\ entities \subseteq entities' /\ relationships \subseteq relationships'
             /\ refused \subseteq refused' /\ failed \subseteq failed'
  BY <1>5 DEF FetchProject
<1>6. ASSUME NEW role \in DOMAIN cloud.managedRoles, FetchManagedRole(role)
      PROVE  /\ cloud' = cloud /\ (aborted => aborted')
             /\ entities \subseteq entities' /\ relationships \subseteq relationships'
             /\ refused \subseteq refused' /\ failed \subseteq failed'
  BY <1>6 DEF FetchManagedRole
<1>7. ASSUME StoreManagedRoles
      PROVE  /\ cloud' = cloud /\ (aborted => aborted')
             /\ entities \subseteq entities' /\ relationships \subseteq relationships'
             /\ refused \subseteq refused' /\ failed \subseteq failed'
  BY <1>7 DEF StoreManagedRoles
<1>8. ASSUME LeaveOutServices
      PROVE  /\ cloud' = cloud /\ (aborted => aborted')
             /\ entities \subseteq entities' /\ relationships \subseteq relationships'
             /\ refused \subseteq refused' /\ failed \subseteq failed'
  BY <1>8 DEF LeaveOutServices
<1>9. ASSUME AbortWithoutManagedRoles
      PROVE  /\ cloud' = cloud /\ (aborted => aborted')
             /\ entities \subseteq entities' /\ relationships \subseteq relationships'
             /\ refused \subseteq refused' /\ failed \subseteq failed'
  BY <1>9 DEF AbortWithoutManagedRoles
<1>10. ASSUME NEW refusal \in BOOLEAN, CollectAuditableServices(refusal)
      PROVE  /\ cloud' = cloud /\ (aborted => aborted')
             /\ entities \subseteq entities' /\ relationships \subseteq relationships'
             /\ refused \subseteq refused' /\ failed \subseteq failed'
  BY <1>10 DEF CollectAuditableServices
<1>11. ASSUME NEW name \in cloud.enabled, FetchApiService(name)
      PROVE  /\ cloud' = cloud /\ (aborted => aborted')
             /\ entities \subseteq entities' /\ relationships \subseteq relationships'
             /\ refused \subseteq refused' /\ failed \subseteq failed'
  BY <1>11 DEF FetchApiService
<1>12. ASSUME NEW role \in cloud.customRoles, FetchCustomRole(role)
      PROVE  /\ cloud' = cloud /\ (aborted => aborted')
             /\ entities \subseteq entities' /\ relationships \subseteq relationships'
             /\ refused \subseteq refused' /\ failed \subseteq failed'
  BY <1>12 DEF FetchCustomRole
<1>13. ASSUME NEW e \in ofKind("iam_custom_role"), BuildCustomRoleServices(e)
      PROVE  /\ cloud' = cloud /\ (aborted => aborted')
             /\ entities \subseteq entities' /\ relationships \subseteq relationships'
             /\ refused \subseteq refused' /\ failed \subseteq failed'
  BY <1>13 DEF BuildCustomRoleServices
<1>14. ASSUME NEW account \in DOMAIN cloud.accounts, NEW outcome \in {"listed", "refused", "failed"},
             FetchServiceAccount(account, outcome)
      PROVE  /\ cloud' = cloud /\ (aborted => aborted')
             /\ entities \subseteq entities' /\ relationships \subseteq relationships'
             /\ refused \subseteq refused' /\ failed \subseteq failed'
  BY <1>14 DEF FetchServiceAccount
<1>15. ASSUME NEW config \in cloud.auditConfigs, NEW members \in SUBSET config.exempted,
             FetchAuditConfig(config, members)
      PROVE  /\ cloud' = cloud /\ (aborted => aborted')
             /\ entities \subseteq entities' /\ relationships \subseteq relationships'
             /\ refused \subseteq refused' /\ failed \subseteq failed'
  BY <1>15 DEF FetchAuditConfig
<1>16. ASSUME UNCHANGED vars
      PROVE  /\ cloud' = cloud /\ (aborted => aborted')
             /\ entities \subseteq entities' /\ relationships \subseteq relationships'
             /\ refused \subseteq refused' /\ failed \subseteq failed'
  BY <1>16 DEF vars
<1> QED
  BY <1>1, <1>2, <1>3, <1>4, <1>5, <1>6, <1>7, <1>8, <1>9, <1>10, <1>11,
     <1>12, <1>13, <1>14, <1>15, <1>16 DEF Next

\* What a step may list.
listable(s) ==
  CASE s = MANAGED_ROLES -> DOMAIN cloud.managedRoles
    [] s = API_SERVICES -> cloud.enabled
    [] s = CUSTOM_ROLES -> cloud.customRoles
    [] s = SERVICE_ACCOUNTS -> DOMAIN cloud.accounts
    [] s = AUDIT_CONFIG -> cloud.auditConfigs
    [] s = ROLE_SERVICES -> ofKind("iam_custom_role")
    [] OTHER -> {}

\* A step lists only while it runs, one thing at a time.
Lists(s) ==
  \/ listed'[s] = listed[s]
  \/ running(s) /\ \E x \in listable(s) : listed'[s] = listed[s] \cup {x}

LEMMA ListingMoves ==
  ASSUME TypeOK, [Next]_vars
  PROVE  /\ DOMAIN listed' = Steps
         /\ \A s \in Steps : Lists(s)
<1> USE StepNames, StepsNamed DEF TypeOK, Lists, listable, jobState, locals
<1>1. ASSUME NEW s \in Steps, Start(s)
      PROVE  DOMAIN listed' = Steps /\ \A t \in Steps : Lists(t)
  BY <1>1 DEF Start
<1>2. ASSUME NEW s \in Steps, Fail(s)
      PROVE  DOMAIN listed' = Steps /\ \A t \in Steps : Lists(t)
  BY <1>2 DEF Fail
<1>3. ASSUME NEW s \in Steps, Finish(s)
      PROVE  DOMAIN listed' = Steps /\ \A t \in Steps : Lists(t)
  BY <1>3 DEF Finish
<1>4. ASSUME NEW s \in Steps, NEW call \in calls(s), Refuse(s, call)
      PROVE  DOMAIN listed' = Steps /\ \A t \in Steps : Lists(t)
  BY <1>4 DEF Refuse
<1>5. ASSUME FetchProject
      PROVE  DOMAIN listed' = Steps /\ \A t \in Steps : Lists(t)
  BY <1>5 DEF FetchProject
<1>6. ASSUME NEW role \in DOMAIN cloud.managedRoles, FetchManagedRole(role)
      PROVE  DOMAIN listed' = Steps /\ \A t \in Steps : Lists(t)
  BY <1>6 DEF FetchManagedRole, List, running
<1>7. ASSUME StoreManagedRoles
      PROVE  DOMAIN listed' = Steps /\ \A t \in Steps : Lists(t)
  BY <1>7 DEF StoreManagedRoles
<1>8. ASSUME LeaveOutServices
      PROVE  DOMAIN listed' = Steps /\ \A t \in Steps : Lists(t)
  BY <1>8 DEF LeaveOutServices
<1>9. ASSUME AbortWithoutManagedRoles
      PROVE  DOMAIN listed' = Steps /\ \A t \in Steps : Lists(t)
  BY <1>9 DEF AbortWithoutManagedRoles
<1>10. ASSUME NEW refusal \in BOOLEAN, CollectAuditableServices(refusal)
      PROVE  DOMAIN listed' = Steps /\ \A t \in Steps : Lists(t)
  BY <1>10 DEF CollectAuditableServices
<1>11. ASSUME NEW name \in cloud.enabled, FetchApiService(name)
      PROVE  DOMAIN listed' = Steps /\ \A t \in Steps : Lists(t)
  BY <1>11 DEF FetchApiService
<1>12. ASSUME NEW role \in cloud.customRoles, FetchCustomRole(role)
      PROVE  DOMAIN listed' = Steps /\ \A t \in Steps : Lists(t)
  BY <1>12 DEF FetchCustomRole, List, running
<1>13. ASSUME NEW e \in ofKind("iam_custom_role"), BuildCustomRoleServices(e)
      PROVE  DOMAIN listed' = Steps /\ \A t \in Steps : Lists(t)
  BY <1>13 DEF BuildCustomRoleServices, List, running
<1>14. ASSUME NEW account \in DOMAIN cloud.accounts, NEW outcome \in {"listed", "refused", "failed"},
             FetchServiceAccount(account, outcome)
      PROVE  DOMAIN listed' = Steps /\ \A t \in Steps : Lists(t)
  BY <1>14 DEF FetchServiceAccount, List, running
<1>15. ASSUME NEW config \in cloud.auditConfigs, NEW members \in SUBSET config.exempted,
             FetchAuditConfig(config, members)
      PROVE  DOMAIN listed' = Steps /\ \A t \in Steps : Lists(t)
  BY <1>15 DEF FetchAuditConfig, List, running
<1>16. ASSUME UNCHANGED vars
      PROVE  DOMAIN listed' = Steps /\ \A t \in Steps : Lists(t)
  BY <1>16 DEF vars
<1> QED
  BY <1>1, <1>2, <1>3, <1>4, <1>5, <1>6, <1>7, <1>8, <1>9, <1>10, <1>11,
     <1>12, <1>13, <1>14, <1>15, <1>16 DEF Next

\* What one step hands to another is set once, while it runs.
DataMoves ==
  /\ \/ projectEntity' = projectEntity
     \/ running(PROJECT) /\ projectEntity' /\ Entity("project", projectKey) \in entities'
  /\ \/ managedRoles' = managedRoles /\ status'[MANAGED_ROLES] = status[MANAGED_ROLES]
     \/ managedRoles' = managedRoles /\ status'[MANAGED_ROLES] # "success"
     \/ /\ running(MANAGED_ROLES) /\ status'[MANAGED_ROLES] = "success"
        /\ managedRoles' = listed'[MANAGED_ROLES]
  /\ \/ auditableServices' = auditableServices
     \/ /\ running(API_SERVICES) /\ projectEntity /\ managedRoles # None
        /\ \/ auditableServices' = cloud.auditable
           \/ auditableServices' = {} /\ cutShort(API_SERVICES, "auditable")'

LEMMA DataSteps ==
  ASSUME TypeOK, [Next]_vars
  PROVE  DataMoves
<1> USE StepNames, StepsNamed DEF TypeOK, DataMoves, jobState, locals, succeeds, fails, running
<1>1. ASSUME NEW s \in Steps, Start(s)
      PROVE  DataMoves
  BY <1>1 DEF Start
<1>2. ASSUME NEW s \in Steps, Fail(s)
      PROVE  DataMoves
  BY <1>2 DEF Fail
<1>3. ASSUME NEW s \in Steps, Finish(s)
      PROVE  DataMoves
  BY <1>3 DEF Finish
<1>4. ASSUME NEW s \in Steps, NEW call \in calls(s), Refuse(s, call)
      PROVE  DataMoves
  BY <1>4 DEF Refuse
<1>5. ASSUME FetchProject
      PROVE  DataMoves
  BY <1>5 DEF FetchProject, addEntity, projectKey
<1>6. ASSUME NEW role \in DOMAIN cloud.managedRoles, FetchManagedRole(role)
      PROVE  DataMoves
  BY <1>6 DEF FetchManagedRole, List
<1>7. ASSUME StoreManagedRoles
      PROVE  DataMoves
  BY <1>7 DEF StoreManagedRoles
<1>8. ASSUME LeaveOutServices
      PROVE  DataMoves
  BY <1>8 DEF LeaveOutServices
<1>9. ASSUME AbortWithoutManagedRoles
      PROVE  DataMoves
  BY <1>9 DEF AbortWithoutManagedRoles
<1>10. ASSUME NEW refusal \in BOOLEAN, CollectAuditableServices(refusal)
      PROVE  DataMoves
  BY <1>10 DEF CollectAuditableServices, cutShort
<1>11. ASSUME NEW name \in cloud.enabled, FetchApiService(name)
      PROVE  DataMoves
  BY <1>11 DEF FetchApiService
<1>12. ASSUME NEW role \in cloud.customRoles, FetchCustomRole(role)
      PROVE  DataMoves
  BY <1>12 DEF FetchCustomRole, List
<1>13. ASSUME NEW e \in ofKind("iam_custom_role"), BuildCustomRoleServices(e)
      PROVE  DataMoves
  BY <1>13 DEF BuildCustomRoleServices, List
<1>14. ASSUME NEW account \in DOMAIN cloud.accounts, NEW outcome \in {"listed", "refused", "failed"},
             FetchServiceAccount(account, outcome)
      PROVE  DataMoves
  BY <1>14 DEF FetchServiceAccount, List
<1>15. ASSUME NEW config \in cloud.auditConfigs, NEW members \in SUBSET config.exempted,
             FetchAuditConfig(config, members)
      PROVE  DataMoves
  BY <1>15 DEF FetchAuditConfig, List
<1>16. ASSUME UNCHANGED vars
      PROVE  DataMoves
  BY <1>16 DEF vars
<1> QED
  BY <1>1, <1>2, <1>3, <1>4, <1>5, <1>6, <1>7, <1>8, <1>9, <1>10, <1>11,
     <1>12, <1>13, <1>14, <1>15, <1>16 DEF Next

\* A new entity is of what its step has listed.
Added(e) ==
  \/ e = Entity("project", projectKey)
  \/ /\ running(API_SERVICES) /\ auditableServices # None
     /\ \E n \in listed'[API_SERVICES] :
          e = createApiServiceEntity(n, n \in buildPermissionsByApiServiceMap(managedRoles),
                                     n \in auditableServices)
  \/ /\ running(CUSTOM_ROLES)
     /\ \E role \in listed'[CUSTOM_ROLES] : e = createIamRoleEntity(role)
  \/ /\ running(SERVICE_ACCOUNTS)
     /\ \E a \in listed'[SERVICE_ACCOUNTS] :
          \/ e = Entity("iam_service_account", <<a>>)
          \/ \E k \in keysOf(a) : e = Entity("iam_service_account_key", k)
  \/ /\ running(AUDIT_CONFIG)
     /\ \E config \in listed'[AUDIT_CONFIG] : e = Entity("audit_config", auditKey(config))

LEMMA EntitiesAdded ==
  ASSUME TypeOK, [Next]_vars, NEW e \in entities', e \notin entities
  PROVE  Added(e)
<1> USE StepNames, StepsNamed DEF TypeOK, Added, jobState, locals
<1>1. ASSUME NEW s \in Steps, Start(s)
      PROVE  Added(e)
  BY <1>1 DEF Start
<1>2. ASSUME NEW s \in Steps, Fail(s)
      PROVE  Added(e)
  BY <1>2 DEF Fail
<1>3. ASSUME NEW s \in Steps, Finish(s)
      PROVE  Added(e)
  BY <1>3 DEF Finish
<1>4. ASSUME NEW s \in Steps, NEW call \in calls(s), Refuse(s, call)
      PROVE  Added(e)
  BY <1>4 DEF Refuse
<1>5. ASSUME FetchProject
      PROVE  Added(e)
  BY <1>5 DEF FetchProject, addEntity, projectKey
<1>6. ASSUME NEW role \in DOMAIN cloud.managedRoles, FetchManagedRole(role)
      PROVE  Added(e)
  BY <1>6 DEF FetchManagedRole, List
<1>7. ASSUME StoreManagedRoles
      PROVE  Added(e)
  BY <1>7 DEF StoreManagedRoles
<1>8. ASSUME LeaveOutServices
      PROVE  Added(e)
  BY <1>8 DEF LeaveOutServices
<1>9. ASSUME AbortWithoutManagedRoles
      PROVE  Added(e)
  BY <1>9 DEF AbortWithoutManagedRoles
<1>10. ASSUME NEW refusal \in BOOLEAN, CollectAuditableServices(refusal)
      PROVE  Added(e)
  BY <1>10 DEF CollectAuditableServices
<1>11. ASSUME NEW name \in cloud.enabled, FetchApiService(name)
      PROVE  Added(e)
  BY <1>11 DEF FetchApiService, addEntity
<1>12. ASSUME NEW role \in cloud.customRoles, FetchCustomRole(role)
      PROVE  Added(e)
  BY <1>12 DEF FetchCustomRole, List, addEntity
<1>13. ASSUME NEW role \in ofKind("iam_custom_role"), BuildCustomRoleServices(role)
      PROVE  Added(e)
  BY <1>13 DEF BuildCustomRoleServices, List
<1>14. ASSUME NEW account \in DOMAIN cloud.accounts, NEW outcome \in {"listed", "refused", "failed"},
             FetchServiceAccount(account, outcome)
      PROVE  Added(e)
  BY <1>14 DEF FetchServiceAccount, List
<1>15. ASSUME NEW config \in cloud.auditConfigs, NEW members \in SUBSET config.exempted,
             FetchAuditConfig(config, members)
      PROVE  Added(e)
  BY <1>15 DEF FetchAuditConfig, List, addEntity, auditKey
<1>16. ASSUME UNCHANGED vars
      PROVE  Added(e)
  BY <1>16 DEF vars
<1> QED
  BY <1>1, <1>2, <1>3, <1>4, <1>5, <1>6, <1>7, <1>8, <1>9, <1>10, <1>11,
     <1>12, <1>13, <1>14, <1>15, <1>16 DEF Next

-----------------------------------------------------------------------------
(* Keys                                                                      *)

\* Keys of different kinds differ, and those of one kind name what they are of.
LEMMA KeysApart ==
  /\ \A pid, n, parent, name : getServiceApiEntityKey(pid, n) # <<parent, name>>
  /\ \A pid, n, a : getServiceApiEntityKey(pid, n) # <<a>>
  /\ \A pid, n, a, k : getServiceApiEntityKey(pid, n) # <<a, "keys", k>>
  /\ \A parent, name, a : <<parent, name>> # <<a>>
  /\ \A parent, name, a, k : <<parent, name>> # <<a, "keys", k>>
  /\ \A a, b, k : <<b>> # <<a, "keys", k>>
  /\ \A a, b : <<a>> = <<b>> => a = b
  /\ \A pid, n, q, m :
       getServiceApiEntityKey(pid, n) = getServiceApiEntityKey(q, m) => pid = q /\ n = m
  /\ \A parent, name, q, m : <<parent, name>> = <<q, m>> => parent = q /\ name = m
  /\ \A pid, n : getServiceApiEntityKey(pid, n)[4] = n
BY DEF getServiceApiEntityKey

LEMMA EntityFields ==
  /\ \A kind, key : Entity(kind, key).kind = kind /\ Entity(kind, key).key = key
  /\ \A role : /\ createIamRoleEntity(role).kind = "iam_custom_role"
               /\ createIamRoleEntity(role).key = <<role.parent, role.name>>
               /\ createIamRoleEntity(role).permissions = role.includes
  /\ \A n, permissions, auditable :
       /\ createApiServiceEntity(n, permissions, auditable).kind = "api_service"
       /\ createApiServiceEntity(n, permissions, auditable).key = getServiceApiEntityKey(Own, n)
       /\ createApiServiceEntity(n, permissions, auditable).hasIamPermissions = permissions
       /\ createApiServiceEntity(n, permissions, auditable).auditable = auditable
       /\ "isAuditable" \notin DOMAIN createApiServiceEntity(n, permissions, auditable)
BY DEF Entity, createIamRoleEntity, createApiServiceEntity

LEMMA RelationshipFields ==
  /\ \A from, class, to, mapped :
       /\ Relationship(from, class, to, mapped).from = from
       /\ Relationship(from, class, to, mapped).class = class
       /\ Relationship(from, class, to, mapped).to = to
       /\ Relationship(from, class, to, mapped).mapped = mapped
BY DEF Relationship

\* Whether there is an entity is whether its step has listed it.
FoundIfListed ==
  /\ \A pid, n : findEntity(getServiceApiEntityKey(pid, n)) # {}
                   <=> pid = Own /\ n \in listed[API_SERVICES]
  /\ \A a : findEntity(<<a>>) # {} <=> a \in listed[SERVICE_ACCOUNTS]

LEMMA FoundListed == EntitiesListed => FoundIfListed
<1> SUFFICES ASSUME EntitiesListed PROVE FoundIfListed
  OBVIOUS
<1>1. \A a : <<a>> # projectKey /\ \A config : <<a>> # auditKey(config)
  BY KeysApart DEF projectKey, auditKey
<1>2. \A pid, n : /\ getServiceApiEntityKey(pid, n) # projectKey
                  /\ \A config : getServiceApiEntityKey(pid, n) # auditKey(config)
  BY KeysApart DEF projectKey, auditKey
<1>3. \A account : \A key \in keysOf(account) :
        /\ \A a : <<a>> # key
        /\ \A pid, n : getServiceApiEntityKey(pid, n) # key
  BY KeysApart DEF keysOf
<1>4. ASSUME NEW e \in entities
      PROVE  \/ e.key = projectKey
             \/ \E n \in listed[API_SERVICES] : e.key = getServiceApiEntityKey(Own, n)
             \/ \E role : e.key = <<role.parent, role.name>>
             \/ \E a \in listed[SERVICE_ACCOUNTS] : e.key = <<a>> \/ e.key \in keysOf(a)
             \/ \E config : e.key = auditKey(config)
  BY DEF EntitiesListed, isEntity, isService, Entity, createIamRoleEntity,
         createApiServiceEntity
<1>5. ASSUME NEW e \in entities, NEW pid, NEW n, e.key = getServiceApiEntityKey(pid, n)
      PROVE  pid = Own /\ n \in listed[API_SERVICES]
  <2>1. e.key # projectKey /\ \A config : e.key # auditKey(config)
    BY <1>2, <1>5
  <2>2. \A role : e.key # <<role.parent, role.name>>
    BY <1>5, KeysApart
  <2>3. \A account : e.key # <<account>> /\ e.key \notin keysOf(account)
    BY <1>3, <1>5, KeysApart
  <2>4. PICK m \in listed[API_SERVICES] : e.key = getServiceApiEntityKey(Own, m)
    BY <1>4, <2>1, <2>2, <2>3, Zenon
  <2> QED
    BY <1>5, <2>4, KeysApart
<1>6. ASSUME NEW e \in entities, NEW a, e.key = <<a>>
      PROVE  a \in listed[SERVICE_ACCOUNTS]
  <2>1. e.key # projectKey /\ \A config : e.key # auditKey(config)
    BY <1>1, <1>6
  <2>2. \A role : e.key # <<role.parent, role.name>>
    BY <1>6, KeysApart
  <2>3. \A account : e.key \notin keysOf(account)
    BY <1>3, <1>6
  <2>4. \A pid, n : e.key # getServiceApiEntityKey(pid, n)
    BY <1>6, KeysApart
  <2>5. PICK b \in listed[SERVICE_ACCOUNTS] : e.key = <<b>>
    BY <1>4, <2>1, <2>2, <2>3, <2>4, Zenon
  <2> QED
    BY <1>6, <2>5, KeysApart
<1>7. ASSUME NEW a \in listed[SERVICE_ACCOUNTS]
      PROVE  findEntity(<<a>>) # {}
  <2>1. Entity("iam_service_account", <<a>>) \in entities
    BY DEF EntitiesListed
  <2>2. Entity("iam_service_account", <<a>>).key = <<a>>
    BY DEF Entity
  <2> QED
    BY <2>1, <2>2 DEF findEntity
<1> QED
  BY <1>5, <1>6, <1>7 DEF FoundIfListed, EntitiesListed, findEntity

LEMMA FoundListedAfter == EntitiesListed' => FoundIfListed'
BY FoundListed, PTL

\* A custom role is told by its key.
LEMMA RolesTold ==
  ASSUME TypeOK, ListedTyped, EntitiesListed
  PROVE  /\ \A e \in ofKind("iam_custom_role") :
              \E role \in listed[CUSTOM_ROLES] : e = createIamRoleEntity(role)
         /\ \A e, f \in ofKind("iam_custom_role") : e.key = f.key => e = f
<1>1. \A e \in ofKind("iam_custom_role") :
        \E role \in listed[CUSTOM_ROLES] : e = createIamRoleEntity(role)
  BY DEF EntitiesListed, isEntity, isService, ofKind, Entity, createIamRoleEntity,
         createApiServiceEntity
<1>2. \A role, q \in listed[CUSTOM_ROLES] : createIamRoleEntity(role).key = createIamRoleEntity(q).key
        => role = q
  BY IamAssumption, EntityFields, KeysApart DEF TypeOK, ListedTyped
<1> QED
  BY <1>1, <1>2

-----------------------------------------------------------------------------
(* What the handlers relate                                                  *)

\* No service has isAuditable, and none is called allServices.
LEMMA Audited ==
  ASSUME TypeOK, ListedTyped, EntitiesListed, NEW config \in cloud.auditConfigs
  PROVE  \A x : x \in {Relationship(s.key, "USES", auditKey(config), FALSE) :
                         s \in auditedServices(config)}
                  <=> isServiceFound(config) /\ x = usesLink(config)
<1>1. \A e \in ofKind("api_service") : ~property(e, "isAuditable")
  BY DEF EntitiesListed, isEntity, isService, ofKind, property, Entity, createIamRoleEntity,
         createApiServiceEntity
<1>2. CASE config.service = "allServices"
  <2>1. auditedServices(config) = {}
    BY <1>1, <1>2 DEF auditedServices
  <2>2. "allServices" \notin cloud.enabled
    BY IamAssumption DEF TypeOK
  <2>3. ~isServiceFound(config)
    BY <1>2, <2>2, FoundListed DEF isServiceFound, FoundIfListed, ListedTyped
  <2> QED
    BY <2>1, <2>3
<1>3. CASE config.service # "allServices"
  <2>1. auditedServices(config) = findEntity(getServiceApiEntityKey(Own, config.service))
    BY <1>3 DEF auditedServices, auditedKey
  <2>2. \A s \in auditedServices(config) :
          Relationship(s.key, "USES", auditKey(config), FALSE) = usesLink(config)
    BY <2>1 DEF findEntity, usesLink
  <2> QED
    BY <2>1, <2>2 DEF isServiceFound
<1> QED
  BY <1>2, <1>3

\* The map of the keys says what isFound says, in the same step.
LEMMA SeenFound ==
  ASSUME SeenRight, NEW e, BuildCustomRoleServices(e), NEW x
  PROVE  x \in relationships' <=>
           x \in relationships \/ \E n \in granted(e) :
             findEntity(getServiceApiEntityKey(projectId, n)) # {} /\ x = roleLink(e, n)
<1> DEFINE keys == {getServiceApiEntityKey(projectId, n) : n \in granted(e)}
           seenMap == [key \in keys \cup DOMAIN serviceApiEntityKeySeenMap |->
                         IF key \in DOMAIN serviceApiEntityKeySeenMap
                         THEN serviceApiEntityKeySeenMap[key] ELSE isFound(key)]
<1>1. relationships' = relationships \cup {has(key, e.key) : key \in {k \in keys : seenMap[k]}}
  BY DEF BuildCustomRoleServices, granted
<1>2. \A key \in keys : seenMap[key] = isFound(key)
  BY DEF SeenRight
<1> HIDE DEF seenMap
<1> QED
  BY <1>1, <1>2 DEF isFound, roleLink

\* A new relationship is of what its step has listed, and found.
NewRelationship(x) ==
  \/ /\ running(API_SERVICES) /\ auditableServices # None
     /\ \E n \in listed'[API_SERVICES] : x = has(projectKey, getServiceApiEntityKey(Own, n))
  \/ running(ROLE_SERVICES) /\ isRoleLink(x)
  \/ /\ running(SERVICE_ACCOUNTS)
     /\ \E a \in listed'[SERVICE_ACCOUNTS] : \E k \in keysOf(a) : x = has(<<a>>, k)
  \/ /\ running(AUDIT_CONFIG)
     /\ \E config \in listed'[AUDIT_CONFIG] :
          \/ isServiceFound(config) /\ x = usesLink(config)
          \/ \E m \in config.exempted : m.type \in entityTypes /\ x = allows(auditKey(config), m)

LEMMA RelationshipsAdded ==
  ASSUME TypeOK, ListedTyped, EntitiesListed, SeenRight, [Next]_vars,
         NEW x \in relationships', x \notin relationships
  PROVE  NewRelationship(x)
<1> USE StepNames, StepsNamed DEF TypeOK, NewRelationship, jobState, locals
<1>1. ASSUME NEW s \in Steps, Start(s)
      PROVE  NewRelationship(x)
  BY <1>1 DEF Start
<1>2. ASSUME NEW s \in Steps, Fail(s)
      PROVE  NewRelationship(x)
  BY <1>2 DEF Fail
<1>3. ASSUME NEW s \in Steps, Finish(s)
      PROVE  NewRelationship(x)
  BY <1>3 DEF Finish
<1>4. ASSUME NEW s \in Steps, NEW call \in calls(s), Refuse(s, call)
      PROVE  NewRelationship(x)
  BY <1>4 DEF Refuse
<1>5. ASSUME FetchProject
      PROVE  NewRelationship(x)
  BY <1>5 DEF FetchProject
<1>6. ASSUME NEW role \in DOMAIN cloud.managedRoles, FetchManagedRole(role)
      PROVE  NewRelationship(x)
  BY <1>6 DEF FetchManagedRole, List
<1>7. ASSUME StoreManagedRoles
      PROVE  NewRelationship(x)
  BY <1>7 DEF StoreManagedRoles
<1>8. ASSUME LeaveOutServices
      PROVE  NewRelationship(x)
  BY <1>8 DEF LeaveOutServices
<1>9. ASSUME AbortWithoutManagedRoles
      PROVE  NewRelationship(x)
  BY <1>9 DEF AbortWithoutManagedRoles
<1>10. ASSUME NEW refusal \in BOOLEAN, CollectAuditableServices(refusal)
      PROVE  NewRelationship(x)
  BY <1>10 DEF CollectAuditableServices
<1>11. ASSUME NEW name \in cloud.enabled, FetchApiService(name)
      PROVE  NewRelationship(x)
  BY <1>11 DEF FetchApiService, createApiServiceEntity, projectKey
<1>12. ASSUME NEW role \in cloud.customRoles, FetchCustomRole(role)
      PROVE  NewRelationship(x)
  BY <1>12 DEF FetchCustomRole, List
<1>13. ASSUME NEW e \in ofKind("iam_custom_role"), BuildCustomRoleServices(e)
      PROVE  NewRelationship(x)
  <2>1. \E n \in granted(e) : findEntity(getServiceApiEntityKey(projectId, n)) # {}
                              /\ x = roleLink(e, n)
    BY <1>13, SeenFound
  <2>2. running(ROLE_SERVICES)
    BY <1>13 DEF BuildCustomRoleServices, List
  <2> QED
    BY <1>13, <2>1, <2>2 DEF isRoleLink
<1>14. ASSUME NEW account \in DOMAIN cloud.accounts, NEW outcome \in {"listed", "refused", "failed"},
             FetchServiceAccount(account, outcome)
      PROVE  NewRelationship(x)
  BY <1>14 DEF FetchServiceAccount, List
<1>15. ASSUME NEW config \in cloud.auditConfigs, NEW members \in SUBSET config.exempted,
             FetchAuditConfig(config, members)
      PROVE  NewRelationship(x)
  <2>1. \/ x \in {Relationship(s.key, "USES", auditKey(config), FALSE) : s \in auditedServices(config)}
        \/ \E m \in members : m.type \in entityTypes /\ x = allows(auditKey(config), m)
    BY <1>15 DEF FetchAuditConfig, auditKey, Entity
  <2>2. running(AUDIT_CONFIG) /\ config \in listed'[AUDIT_CONFIG]
    BY <1>15 DEF FetchAuditConfig, List
  <2> QED
    BY <1>15, <2>1, <2>2, Audited
<1>16. ASSUME UNCHANGED vars
      PROVE  NewRelationship(x)
  BY <1>16 DEF vars
<1> QED
  BY <1>1, <1>2, <1>3, <1>4, <1>5, <1>6, <1>7, <1>8, <1>9, <1>10, <1>11,
     <1>12, <1>13, <1>14, <1>15, <1>16 DEF Next

\* What is newly listed has its entity and its relationships, unless the step
\* fails at it.
Handled ==
  /\ \A n \in listed'[API_SERVICES] \ listed[API_SERVICES] :
       \E e \in entities' : e.key = getServiceApiEntityKey(Own, n)
  /\ \A role \in listed'[CUSTOM_ROLES] \ listed[CUSTOM_ROLES] :
       createIamRoleEntity(role) \in entities'
  /\ \A e \in listed'[ROLE_SERVICES] \ listed[ROLE_SERVICES] : \A n \in granted(e) :
       findEntity(getServiceApiEntityKey(projectId, n)) # {} => roleLink(e, n) \in relationships'
  /\ \A a \in listed'[SERVICE_ACCOUNTS] \ listed[SERVICE_ACCOUNTS] :
       /\ Entity("iam_service_account", <<a>>) \in entities'
       /\ \/ status'[SERVICE_ACCOUNTS] = "failure"
          \/ <<SERVICE_ACCOUNTS, a>> \in refused'
          \/ \A k \in keysOf(a) : /\ has(<<a>>, k) \in relationships'
                                  /\ Entity("iam_service_account_key", k) \in entities'
  /\ \A config \in listed'[AUDIT_CONFIG] \ listed[AUDIT_CONFIG] :
       /\ Entity("audit_config", auditKey(config)) \in entities'
       /\ isServiceFound(config) => usesLink(config) \in relationships'
       /\ \/ status'[AUDIT_CONFIG] = "failure"
          \/ \A m \in config.exempted :
               m.type \in entityTypes => allows(auditKey(config), m) \in relationships'

LEMMA ListedHandled ==
  ASSUME TypeOK, ListedTyped, EntitiesListed, SeenRight, [Next]_vars
  PROVE  Handled
<1> USE StepNames, StepsNamed DEF TypeOK, Handled, jobState, locals
<1>1. ASSUME NEW s \in Steps, Start(s)
      PROVE  Handled
  BY <1>1 DEF Start
<1>2. ASSUME NEW s \in Steps, Fail(s)
      PROVE  Handled
  BY <1>2 DEF Fail
<1>3. ASSUME NEW s \in Steps, Finish(s)
      PROVE  Handled
  BY <1>3 DEF Finish
<1>4. ASSUME NEW s \in Steps, NEW call \in calls(s), Refuse(s, call)
      PROVE  Handled
  BY <1>4 DEF Refuse
<1>5. ASSUME FetchProject
      PROVE  Handled
  BY <1>5 DEF FetchProject
<1>6. ASSUME NEW role \in DOMAIN cloud.managedRoles, FetchManagedRole(role)
      PROVE  Handled
  BY <1>6 DEF FetchManagedRole, List
<1>7. ASSUME StoreManagedRoles
      PROVE  Handled
  BY <1>7 DEF StoreManagedRoles
<1>8. ASSUME LeaveOutServices
      PROVE  Handled
  BY <1>8 DEF LeaveOutServices
<1>9. ASSUME AbortWithoutManagedRoles
      PROVE  Handled
  BY <1>9 DEF AbortWithoutManagedRoles
<1>10. ASSUME NEW refusal \in BOOLEAN, CollectAuditableServices(refusal)
      PROVE  Handled
  BY <1>10 DEF CollectAuditableServices
<1>11. ASSUME NEW name \in cloud.enabled, FetchApiService(name)
      PROVE  Handled
  <2>1. \A s \in Steps : s # API_SERVICES => listed'[s] = listed[s]
    BY <1>11 DEF FetchApiService
  <2>2. listed'[API_SERVICES] \ listed[API_SERVICES] \subseteq {name}
    BY <1>11 DEF FetchApiService
  <2>3. name \in listed[API_SERVICES]
          \/ \E e \in entities' : e.key = getServiceApiEntityKey(Own, name)
    <3> DEFINE e == createApiServiceEntity(name, name \in buildPermissionsByApiServiceMap(managedRoles),
                                           name \in auditableServices)
    <3>1. e.key = getServiceApiEntityKey(Own, name)
      BY EntityFields
    <3>2. seen(name) \/ findEntity(e.key) # {} \/ entities' = entities \cup {e}
      BY <1>11 DEF FetchApiService, addEntity
    <3>3. entities \subseteq entities'
      BY Kept
    <3> HIDE DEF e
    <3> QED
      BY <3>1, <3>2, <3>3 DEF seen, findEntity
  <2> QED
    BY <2>1, <2>2, <2>3
<1>12. ASSUME NEW role \in cloud.customRoles, FetchCustomRole(role)
      PROVE  Handled
  BY <1>12 DEF FetchCustomRole, List, addEntity
<1>13. ASSUME NEW e \in ofKind("iam_custom_role"), BuildCustomRoleServices(e)
      PROVE  Handled
  <2>1. \A s \in Steps : s # ROLE_SERVICES => listed'[s] = listed[s]
    BY <1>13 DEF BuildCustomRoleServices, List
  <2>2. listed'[ROLE_SERVICES] \ listed[ROLE_SERVICES] \subseteq {e}
    BY <1>13 DEF BuildCustomRoleServices, List
  <2>3. \A n \in granted(e) :
          findEntity(getServiceApiEntityKey(projectId, n)) # {} => roleLink(e, n) \in relationships'
    BY <1>13, SeenFound
  <2> QED
    BY <2>1, <2>2, <2>3
<1>14. ASSUME NEW account \in DOMAIN cloud.accounts, NEW outcome \in {"listed", "refused", "failed"},
             FetchServiceAccount(account, outcome)
      PROVE  Handled
  BY <1>14 DEF FetchServiceAccount, List, fails
<1>15. ASSUME NEW config \in cloud.auditConfigs, NEW members \in SUBSET config.exempted,
             FetchAuditConfig(config, members)
      PROVE  Handled
  <2>1. \A s \in Steps : s # AUDIT_CONFIG => listed'[s] = listed[s]
    BY <1>15 DEF FetchAuditConfig, List
  <2>2. listed'[AUDIT_CONFIG] \ listed[AUDIT_CONFIG] \subseteq {config}
    BY <1>15 DEF FetchAuditConfig, List
  <2>3. Entity("audit_config", auditKey(config)) \in entities'
    BY <1>15 DEF FetchAuditConfig, addEntity, auditKey
  <2>4. isServiceFound(config) => usesLink(config) \in relationships'
    <3>1. {Relationship(s.key, "USES", auditKey(config), FALSE) : s \in auditedServices(config)}
            \subseteq relationships'
      BY <1>15 DEF FetchAuditConfig, auditKey, Entity
    <3> QED
      BY <3>1, Audited
  <2>5. \/ status'[AUDIT_CONFIG] = "failure"
        \/ \A m \in config.exempted :
             m.type \in entityTypes => allows(auditKey(config), m) \in relationships'
    BY <1>15 DEF FetchAuditConfig, fails, auditKey, Entity
  <2> QED
    BY <2>1, <2>2, <2>3, <2>4, <2>5
<1>16. ASSUME UNCHANGED vars
      PROVE  Handled
  BY <1>16 DEF vars
<1> QED
  BY <1>1, <1>2, <1>3, <1>4, <1>5, <1>6, <1>7, <1>8, <1>9, <1>10, <1>11,
     <1>12, <1>13, <1>14, <1>15, <1>16 DEF Next

-----------------------------------------------------------------------------
(* Each part of the invariant                                                *)

LEMMA InitIInv == Init => IInv
<1> SUFFICES ASSUME Init PROVE IInv
  OBVIOUS
<1> USE StepNames, StepsNamed DEF Init
<1>1. TypeOK
  <2>1. status \in [Steps -> {"pending", "running", "success", "failure"}]
    OBVIOUS
  <2>2. DOMAIN listed = Steps /\ DOMAIN serviceApiEntityKeySeenMap = {}
    OBVIOUS
  <2> QED
    BY <2>1, <2>2 DEF TypeOK
<1>2. StepsInOrder
  BY DEF StepsInOrder
<1>3. ListedTyped
  BY DEF ListedTyped
<1>4. EntitiesListed /\ Related
  BY DEF EntitiesListed, Related, KeysRelated, RolesRelated, ConfigsRelated
<1>5. SeenRight
  BY DEF SeenRight
<1>6. DataHanded
  BY DEF DataHanded
<1>7. ServicesTrue /\ FailuresExplained
  BY DEF ServicesTrue, ofKind, FailuresExplained
<1> QED
  BY <1>1, <1>2, <1>3, <1>4, <1>5, <1>6, <1>7 DEF IInv

LEMMA DependsTyped == \A s \in Steps : dependsOn[s] \subseteq Steps
BY IamAssumption

\* A step that has ended lists nothing more, nor does what a step that has
\* started depends on.
LEMMA EndedStays ==
  ASSUME TypeOK, [Next]_vars, NEW s \in Steps, Ended(s)
  PROVE  status'[s] = status[s] /\ listed'[s] = listed[s]
BY StatusMoves, ListingMoves DEF Ended, Moves, Lists, running

LEMMA InputsSettled ==
  ASSUME TypeOK, StepsInOrder, [Next]_vars, NEW s \in Steps, status[s] # "pending",
         NEW d \in dependsOn[s]
  PROVE  Ended(d) /\ status'[d] = status[d] /\ listed'[d] = listed[d]
BY DependsTyped, EndedStays DEF StepsInOrder

LEMMA RolesSettled ==
  ASSUME TypeOK, [Next]_vars, Ended(CUSTOM_ROLES)
  PROVE  ofKind("iam_custom_role")' = ofKind("iam_custom_role")
<1>1. ASSUME NEW e \in entities', e \notin entities
      PROVE  e.kind # "iam_custom_role"
  <2>1. Added(e)
    BY <1>1, EntitiesAdded
  <2>2. ~running(CUSTOM_ROLES)
    BY DEF running, Ended
  <2> QED
    BY <2>1, <2>2 DEF Added, Entity, createApiServiceEntity
<1> QED
  BY <1>1, Kept DEF ofKind

LEMMA ToListShrinks ==
  ASSUME TypeOK, [Next]_vars, NEW s \in Steps, listed'[s] = listed[s], toList(s) = {},
         s = ROLE_SERVICES => Ended(CUSTOM_ROLES)
  PROVE  toList(s)' = {}
<1>1. cloud' = cloud /\ refused \subseteq refused'
  BY Kept
<1>2. s = ROLE_SERVICES => ofKind("iam_custom_role")' = ofKind("iam_custom_role")
  BY RolesSettled
<1> USE <1>1, <1>2, StepNames DEF Steps, toList, cutShort, calls
<1>3. CASE s = MANAGED_ROLES
  BY <1>3
<1>4. CASE s = API_SERVICES
  BY <1>4
<1>5. CASE s = CUSTOM_ROLES
  BY <1>5
<1>6. CASE s = SERVICE_ACCOUNTS
  BY <1>6
<1>7. CASE s = AUDIT_CONFIG
  BY <1>7
<1>8. CASE s = ROLE_SERVICES
  BY <1>8
<1>9. CASE s = PROJECT
  BY <1>9
<1> QED
  BY <1>3, <1>4, <1>5, <1>6, <1>7, <1>8, <1>9

LEMMA OrderStep ==
  ASSUME TypeOK, StepsInOrder, [Next]_vars
  PROVE  StepsInOrder'
<1> USE StepsNamed
<1> SUFFICES ASSUME NEW s \in Steps
             PROVE  /\ status'[s] # "pending" => \A d \in dependsOn[s] : Ended(d)'
                    /\ status'[s] = "pending" => listed'[s] = {}
                    /\ status'[s] = "success" => Complete(s)'
  BY DEF StepsInOrder, Complete
<1>1. Moves(s) /\ Lists(s)
  BY StatusMoves, ListingMoves
<1>2. ASSUME status'[s] # "pending"
      PROVE  \A d \in dependsOn[s] : Ended(d)'
  <2>1. \A d \in dependsOn[s] : Ended(d)
    BY <1>1, <1>2 DEF StepsInOrder, Moves, running
  <2> QED
    BY <2>1, DependsTyped, EndedStays DEF Ended
<1>3. ASSUME status'[s] = "pending"
      PROVE  listed'[s] = {}
  BY <1>1, <1>3 DEF StepsInOrder, Moves, Lists, running
<1>4. ASSUME status'[s] = "success"
      PROVE  Complete(s)'
  <2>1. Complete(s) /\ listed'[s] = listed[s] /\ status[s] # "pending"
    BY <1>1, <1>4 DEF StepsInOrder, Moves, Lists, running, Complete
  <2>2. s = ROLE_SERVICES => Ended(CUSTOM_ROLES)
    BY <2>1, Dependencies DEF StepsInOrder
  <2>3. s = API_SERVICES => projectEntity' = projectEntity
    <3>1. s = API_SERVICES => Ended(PROJECT)
      BY <2>1, Dependencies DEF StepsInOrder
    <3> QED
      BY <3>1, DataSteps DEF DataMoves, Ended, running
  <2> QED
    BY <2>1, <2>2, <2>3, ToListShrinks DEF Complete
<1> QED
  BY <1>2, <1>3, <1>4

LEMMA ListedTypedStep ==
  ASSUME TypeOK, ListedTyped, [Next]_vars
  PROVE  ListedTyped'
<1>1. ofKind("iam_custom_role") \subseteq ofKind("iam_custom_role")'
  BY Kept DEF ofKind
<1>2. cloud' = cloud /\ \A s \in Steps : Lists(s)
  BY Kept, ListingMoves
<1>3. \A s \in Steps : listed'[s] \subseteq listed[s] \cup listable(s)
  BY <1>2 DEF Lists
<1>4. /\ listable(MANAGED_ROLES) = DOMAIN cloud.managedRoles
      /\ listable(API_SERVICES) = cloud.enabled
      /\ listable(CUSTOM_ROLES) = cloud.customRoles
      /\ listable(SERVICE_ACCOUNTS) = DOMAIN cloud.accounts
      /\ listable(AUDIT_CONFIG) = cloud.auditConfigs
      /\ listable(ROLE_SERVICES) = ofKind("iam_custom_role")
  BY StepNames DEF listable
<1> QED
  BY <1>1, <1>2, <1>3, <1>4, StepsNamed DEF ListedTyped

\* What stays is told by what the operators see of the configuration.
LEMMA Fixed ==
  ASSUME [Next]_vars
  PROVE  /\ \A a : keysOf(a)' = keysOf(a)
         /\ projectId' = projectId
         /\ \A role, n : roleLink(role, n)' = roleLink(role, n)
         /\ buildPermissionsByApiServiceMap(DOMAIN cloud.managedRoles)'
              = buildPermissionsByApiServiceMap(DOMAIN cloud.managedRoles)
<1>1. cloud' = cloud
  BY Kept
<1> QED
  BY <1>1 DEF keysOf, projectId, roleLink, buildPermissionsByApiServiceMap, includedPermissions

LEMMA ListedGrows ==
  ASSUME TypeOK, [Next]_vars, NEW s \in Steps
  PROVE  listed[s] \subseteq listed'[s]
BY ListingMoves DEF Lists

LEMMA EntitiesStep ==
  ASSUME TypeOK, ListedTyped, EntitiesListed, SeenRight, [Next]_vars
  PROVE  EntitiesListed'
<1> USE StepsNamed, ListedGrows
<1>1. ASSUME NEW e \in entities
      PROVE  isEntity(e)'
  BY Fixed DEF EntitiesListed, isEntity, isService, createApiServiceEntity, createIamRoleEntity,
               Entity, projectKey, auditKey, getServiceApiEntityKey
<1>2. ASSUME NEW e \in entities', e \notin entities
      PROVE  isEntity(e)'
  <2>1. Added(e)
    BY <1>2, EntitiesAdded
  <2>2. ASSUME NEW n \in listed'[API_SERVICES], NEW p \in BOOLEAN, NEW a \in BOOLEAN,
               e = createApiServiceEntity(n, p, a)
        PROVE  isEntity(e)'
    BY <2>2 DEF isEntity, isService, createApiServiceEntity, getServiceApiEntityKey
  <2>3. CASE \E n \in listed'[API_SERVICES] :
               e = createApiServiceEntity(n, n \in buildPermissionsByApiServiceMap(managedRoles),
                                          n \in auditableServices)
    <3>1. PICK n \in listed'[API_SERVICES] :
                 e = createApiServiceEntity(n, n \in buildPermissionsByApiServiceMap(managedRoles),
                                            n \in auditableServices)
      BY <2>3
    <3>2. /\ (n \in buildPermissionsByApiServiceMap(managedRoles)) \in BOOLEAN
          /\ (n \in auditableServices) \in BOOLEAN
      OBVIOUS
    <3> QED
      BY <2>2, <3>1, <3>2
  <2>4. CASE \/ e = Entity("project", projectKey)
             \/ \E role \in listed'[CUSTOM_ROLES] : e = createIamRoleEntity(role)
             \/ \E a \in listed'[SERVICE_ACCOUNTS] :
                  \/ e = Entity("iam_service_account", <<a>>)
                  \/ \E k \in keysOf(a) : e = Entity("iam_service_account_key", k)
             \/ \E config \in listed'[AUDIT_CONFIG] : e = Entity("audit_config", auditKey(config))
    BY <2>4, Fixed DEF isEntity, createIamRoleEntity, Entity, projectKey, auditKey
  <2> QED
    BY <2>1, <2>3, <2>4 DEF Added
<1>3. Handled /\ entities \subseteq entities'
  BY ListedHandled, Kept
<1>4. \A n \in listed'[API_SERVICES] : \E e \in entities' : e.key = getServiceApiEntityKey(Own, n)
  BY <1>3 DEF Handled, EntitiesListed, findEntity
<1>5. \A role \in listed'[CUSTOM_ROLES] : createIamRoleEntity(role) \in entities'
  BY <1>3 DEF Handled, EntitiesListed
<1>6. \A a \in listed'[SERVICE_ACCOUNTS] : Entity("iam_service_account", <<a>>) \in entities'
  BY <1>3 DEF Handled, EntitiesListed
<1>7. \A config \in listed'[AUDIT_CONFIG] : Entity("audit_config", auditKey(config)) \in entities'
  BY <1>3 DEF Handled, EntitiesListed
<1> QED
  BY <1>1, <1>2, <1>4, <1>5, <1>6, <1>7 DEF EntitiesListed, findEntity

\* What the steps that relate look up no longer changes once they have started.
LEMMA FoundSettled ==
  ASSUME TypeOK, StepsInOrder, EntitiesListed, EntitiesListed', [Next]_vars
  PROVE  /\ status[ROLE_SERVICES] # "pending" => \A pid, n :
              findEntity(getServiceApiEntityKey(pid, n))' # {}
                <=> findEntity(getServiceApiEntityKey(pid, n)) # {}
         /\ status[AUDIT_CONFIG] # "pending" =>
              /\ \A config : isServiceFound(config)' <=> isServiceFound(config)
              /\ \A key, m : allows(key, m)' = allows(key, m)
<1>1. FoundIfListed /\ FoundIfListed'
  BY FoundListed, FoundListedAfter
<1>2. status[ROLE_SERVICES] # "pending" => listed'[API_SERVICES] = listed[API_SERVICES]
  BY StepsNamed, Dependencies, InputsSettled
<1>3. status[AUDIT_CONFIG] # "pending" => /\ listed'[API_SERVICES] = listed[API_SERVICES]
                                          /\ listed'[SERVICE_ACCOUNTS] = listed[SERVICE_ACCOUNTS]
  BY StepsNamed, Dependencies, InputsSettled
<1>4. ASSUME status[AUDIT_CONFIG] # "pending", NEW key, NEW m
      PROVE  allows(key, m)' = allows(key, m)
  <2>1. m.type = "serviceAccount" =>
          (findEntity(target(m))' # {} <=> findEntity(target(m)) # {})
    BY <1>1, <1>3, <1>4 DEF target, FoundIfListed
  <2> QED
    BY <2>1 DEF allows, target
<1>5. ASSUME status[AUDIT_CONFIG] # "pending", NEW config
      PROVE  isServiceFound(config)' <=> isServiceFound(config)
  BY <1>1, <1>3, <1>5 DEF isServiceFound, FoundIfListed
<1>6. ASSUME status[ROLE_SERVICES] # "pending", NEW pid, NEW n
      PROVE  findEntity(getServiceApiEntityKey(pid, n))' # {}
               <=> findEntity(getServiceApiEntityKey(pid, n)) # {}
  BY <1>1, <1>2, <1>6 DEF FoundIfListed
<1> QED
  BY <1>4, <1>5, <1>6

\* A step that has listed something has started.
LEMMA ListingStarted ==
  ASSUME TypeOK, StepsInOrder, [Next]_vars, NEW s \in Steps, listed'[s] # {}
  PROVE  status[s] # "pending"
BY ListingMoves DEF StepsInOrder, Lists, running

LEMMA RoleLinkKept ==
  ASSUME [Next]_vars, NEW x, isRoleLink(x)
  PROVE  isRoleLink(x)'
<1>1. PICK role \in ofKind("iam_custom_role") : \E n \in granted(role) :
        findEntity(getServiceApiEntityKey(projectId, n)) # {} /\ x = roleLink(role, n)
  BY DEF isRoleLink
<1>2. PICK n \in granted(role) :
        findEntity(getServiceApiEntityKey(projectId, n)) # {} /\ x = roleLink(role, n)
  BY <1>1
<1>3. role \in ofKind("iam_custom_role")'
  BY Kept DEF ofKind
<1>4. findEntity(getServiceApiEntityKey(projectId, n))' # {}
  BY <1>2, Kept, Fixed DEF findEntity
<1>5. x = roleLink(role, n)'
  BY <1>2, Fixed
<1> QED
  BY <1>3, <1>4, <1>5 DEF isRoleLink, granted, getUniqueFullServiceApiNamesFromRole

LEMMA AuditLinkKept ==
  ASSUME TypeOK, StepsInOrder, EntitiesListed, EntitiesListed', [Next]_vars,
         NEW x, NEW config \in listed'[AUDIT_CONFIG],
         \/ isServiceFound(config) /\ x = usesLink(config)
         \/ \E m \in config.exempted : m.type \in entityTypes /\ x = allows(auditKey(config), m)
  PROVE  isAuditLink(x)'
<1>1. status[AUDIT_CONFIG] # "pending"
  BY StepsNamed, ListingStarted
<1>2. CASE isServiceFound(config) /\ x = usesLink(config)
  <2>1. isServiceFound(config)' /\ x = usesLink(config)'
    BY <1>1, <1>2, FoundSettled DEF usesLink, auditKey, getServiceApiEntityKey
  <2> QED
    BY <2>1 DEF isAuditLink
<1>3. CASE \E m \in config.exempted : m.type \in entityTypes /\ x = allows(auditKey(config), m)
  <2>1. PICK m \in config.exempted : m.type \in entityTypes /\ x = allows(auditKey(config), m)
    BY <1>3
  <2>2. \A key : allows(key, m)' = allows(key, m)
    BY <1>1, FoundSettled
  <2>3. x = allows(auditKey(config), m)'
    BY <2>1, <2>2 DEF auditKey
  <2> QED
    BY <2>1, <2>3 DEF isAuditLink, entityTypes
<1> QED
  BY <1>2, <1>3

LEMMA RelationshipsStep ==
  ASSUME TypeOK, StepsInOrder, ListedTyped, EntitiesListed, EntitiesListed', Related, SeenRight,
         [Next]_vars
  PROVE  \A x \in relationships' : isRelationship(x)'
<1> USE StepsNamed, ListedGrows
<1>1. ASSUME NEW x, isRelationship(x)
      PROVE  isRelationship(x)'
  <2>1. CASE \E n \in listed[API_SERVICES] : x = has(projectKey, getServiceApiEntityKey(Own, n))
    BY <2>1 DEF isRelationship, has, Relationship, projectKey, getServiceApiEntityKey
  <2>2. CASE isRoleLink(x)
    BY <2>2, RoleLinkKept DEF isRelationship
  <2>3. CASE \E a \in listed[SERVICE_ACCOUNTS] : \E k \in keysOf(a) : x = has(<<a>>, k)
    BY <2>3, Fixed DEF isRelationship, has, Relationship
  <2>4. CASE isAuditLink(x)
    BY <2>4, AuditLinkKept DEF isRelationship, isAuditLink
  <2> QED
    BY <1>1, <2>1, <2>2, <2>3, <2>4 DEF isRelationship
<1>2. ASSUME NEW x \in relationships', x \notin relationships
      PROVE  isRelationship(x)'
  <2>1. NewRelationship(x)
    BY <1>2, RelationshipsAdded
  <2>2. CASE \E n \in listed'[API_SERVICES] : x = has(projectKey, getServiceApiEntityKey(Own, n))
    BY <2>2 DEF isRelationship, has, Relationship, projectKey, getServiceApiEntityKey
  <2>3. CASE isRoleLink(x)
    BY <2>3, RoleLinkKept DEF isRelationship
  <2>4. CASE \E a \in listed'[SERVICE_ACCOUNTS] : \E k \in keysOf(a) : x = has(<<a>>, k)
    BY <2>4, Fixed DEF isRelationship, has, Relationship
  <2>5. CASE \E config \in listed'[AUDIT_CONFIG] :
               \/ isServiceFound(config) /\ x = usesLink(config)
               \/ \E m \in config.exempted :
                    m.type \in entityTypes /\ x = allows(auditKey(config), m)
    BY <2>5, AuditLinkKept DEF isRelationship
  <2> QED
    BY <2>1, <2>2, <2>3, <2>4, <2>5 DEF NewRelationship
<1> QED
  BY <1>1, <1>2 DEF Related

LEMMA KeysRelatedStep ==
  ASSUME TypeOK, ListedTyped, EntitiesListed, Related, SeenRight, [Next]_vars
  PROVE  KeysRelated'
<1> SUFFICES ASSUME status'[SERVICE_ACCOUNTS] # "failure", NEW a \in listed'[SERVICE_ACCOUNTS],
                    <<SERVICE_ACCOUNTS, a>> \notin refused', NEW k \in keysOf(a)
             PROVE  has(<<a>>, k) \in relationships' /\ \E e \in entities' : e.key = k
  BY Fixed DEF KeysRelated, cutShort, findEntity, has, Relationship
<1>1. CASE a \in listed[SERVICE_ACCOUNTS]
  <2>1. status[SERVICE_ACCOUNTS] # "failure"
    BY StepsNamed, EndedStays DEF Ended
  <2>2. has(<<a>>, k) \in relationships /\ findEntity(k) # {}
    BY <1>1, <2>1, Kept DEF Related, KeysRelated, cutShort
  <2> QED
    BY <2>2, Kept DEF findEntity
<1>2. CASE a \notin listed[SERVICE_ACCOUNTS]
  <2>1. has(<<a>>, k) \in relationships' /\ Entity("iam_service_account_key", k) \in entities'
    BY <1>2, ListedHandled DEF Handled
  <2> QED
    BY <2>1 DEF Entity
<1> QED
  BY <1>1, <1>2

LEMMA RolesRelatedStep ==
  ASSUME TypeOK, StepsInOrder, ListedTyped, EntitiesListed, EntitiesListed', Related, SeenRight,
         [Next]_vars
  PROVE  RolesRelated'
<1> SUFFICES ASSUME NEW role \in listed'[ROLE_SERVICES], NEW n \in granted(role),
                    findEntity(getServiceApiEntityKey(projectId, n))' # {}
             PROVE  roleLink(role, n) \in relationships'
  BY Fixed DEF RolesRelated, granted, getUniqueFullServiceApiNamesFromRole
<1>1. status[ROLE_SERVICES] # "pending"
  BY StepsNamed, ListingStarted
<1>2. findEntity(getServiceApiEntityKey(projectId, n)) # {}
  <2>1. findEntity(getServiceApiEntityKey(projectId, n))'
          = {e \in entities' : e.key = getServiceApiEntityKey(projectId, n)}
    BY Fixed DEF findEntity, getServiceApiEntityKey
  <2>2. \A pid : {e \in entities' : e.key = getServiceApiEntityKey(pid, n)} # {}
                   <=> findEntity(getServiceApiEntityKey(pid, n)) # {}
    BY <1>1, FoundSettled DEF findEntity, getServiceApiEntityKey
  <2> QED
    BY <2>1, <2>2
<1> QED
  BY <1>2, ListedHandled, Kept DEF Handled, Related, RolesRelated

LEMMA ConfigsRelatedStep ==
  ASSUME TypeOK, StepsInOrder, ListedTyped, EntitiesListed, EntitiesListed', Related, SeenRight,
         [Next]_vars
  PROVE  ConfigsRelated'
<1> SUFFICES ASSUME NEW config \in listed'[AUDIT_CONFIG]
             PROVE  /\ isServiceFound(config)' => usesLink(config) \in relationships'
                    /\ status'[AUDIT_CONFIG] # "failure" =>
                         \A m \in config.exempted : m.type \in entityTypes =>
                           allows(auditKey(config), m)' \in relationships'
  BY DEF ConfigsRelated, usesLink, auditKey, getServiceApiEntityKey, entityTypes
<1>1. status[AUDIT_CONFIG] # "pending"
  BY StepsNamed, ListingStarted
<1>2. isServiceFound(config)' <=> isServiceFound(config)
  BY <1>1, FoundSettled
<1>3. \A m : allows(auditKey(config), m)' = allows(auditKey(config), m)
  <2>1. \A key, m : allows(key, m)' = allows(key, m)
    BY <1>1, FoundSettled
  <2> QED
    BY <2>1 DEF auditKey
<1>4. CASE config \in listed[AUDIT_CONFIG]
  <2>1. status'[AUDIT_CONFIG] # "failure" => status[AUDIT_CONFIG] # "failure"
    BY StepsNamed, EndedStays DEF Ended
  <2> QED
    BY <1>2, <1>3, <1>4, <2>1, Kept DEF Related, ConfigsRelated
<1>5. CASE config \notin listed[AUDIT_CONFIG]
  BY <1>2, <1>3, <1>5, ListedHandled DEF Handled
<1> QED
  BY <1>4, <1>5

LEMMA RelatedStep ==
  ASSUME TypeOK, StepsInOrder, ListedTyped, EntitiesListed, EntitiesListed', Related, SeenRight,
         [Next]_vars
  PROVE  Related'
BY RelationshipsStep, KeysRelatedStep, RolesRelatedStep, ConfigsRelatedStep DEF Related

LEMMA SeenAdded ==
  ASSUME TypeOK, [Next]_vars, NEW key \in DOMAIN serviceApiEntityKeySeenMap'
  PROVE  \/ /\ key \in DOMAIN serviceApiEntityKeySeenMap
            /\ serviceApiEntityKeySeenMap'[key] = serviceApiEntityKeySeenMap[key]
         \/ /\ serviceApiEntityKeySeenMap'[key] = isFound(key)
            /\ \E e \in listed'[ROLE_SERVICES] : \E n \in granted(e) :
                 key = getServiceApiEntityKey(projectId, n)
<1> DEFINE Goal == \/ /\ key \in DOMAIN serviceApiEntityKeySeenMap
                      /\ serviceApiEntityKeySeenMap'[key] = serviceApiEntityKeySeenMap[key]
                   \/ /\ serviceApiEntityKeySeenMap'[key] = isFound(key)
                      /\ \E e \in listed'[ROLE_SERVICES] : \E n \in granted(e) :
                           key = getServiceApiEntityKey(projectId, n)
<1> SUFFICES Goal
  OBVIOUS
<1> USE StepNames, StepsNamed DEF TypeOK, jobState, locals
<1>1. ASSUME NEW s \in Steps, Start(s)
      PROVE  Goal
  BY <1>1 DEF Start
<1>2. ASSUME NEW s \in Steps, Fail(s)
      PROVE  Goal
  BY <1>2 DEF Fail
<1>3. ASSUME NEW s \in Steps, Finish(s)
      PROVE  Goal
  BY <1>3 DEF Finish
<1>4. ASSUME NEW s \in Steps, NEW call \in calls(s), Refuse(s, call)
      PROVE  Goal
  BY <1>4 DEF Refuse
<1>5. ASSUME FetchProject
      PROVE  Goal
  BY <1>5 DEF FetchProject
<1>6. ASSUME NEW role \in DOMAIN cloud.managedRoles, FetchManagedRole(role)
      PROVE  Goal
  BY <1>6 DEF FetchManagedRole, List
<1>7. ASSUME StoreManagedRoles
      PROVE  Goal
  BY <1>7 DEF StoreManagedRoles
<1>8. ASSUME LeaveOutServices
      PROVE  Goal
  BY <1>8 DEF LeaveOutServices
<1>9. ASSUME AbortWithoutManagedRoles
      PROVE  Goal
  BY <1>9 DEF AbortWithoutManagedRoles
<1>10. ASSUME NEW refusal \in BOOLEAN, CollectAuditableServices(refusal)
      PROVE  Goal
  BY <1>10 DEF CollectAuditableServices
<1>11. ASSUME NEW name \in cloud.enabled, FetchApiService(name)
      PROVE  Goal
  BY <1>11 DEF FetchApiService
<1>12. ASSUME NEW role \in cloud.customRoles, FetchCustomRole(role)
      PROVE  Goal
  BY <1>12 DEF FetchCustomRole, List
<1>13. ASSUME NEW e \in ofKind("iam_custom_role"), BuildCustomRoleServices(e)
      PROVE  Goal
  BY <1>13 DEF BuildCustomRoleServices, List, granted
<1>14. ASSUME NEW account \in DOMAIN cloud.accounts, NEW outcome \in {"listed", "refused", "failed"},
             FetchServiceAccount(account, outcome)
      PROVE  Goal
  BY <1>14 DEF FetchServiceAccount, List
<1>15. ASSUME NEW config \in cloud.auditConfigs, NEW members \in SUBSET config.exempted,
             FetchAuditConfig(config, members)
      PROVE  Goal
  BY <1>15 DEF FetchAuditConfig, List
<1>16. ASSUME UNCHANGED vars
      PROVE  Goal
  BY <1>16 DEF vars
<1> QED
  BY <1>1, <1>2, <1>3, <1>4, <1>5, <1>6, <1>7, <1>8, <1>9, <1>10, <1>11,
     <1>12, <1>13, <1>14, <1>15, <1>16 DEF Next

LEMMA SeenStep ==
  ASSUME TypeOK, StepsInOrder, EntitiesListed, EntitiesListed', SeenRight, [Next]_vars
  PROVE  SeenRight'
<1> SUFFICES ASSUME NEW key \in DOMAIN serviceApiEntityKeySeenMap'
             PROVE  /\ \E role \in listed'[ROLE_SERVICES] : \E n \in granted(role) :
                         key = getServiceApiEntityKey(projectId, n)
                    /\ serviceApiEntityKeySeenMap'[key] = isFound(key)'
  BY Fixed DEF SeenRight, granted, getUniqueFullServiceApiNamesFromRole, getServiceApiEntityKey
<1>1. serviceApiEntityKeySeenMap'[key] = isFound(key)
  BY SeenAdded DEF SeenRight
<1>2. PICK role \in listed'[ROLE_SERVICES] : \E n \in granted(role) :
        key = getServiceApiEntityKey(projectId, n)
  BY SeenAdded, StepsNamed, ListedGrows DEF SeenRight
<1>3. PICK n \in granted(role) : key = getServiceApiEntityKey(projectId, n)
  BY <1>2
<1>4. \E pid : key = getServiceApiEntityKey(pid, n)
  BY <1>3
<1>5. status[ROLE_SERVICES] # "pending"
  BY StepsNamed, ListingStarted
<1>6. isFound(key)' = isFound(key)
  <2>1. PICK pid : key = getServiceApiEntityKey(pid, n)
    BY <1>4
  <2>2. findEntity(getServiceApiEntityKey(pid, n))' # {}
          <=> findEntity(getServiceApiEntityKey(pid, n)) # {}
    BY <1>5, FoundSettled
  <2> QED
    BY <2>1, <2>2 DEF isFound, findEntity, getServiceApiEntityKey
<1> QED
  BY <1>1, <1>2, <1>6

LEMMA DataStep ==
  ASSUME TypeOK, DataHanded, [Next]_vars
  PROVE  DataHanded'
<1> USE StepsNamed
<1>1. DataMoves /\ Moves(MANAGED_ROLES) /\ Lists(MANAGED_ROLES)
  BY DataSteps, StatusMoves, ListingMoves
<1>2. cloud' = cloud /\ entities \subseteq entities' /\ refused \subseteq refused'
  BY Kept
<1>3. projectEntity' => Entity("project", projectKey) \in entities'
  BY <1>1, <1>2 DEF DataHanded, DataMoves
<1>4. status'[MANAGED_ROLES] = "success" => managedRoles' = listed'[MANAGED_ROLES]
  BY <1>1, EndedStays DEF DataHanded, DataMoves, Ended
<1>5. managedRoles' # None => status'[MANAGED_ROLES] = "success"
  BY <1>1, EndedStays DEF DataHanded, DataMoves, Ended
<1>6. managedRoles # None => managedRoles' = managedRoles
  BY <1>1 DEF DataHanded, DataMoves, running
<1>7. projectEntity => projectEntity'
  BY <1>1 DEF DataMoves
<1>8. auditableServices' # None =>
        /\ managedRoles' # None /\ projectEntity'
        /\ \/ auditableServices' = cloud.auditable
           \/ auditableServices' = {} /\ cutShort(API_SERVICES, "auditable")'
  BY <1>1, <1>2, <1>6, <1>7 DEF DataHanded, DataMoves, cutShort
<1> QED
  BY <1>2, <1>3, <1>4, <1>5, <1>8 DEF DataHanded, Entity, projectKey

\* What is said of a new service is what the data of the two other calls say.
LEMMA NewService ==
  ASSUME TypeOK, StepsInOrder, ListedTyped, DataHanded, auditableServices # None, NEW n
  PROVE  /\ \/ n \in buildPermissionsByApiServiceMap(managedRoles)
            \/ cutShort(MANAGED_ROLES, "list")
            \/ n \notin buildPermissionsByApiServiceMap(DOMAIN cloud.managedRoles)
         /\ \/ n \in auditableServices
            \/ cutShort(API_SERVICES, "auditable")
            \/ n \notin cloud.auditable
<1>1. status[MANAGED_ROLES] = "success" /\ managedRoles = listed[MANAGED_ROLES]
  BY DEF DataHanded
<1>2. toList(MANAGED_ROLES) = {}
  BY <1>1, StepNames, StepsNamed DEF StepsInOrder
<1>3. toList(MANAGED_ROLES)
        = {r \in DOMAIN cloud.managedRoles : ~cutShort(MANAGED_ROLES, "list")}
            \ listed[MANAGED_ROLES]
  BY StepNames DEF toList
<1>4. cutShort(MANAGED_ROLES, "list") \/ managedRoles = DOMAIN cloud.managedRoles
  BY <1>1, <1>2, <1>3 DEF ListedTyped
<1> QED
  BY <1>4 DEF DataHanded

LEMMA ServicesStep ==
  ASSUME TypeOK, StepsInOrder, ListedTyped, DataHanded, ServicesTrue, [Next]_vars
  PROVE  ServicesTrue'
<1> SUFFICES ASSUME NEW e \in entities', e.kind = "api_service"
             PROVE  /\ \/ e.hasIamPermissions
                       \/ cutShort(MANAGED_ROLES, "list")
                       \/ e.key[4] \notin buildPermissionsByApiServiceMap(DOMAIN cloud.managedRoles)
                    /\ e.auditable \/ cutShort(API_SERVICES, "auditable") \/ e.key[4] \notin cloud.auditable
  BY Kept, Fixed DEF ServicesTrue, ofKind, cutShort
<1>1. CASE e \in entities
  BY <1>1 DEF ServicesTrue, ofKind
<1>2. CASE e \notin entities
  <2>1. Added(e)
    BY <1>2, EntitiesAdded
  <2>2. PICK n \in listed'[API_SERVICES] :
          /\ auditableServices # None
          /\ e = createApiServiceEntity(n, n \in buildPermissionsByApiServiceMap(managedRoles),
                                        n \in auditableServices)
    BY <2>1 DEF Added, Entity, createIamRoleEntity
  <2>3. /\ e.hasIamPermissions = (n \in buildPermissionsByApiServiceMap(managedRoles))
        /\ e.auditable = (n \in auditableServices)
        /\ e.key = getServiceApiEntityKey(Own, n)
    BY <2>2 DEF createApiServiceEntity
  <2>4. e.key[4] = n
    BY <2>3, KeysApart
  <2> QED
    BY <2>2, <2>3, <2>4, NewService
<1> QED
  BY <1>1, <1>2


\* Why a step fails, or aborts the run. No service's key is taken before it is
\* listed.
FailsFor(s) ==
  status'[s] = "failure" =>
    \/ status[s] = "failure"
    \/ s \in failed' \/ s = PROJECT
    \/ s = API_SERVICES /\ aborted'
    \/ s = AUDIT_CONFIG /\ \E config \in listed'[s] : collide(config)

LEMMA FailureSteps ==
  ASSUME TypeOK, EntitiesListed, [Next]_vars
  PROVE  \A s \in Steps : FailsFor(s)
<1> USE StepNames, StepsNamed DEF TypeOK, FailsFor, jobState, locals, succeeds, fails
<1>1. ASSUME NEW s \in Steps, Start(s)
      PROVE  \A t \in Steps : FailsFor(t)
  BY <1>1 DEF Start
<1>2. ASSUME NEW s \in Steps, Fail(s)
      PROVE  \A t \in Steps : FailsFor(t)
  BY <1>2 DEF Fail
<1>3. ASSUME NEW s \in Steps, Finish(s)
      PROVE  \A t \in Steps : FailsFor(t)
  BY <1>3 DEF Finish
<1>4. ASSUME NEW s \in Steps, NEW call \in calls(s), Refuse(s, call)
      PROVE  \A t \in Steps : FailsFor(t)
  BY <1>4 DEF Refuse
<1>5. ASSUME FetchProject
      PROVE  \A t \in Steps : FailsFor(t)
  BY <1>5 DEF FetchProject
<1>6. ASSUME NEW role \in DOMAIN cloud.managedRoles, FetchManagedRole(role)
      PROVE  \A t \in Steps : FailsFor(t)
  BY <1>6 DEF FetchManagedRole, List
<1>7. ASSUME StoreManagedRoles
      PROVE  \A t \in Steps : FailsFor(t)
  BY <1>7 DEF StoreManagedRoles
<1>8. ASSUME LeaveOutServices
      PROVE  \A t \in Steps : FailsFor(t)
  BY <1>8 DEF LeaveOutServices
<1>9. ASSUME AbortWithoutManagedRoles
      PROVE  \A t \in Steps : FailsFor(t)
  BY <1>9 DEF AbortWithoutManagedRoles
<1>10. ASSUME NEW refusal \in BOOLEAN, CollectAuditableServices(refusal)
      PROVE  \A t \in Steps : FailsFor(t)
  BY <1>10 DEF CollectAuditableServices
<1>11. ASSUME NEW name \in cloud.enabled, FetchApiService(name)
      PROVE  \A t \in Steps : FailsFor(t)
  <2> DEFINE e == createApiServiceEntity(name, name \in buildPermissionsByApiServiceMap(managedRoles),
                                         name \in auditableServices)
  <2>1. e.key = getServiceApiEntityKey(Own, name)
    BY EntityFields
  <2>2. findEntity(e.key) # {} => name \in listed[API_SERVICES]
    BY <2>1, FoundListed DEF FoundIfListed
  <2>3. status' = status \/ (~seen(name) /\ findEntity(e.key) # {})
    BY <1>11 DEF FetchApiService
  <2> HIDE DEF e
  <2> QED
    BY <2>2, <2>3 DEF seen
<1>12. ASSUME NEW role \in cloud.customRoles, FetchCustomRole(role)
      PROVE  \A t \in Steps : FailsFor(t)
  BY <1>12 DEF FetchCustomRole, List
<1>13. ASSUME NEW e \in ofKind("iam_custom_role"), BuildCustomRoleServices(e)
      PROVE  \A t \in Steps : FailsFor(t)
  BY <1>13 DEF BuildCustomRoleServices, List
<1>14. ASSUME NEW account \in DOMAIN cloud.accounts, NEW outcome \in {"listed", "refused", "failed"},
             FetchServiceAccount(account, outcome)
      PROVE  \A t \in Steps : FailsFor(t)
  BY <1>14 DEF FetchServiceAccount, List
<1>15. ASSUME NEW config \in cloud.auditConfigs, NEW members \in SUBSET config.exempted,
             FetchAuditConfig(config, members)
      PROVE  \A t \in Steps : FailsFor(t)
  BY <1>15 DEF FetchAuditConfig, List
<1>16. ASSUME UNCHANGED vars
      PROVE  \A t \in Steps : FailsFor(t)
  BY <1>16 DEF vars
<1> QED
  BY <1>1, <1>2, <1>3, <1>4, <1>5, <1>6, <1>7, <1>8, <1>9, <1>10, <1>11,
     <1>12, <1>13, <1>14, <1>15, <1>16 DEF Next

LEMMA AbortSteps ==
  ASSUME TypeOK, [Next]_vars
  PROVE  /\ aborted' \in BOOLEAN /\ projectEntity' \in BOOLEAN /\ failed' \subseteq Steps
         /\ aborted' => aborted \/ (running(API_SERVICES) /\ managedRoles = None)
<1> USE StepsNamed DEF TypeOK, jobState, locals
<1>1. ASSUME NEW s \in Steps, Start(s)
      PROVE  /\ aborted' \in BOOLEAN /\ projectEntity' \in BOOLEAN /\ failed' \subseteq Steps
             /\ aborted' => aborted \/ (running(API_SERVICES) /\ managedRoles = None)
  BY <1>1 DEF Start
<1>2. ASSUME NEW s \in Steps, Fail(s)
      PROVE  /\ aborted' \in BOOLEAN /\ projectEntity' \in BOOLEAN /\ failed' \subseteq Steps
             /\ aborted' => aborted \/ (running(API_SERVICES) /\ managedRoles = None)
  BY <1>2 DEF Fail
<1>3. ASSUME NEW s \in Steps, Finish(s)
      PROVE  /\ aborted' \in BOOLEAN /\ projectEntity' \in BOOLEAN /\ failed' \subseteq Steps
             /\ aborted' => aborted \/ (running(API_SERVICES) /\ managedRoles = None)
  BY <1>3 DEF Finish
<1>4. ASSUME NEW s \in Steps, NEW call \in calls(s), Refuse(s, call)
      PROVE  /\ aborted' \in BOOLEAN /\ projectEntity' \in BOOLEAN /\ failed' \subseteq Steps
             /\ aborted' => aborted \/ (running(API_SERVICES) /\ managedRoles = None)
  BY <1>4 DEF Refuse
<1>5. ASSUME FetchProject
      PROVE  /\ aborted' \in BOOLEAN /\ projectEntity' \in BOOLEAN /\ failed' \subseteq Steps
             /\ aborted' => aborted \/ (running(API_SERVICES) /\ managedRoles = None)
  BY <1>5 DEF FetchProject
<1>6. ASSUME NEW role \in DOMAIN cloud.managedRoles, FetchManagedRole(role)
      PROVE  /\ aborted' \in BOOLEAN /\ projectEntity' \in BOOLEAN /\ failed' \subseteq Steps
             /\ aborted' => aborted \/ (running(API_SERVICES) /\ managedRoles = None)
  BY <1>6 DEF FetchManagedRole, List
<1>7. ASSUME StoreManagedRoles
      PROVE  /\ aborted' \in BOOLEAN /\ projectEntity' \in BOOLEAN /\ failed' \subseteq Steps
             /\ aborted' => aborted \/ (running(API_SERVICES) /\ managedRoles = None)
  BY <1>7 DEF StoreManagedRoles
<1>8. ASSUME LeaveOutServices
      PROVE  /\ aborted' \in BOOLEAN /\ projectEntity' \in BOOLEAN /\ failed' \subseteq Steps
             /\ aborted' => aborted \/ (running(API_SERVICES) /\ managedRoles = None)
  BY <1>8 DEF LeaveOutServices
<1>9. ASSUME AbortWithoutManagedRoles
      PROVE  /\ aborted' \in BOOLEAN /\ projectEntity' \in BOOLEAN /\ failed' \subseteq Steps
             /\ aborted' => aborted \/ (running(API_SERVICES) /\ managedRoles = None)
  BY <1>9 DEF AbortWithoutManagedRoles
<1>10. ASSUME NEW refusal \in BOOLEAN, CollectAuditableServices(refusal)
      PROVE  /\ aborted' \in BOOLEAN /\ projectEntity' \in BOOLEAN /\ failed' \subseteq Steps
             /\ aborted' => aborted \/ (running(API_SERVICES) /\ managedRoles = None)
  BY <1>10 DEF CollectAuditableServices
<1>11. ASSUME NEW name \in cloud.enabled, FetchApiService(name)
      PROVE  /\ aborted' \in BOOLEAN /\ projectEntity' \in BOOLEAN /\ failed' \subseteq Steps
             /\ aborted' => aborted \/ (running(API_SERVICES) /\ managedRoles = None)
  BY <1>11 DEF FetchApiService
<1>12. ASSUME NEW role \in cloud.customRoles, FetchCustomRole(role)
      PROVE  /\ aborted' \in BOOLEAN /\ projectEntity' \in BOOLEAN /\ failed' \subseteq Steps
             /\ aborted' => aborted \/ (running(API_SERVICES) /\ managedRoles = None)
  BY <1>12 DEF FetchCustomRole, List
<1>13. ASSUME NEW e \in ofKind("iam_custom_role"), BuildCustomRoleServices(e)
      PROVE  /\ aborted' \in BOOLEAN /\ projectEntity' \in BOOLEAN /\ failed' \subseteq Steps
             /\ aborted' => aborted \/ (running(API_SERVICES) /\ managedRoles = None)
  BY <1>13 DEF BuildCustomRoleServices, List
<1>14. ASSUME NEW account \in DOMAIN cloud.accounts, NEW outcome \in {"listed", "refused", "failed"},
             FetchServiceAccount(account, outcome)
      PROVE  /\ aborted' \in BOOLEAN /\ projectEntity' \in BOOLEAN /\ failed' \subseteq Steps
             /\ aborted' => aborted \/ (running(API_SERVICES) /\ managedRoles = None)
  BY <1>14 DEF FetchServiceAccount, List
<1>15. ASSUME NEW config \in cloud.auditConfigs, NEW members \in SUBSET config.exempted,
             FetchAuditConfig(config, members)
      PROVE  /\ aborted' \in BOOLEAN /\ projectEntity' \in BOOLEAN /\ failed' \subseteq Steps
             /\ aborted' => aborted \/ (running(API_SERVICES) /\ managedRoles = None)
  BY <1>15 DEF FetchAuditConfig, List
<1>16. ASSUME UNCHANGED vars
      PROVE  /\ aborted' \in BOOLEAN /\ projectEntity' \in BOOLEAN /\ failed' \subseteq Steps
             /\ aborted' => aborted \/ (running(API_SERVICES) /\ managedRoles = None)
  BY <1>16 DEF vars
<1> QED
  BY <1>1, <1>2, <1>3, <1>4, <1>5, <1>6, <1>7, <1>8, <1>9, <1>10, <1>11,
     <1>12, <1>13, <1>14, <1>15, <1>16 DEF Next

LEMMA FailuresStep ==
  ASSUME TypeOK, StepsInOrder, ListedTyped, EntitiesListed, DataHanded, FailuresExplained,
         [Next]_vars
  PROVE  FailuresExplained'
<1>1. ASSUME aborted'
      PROVE  MANAGED_ROLES \in failed'
  <2>1. CASE aborted
    BY <2>1, Kept DEF FailuresExplained
  <2>2. CASE running(API_SERVICES) /\ managedRoles = None
    <3>1. Ended(MANAGED_ROLES)
      BY <2>2, StepsNamed, Dependencies DEF StepsInOrder, running
    <3>2. listed[MANAGED_ROLES] # None
      BY IamAssumption DEF TypeOK, ListedTyped
    <3>3. status[MANAGED_ROLES] = "failure"
      BY <2>2, <3>1, <3>2 DEF DataHanded, Ended
    <3> QED
      BY <3>3, StepNames, StepsNamed, Kept DEF FailuresExplained
  <2> QED
    BY <1>1, <2>1, <2>2, AbortSteps
<1>2. ASSUME NEW s \in Steps, status'[s] = "failure"
      PROVE  \/ s \in failed' \/ s = PROJECT
             \/ s = API_SERVICES /\ aborted'
             \/ s = AUDIT_CONFIG /\ \E config \in listed'[s] : collide(config)
  BY <1>2, FailureSteps, ListedGrows, Kept DEF FailsFor, FailuresExplained
<1>3. \A config : collide(config)' <=> collide(config)
  BY DEF collide, target
<1> QED
  BY <1>1, <1>2, <1>3 DEF FailuresExplained

LEMMA TypeStep ==
  ASSUME TypeOK, StepsInOrder, ListedTyped, ListedTyped', EntitiesListed, EntitiesListed',
         SeenRight, SeenRight', DataHanded, DataHanded', StepsInOrder', [Next]_vars
  PROVE  TypeOK'
<1> USE StepsNamed
<1>1. cloud' \in Clouds
  BY Kept DEF TypeOK
<1>2. \A e \in entities' : {"kind", "key"} \subseteq DOMAIN e
  BY DEF EntitiesListed, isEntity, isService, Entity, createIamRoleEntity, createApiServiceEntity
<1>3. ASSUME NEW x \in relationships'
      PROVE  x.mapped \in BOOLEAN /\ \E e \in entities' : e.key = x.from
  <2>1. CASE x \in relationships
    BY <2>1, Kept DEF TypeOK, findEntity
  <2>2. CASE x \notin relationships
    <3>1. NewRelationship(x)
      BY <2>2, RelationshipsAdded
    <3>2. CASE auditableServices # None /\ \E n : x = has(projectKey, getServiceApiEntityKey(Own, n))
      <4>1. Entity("project", projectKey) \in entities'
        BY <3>2, Kept DEF DataHanded
      <4> QED
        BY <3>2, <4>1 DEF has, Relationship, Entity
    <3>3. CASE isRoleLink(x)
      BY <3>3, Kept DEF isRoleLink, roleLink, has, Relationship, findEntity
    <3>4. CASE \E a \in listed'[SERVICE_ACCOUNTS] : \E k \in keysOf(a) : x = has(<<a>>, k)
      <4>1. PICK a \in listed'[SERVICE_ACCOUNTS] : \E k \in keysOf(a) : x = has(<<a>>, k)
        BY <3>4
      <4>2. Entity("iam_service_account", <<a>>) \in entities'
        BY DEF EntitiesListed
      <4> QED
        BY <4>1, <4>2 DEF has, Relationship, Entity
    <3>5. CASE \E config \in listed'[AUDIT_CONFIG] :
                 \/ isServiceFound(config) /\ x = usesLink(config)
                 \/ \E m \in config.exempted :
                      m.type \in entityTypes /\ x = allows(auditKey(config), m)
      <4>1. PICK config \in listed'[AUDIT_CONFIG] :
                 \/ isServiceFound(config) /\ x = usesLink(config)
                 \/ \E m \in config.exempted :
                      m.type \in entityTypes /\ x = allows(auditKey(config), m)
        BY <3>5
      <4>2. Entity("audit_config", auditKey(config)) \in entities'
        BY DEF EntitiesListed, Entity, auditKey
      <4>3. CASE isServiceFound(config) /\ x = usesLink(config)
        BY <4>3, Kept DEF isServiceFound, usesLink, Relationship, findEntity
      <4>4. CASE \E m \in config.exempted : x = allows(auditKey(config), m)
        BY <4>2, <4>4 DEF allows, Relationship, Entity
      <4> QED
        BY <4>1, <4>3, <4>4
    <3> QED
      BY <3>1, <3>2, <3>3, <3>4, <3>5 DEF NewRelationship
  <2> QED
    BY <2>1, <2>2
<1>4. \A x \in relationships' : x.mapped \in BOOLEAN /\ findEntity(x.from)' # {}
  BY <1>3 DEF findEntity
<1>5. managedRoles' = None \/ managedRoles' \subseteq DOMAIN cloud'.managedRoles
  BY DEF DataHanded, ListedTyped
<1>6. auditableServices' = None \/ auditableServices' \subseteq cloud'.auditable
  BY DEF DataHanded
<1>7. \A key \in DOMAIN serviceApiEntityKeySeenMap' : serviceApiEntityKeySeenMap'[key] \in BOOLEAN
  BY DEF SeenRight, isFound
<1> QED
  BY <1>1, <1>2, <1>4, <1>5, <1>6, <1>7, StatusMoves, ListingMoves, AbortSteps DEF TypeOK

LEMMA IInvStep == IInv /\ [Next]_vars => IInv'
<1> SUFFICES ASSUME IInv, [Next]_vars PROVE IInv'
  OBVIOUS
<1> USE DEF IInv
<1>1. StepsInOrder' /\ ListedTyped' /\ EntitiesListed'
  BY OrderStep, ListedTypedStep, EntitiesStep
<1>2. Related' /\ SeenRight' /\ DataHanded'
  BY <1>1, RelatedStep, SeenStep, DataStep
<1>3. ServicesTrue' /\ FailuresExplained'
  BY ServicesStep, FailuresStep
<1>4. TypeOK'
  BY <1>1, <1>2, TypeStep
<1> QED
  BY <1>1, <1>2, <1>3, <1>4

-----------------------------------------------------------------------------
(* The theorems                                                              *)

\* The invariant of the seven steps holds whatever they interleave.
THEOREM Invariance == Spec => []IInv
BY InitIInv, IInvStep, PTL DEF Spec

\* The state of the seven steps is always well typed.
THEOREM TypeCorrect == Spec => []TypeOK
BY Invariance, PTL DEF IInv

\* The only relationships from a service to a custom role are those of
\* createApiServiceEntityHasIamRoleRelationships.
LEMMA RoleLinksTold ==
  ASSUME IInv, NEW role \in ofKind("iam_custom_role"), NEW n,
         has(getServiceApiEntityKey(Own, n), role.key) \in relationships
  PROVE  /\ projectId = Own
         /\ n \in granted(role)
         /\ findEntity(getServiceApiEntityKey(Own, n)) # {}
<1> DEFINE key == getServiceApiEntityKey(Own, n)
           x == has(key, role.key)
<1> USE DEF IInv
<1>1. x.from = key /\ x.to = role.key /\ x.class = "HAS"
  BY DEF has, Relationship
<1>2. isRelationship(x)
  BY DEF Related
<1> HIDE DEF x
<1>3. ~\E m \in listed[API_SERVICES] : x = has(projectKey, getServiceApiEntityKey(Own, m))
  <2>1. key # projectKey
    BY KeysApart DEF projectKey
  <2> QED
    BY <1>1, <2>1 DEF has, Relationship
<1>4. ~\E a \in listed[SERVICE_ACCOUNTS] : \E k \in keysOf(a) : x = has(<<a>>, k)
  BY <1>1, KeysApart DEF has, Relationship
<1>5. ~isAuditLink(x)
  BY <1>1 DEF isAuditLink, usesLink, allows, Relationship
<1>6. isRoleLink(x)
  BY <1>2, <1>3, <1>4, <1>5 DEF isRelationship
<1>7. PICK other \in ofKind("iam_custom_role") : \E m \in granted(other) :
        findEntity(getServiceApiEntityKey(projectId, m)) # {} /\ x = roleLink(other, m)
  BY <1>6 DEF isRoleLink
<1>8. PICK m \in granted(other) :
        findEntity(getServiceApiEntityKey(projectId, m)) # {} /\ x = roleLink(other, m)
  BY <1>7
<1>9. other.key = role.key /\ getServiceApiEntityKey(projectId, m) = key
  BY <1>1, <1>8 DEF roleLink, has, Relationship
<1>10. other = role /\ projectId = Own /\ m = n
  BY <1>9, KeysApart, RolesTold
<1> QED
  BY <1>8, <1>10

\* A service is related to a custom role only if it was found and the role
\* includes a permission of its, and to each such role when the step succeeds
\* in an instance that is told its projectId (createApiServiceEntityHasIamRoleRelationships).
THEOREM CustomRolesAreRelated == Spec => []CustomRolesRelated
<1>1. IInv => CustomRolesRelated
  <2> SUFFICES ASSUME IInv, NEW role \in ofKind("iam_custom_role"), NEW name \in cloud.enabled
               PROVE  LET key == getServiceApiEntityKey(Own, name)
                          related == has(key, role.key) \in relationships
                      IN /\ related => findEntity(key) # {} /\ grants(role, name)
                         /\ status[ROLE_SERVICES] = "success" =>
                              (related <=> cloud.configured /\ findEntity(key) # {}
                                             /\ grants(role, name))
    BY DEF CustomRolesRelated
  <2> USE DEF IInv
  <2> DEFINE key == getServiceApiEntityKey(Own, name)
             related == has(key, role.key) \in relationships
  <2>1. related => /\ projectId = Own /\ grants(role, name) /\ findEntity(key) # {}
    BY RoleLinksTold DEF granted, grants
  <2>2. projectId = Own => cloud.configured
    BY IamAssumption DEF projectId
  <2>3. ASSUME status[ROLE_SERVICES] = "success", cloud.configured, findEntity(key) # {},
               grants(role, name)
        PROVE  related
    <3>1. toList(ROLE_SERVICES) = {}
      BY <2>3, StepNames, StepsNamed DEF StepsInOrder
    <3>2. role \in listed[ROLE_SERVICES]
      BY <3>1, StepNames DEF toList
    <3>3. projectId = Own
      BY <2>3 DEF projectId
    <3>4. name \in granted(role)
      BY <2>3 DEF granted, grants
    <3> QED
      BY <2>3, <3>2, <3>3, <3>4 DEF Related, RolesRelated, roleLink
  <2> QED
    BY <2>1, <2>2, <2>3
<1> QED
  BY <1>1, Invariance, PTL

\* What there is from the config of a service, and to it.
LEMMA AuditLinksTold ==
  ASSUME IInv, NEW config, NEW x \in relationships
  PROVE  /\ x.to = auditKey(config) => isServiceFound(config) /\ x = usesLink(config)
         /\ x.from = auditKey(config) =>
              \E m : x = allows(auditKey(config), m)
<1> USE DEF IInv
<1>1. isRelationship(x)
  BY DEF Related
<1>2. CASE \E n \in listed[API_SERVICES] : x = has(projectKey, getServiceApiEntityKey(Own, n))
  <2>1. x.from = projectKey /\ \E n : x.to = getServiceApiEntityKey(Own, n)
    BY <1>2 DEF has, Relationship
  <2> QED
    BY <2>1, KeysApart DEF auditKey, projectKey
<1>3. CASE isRoleLink(x)
  <2>1. PICK role \in ofKind("iam_custom_role") : \E n \in granted(role) : x = roleLink(role, n)
    BY <1>3 DEF isRoleLink
  <2>2. x.to = role.key /\ \E n : x.from = getServiceApiEntityKey(projectId, n)
    BY <2>1 DEF roleLink, has, Relationship
  <2>3. PICK r \in listed[CUSTOM_ROLES] : role = createIamRoleEntity(r)
    BY RolesTold
  <2>4. role.key = <<r.parent, r.name>> /\ r.parent \in {"projects", "organizations"}
    BY <2>3, IamAssumption DEF createIamRoleEntity, ListedTyped, TypeOK
  <2> QED
    BY <2>2, <2>4, KeysApart DEF auditKey
<1>4. CASE \E a \in listed[SERVICE_ACCOUNTS] : \E k \in keysOf(a) : x = has(<<a>>, k)
  <2>1. \E a : x.from = <<a>> /\ x.to \in keysOf(a)
    BY <1>4 DEF has, Relationship
  <2> QED
    BY <2>1, KeysApart DEF keysOf, auditKey
<1>5. CASE isAuditLink(x)
  <2>1. PICK c \in listed[AUDIT_CONFIG] :
          \/ isServiceFound(c) /\ x = usesLink(c)
          \/ \E m \in c.exempted : x = allows(auditKey(c), m)
    BY <1>5 DEF isAuditLink
  <2>2. auditKey(c) = auditKey(config) => c.service = config.service
    BY KeysApart DEF auditKey
  <2>3. CASE isServiceFound(c) /\ x = usesLink(c)
    <3>1. x.to = auditKey(c) /\ x.from = getServiceApiEntityKey(Own, c.service)
      BY <2>3 DEF usesLink, Relationship
    <3>2. x.from # auditKey(config)
      BY <3>1, KeysApart DEF auditKey
    <3> QED
      BY <2>2, <2>3, <3>1, <3>2 DEF isServiceFound, usesLink, auditKey
  <2>4. CASE \E m \in c.exempted : x = allows(auditKey(c), m)
    <3>1. PICK m \in c.exempted : x = allows(auditKey(c), m)
      BY <2>4
    <3>2. x.from = auditKey(c) /\ x.to = target(m)
      BY <3>1 DEF allows, Relationship
    <3>3. x.to # auditKey(config)
      BY <3>2 DEF target, auditKey
    <3> QED
      BY <3>1, <3>2, <3>3
  <2> QED
    BY <2>1, <2>3, <2>4
<1> QED
  BY <1>1, <1>2, <1>3, <1>4, <1>5 DEF isRelationship

\* The audit config of a service is related to that service, and each exempted
\* member once, to the account that was ingested if there is one; that of all
\* services is related to none (fetchIamPolicyAuditConfig).
THEOREM AuditConfigsAreRelated == Spec => []AuditConfigsRelated
<1>1. IInv => AuditConfigsRelated
  <2> SUFFICES ASSUME IInv, status[AUDIT_CONFIG] = "success", NEW config \in listed[AUDIT_CONFIG]
               PROVE  /\ {x \in relationships : x.to = auditKey(config)}
                           = {Relationship(s.key, "USES", auditKey(config), FALSE) :
                                s \in findEntity(getServiceApiEntityKey(Own, config.service))}
                      /\ \A m \in config.exempted : m.type \in entityTypes =>
                           \E mapped \in BOOLEAN :
                             /\ {x \in relationships : x.from = auditKey(config) /\ x.to = target(m)}
                                  = {Relationship(auditKey(config), "ALLOWS", target(m), mapped)}
                             /\ mapped <=> <<m.type, m.identifier>> \notin
                                  {<<"serviceAccount", account>> : account \in listed[SERVICE_ACCOUNTS]}
    BY DEF AuditConfigsRelated, auditKey
  <2> USE DEF IInv
  <2>1. {x \in relationships : x.to = auditKey(config)}
          = {Relationship(s.key, "USES", auditKey(config), FALSE) :
               s \in findEntity(getServiceApiEntityKey(Own, config.service))}
    <3>1. \A s \in findEntity(getServiceApiEntityKey(Own, config.service)) :
            Relationship(s.key, "USES", auditKey(config), FALSE) = usesLink(config)
      BY DEF findEntity, usesLink
    <3>2. isServiceFound(config) => usesLink(config) \in relationships
      BY DEF Related, ConfigsRelated
    <3>3. usesLink(config).to = auditKey(config)
      BY DEF usesLink, Relationship
    <3>4. \A x \in relationships : x.to = auditKey(config) =>
            isServiceFound(config) /\ x = usesLink(config)
      BY AuditLinksTold
    <3> QED
      BY <3>1, <3>2, <3>3, <3>4 DEF isServiceFound
  <2>2. ASSUME NEW m \in config.exempted, m.type \in entityTypes
        PROVE  \E mapped \in BOOLEAN :
                 /\ {x \in relationships : x.from = auditKey(config) /\ x.to = target(m)}
                      = {Relationship(auditKey(config), "ALLOWS", target(m), mapped)}
                 /\ mapped <=> <<m.type, m.identifier>> \notin
                      {<<"serviceAccount", account>> : account \in listed[SERVICE_ACCOUNTS]}
    <3> DEFINE mapped == ~(m.type = "serviceAccount" /\ findEntity(target(m)) # {})
    <3>1. allows(auditKey(config), m) = Relationship(auditKey(config), "ALLOWS", target(m), mapped)
      BY DEF allows
    <3>2. allows(auditKey(config), m) \in relationships
      BY <2>2 DEF Related, ConfigsRelated
    <3>3. ASSUME NEW x \in relationships, x.from = auditKey(config), x.to = target(m)
          PROVE  x = allows(auditKey(config), m)
      <4>1. PICK other : x = allows(auditKey(config), other)
        BY <3>3, AuditLinksTold
      <4>2. target(other) = target(m)
        BY <3>3, <4>1 DEF allows, Relationship
      <4>3. other.type = "serviceAccount" <=> m.type = "serviceAccount"
        BY <4>2 DEF target
      <4> QED
        BY <4>1, <4>2, <4>3 DEF allows
    <3>4. allows(auditKey(config), m).from = auditKey(config)
            /\ allows(auditKey(config), m).to = target(m)
      BY DEF allows, Relationship
    <3>5. {x \in relationships : x.from = auditKey(config) /\ x.to = target(m)}
            = {allows(auditKey(config), m)}
      BY <3>2, <3>3, <3>4
    <3>6. m.type = "serviceAccount" => (findEntity(target(m)) # {}
                                          <=> m.identifier \in listed[SERVICE_ACCOUNTS])
      BY FoundListed DEF FoundIfListed, target
    <3>7. mapped <=> <<m.type, m.identifier>> \notin
            {<<"serviceAccount", account>> : account \in listed[SERVICE_ACCOUNTS]}
      BY <3>6
    <3> HIDE DEF mapped
    <3> QED
      BY <3>1, <3>5, <3>7 
  <2> QED
    BY <2>1, <2>2
<1> QED
  BY <1>1, Invariance, PTL

\* What a step that succeeds has not added was refused, or there is no project.
LEMMA MissingExplained ==
  ASSUME IInv, NEW s \in Steps, status[s] = "success", missing(s) # {}
  PROVE  \/ \E call \in calls(s) : cutShort(s, call)
         \/ s = API_SERVICES /\ ~projectEntity
<1> USE StepNames, StepsNamed DEF IInv
<1>1. toList(s) = {} \/ s = PROJECT \/ (s = API_SERVICES /\ ~projectEntity)
  BY DEF StepsInOrder
<1>2. CASE s = API_SERVICES
  <2>1. PICK n \in cloud.enabled : findEntity(getServiceApiEntityKey(Own, n)) = {}
    BY <1>2 DEF missing
  <2>2. n \notin listed[API_SERVICES]
    BY <2>1 DEF EntitiesListed
  <2> QED
    BY <1>1, <1>2, <2>1, <2>2 DEF toList, calls
<1>3. CASE s = CUSTOM_ROLES
  <2>1. PICK r \in cloud.customRoles : r.parent \in calls(s) /\ createIamRoleEntity(r) \notin entities
    BY <1>3 DEF missing
  <2>2. r \notin listed[CUSTOM_ROLES]
    BY <2>1 DEF EntitiesListed
  <2> QED
    BY <1>1, <1>3, <2>1, <2>2 DEF toList
<1>4. CASE s = SERVICE_ACCOUNTS
  <2>1. PICK a \in DOMAIN cloud.accounts : findEntity(<<a>>) = {}
    BY <1>4 DEF missing
  <2>2. a \notin listed[SERVICE_ACCOUNTS]
    BY <2>1, FoundListed DEF FoundIfListed
  <2> QED
    BY <1>1, <1>4, <2>1, <2>2 DEF toList, calls
<1>5. CASE s = AUDIT_CONFIG
  <2>1. PICK config \in cloud.auditConfigs : findEntity(auditKey(config)) = {}
    BY <1>5 DEF missing, auditKey
  <2>2. Entity("audit_config", auditKey(config)).key = auditKey(config)
    BY DEF Entity
  <2>3. Entity("audit_config", auditKey(config)) \notin entities
    BY <2>1, <2>2 DEF findEntity
  <2>4. config \notin listed[AUDIT_CONFIG]
    BY <2>3 DEF EntitiesListed
  <2> QED
    BY <1>1, <1>5, <2>1, <2>4 DEF toList, calls
<1>6. CASE s \notin {API_SERVICES, CUSTOM_ROLES, SERVICE_ACCOUNTS, AUDIT_CONFIG}
  BY <1>6 DEF missing
<1> QED
  BY <1>2, <1>3, <1>4, <1>5, <1>6

\* Whatever is refused and in whatever order: what a step that succeeds leaves
\* out, or says wrongly of a service, goes back to a call that was refused; a
\* step fails, or aborts the run, for a call that failed, or for two members of
\* an audit config with one target.
THEOREM LossIsExplained == Spec => []LossExplained
<1>1. IInv => LossExplained
  <2> SUFFICES ASSUME IInv PROVE LossExplained
    OBVIOUS
  <2> USE DEF IInv
  <2>1. \A s \in Steps : status[s] = "success" /\ missing(s) # {} =>
          \/ \E call \in calls(s) : cutShort(s, call)
          \/ s = API_SERVICES /\ ~projectEntity
    BY MissingExplained
  <2>2. status[SERVICE_ACCOUNTS] = "success" =>
          \A a \in listed[SERVICE_ACCOUNTS] :
            \/ \A k \in keysOf(a) : has(<<a>>, k) \in relationships /\ findEntity(k) # {}
            \/ cutShort(SERVICE_ACCOUNTS, a)
    BY DEF Related, KeysRelated
  <2> QED
    BY <2>1, <2>2 DEF LossExplained, ServicesTrue, FailuresExplained
<1> QED
  BY <1>1, Invariance, PTL
===============================================================================
