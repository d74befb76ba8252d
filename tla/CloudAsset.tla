------------------------------ MODULE CloudAsset -------------------------------
(*****************************************************************************)
(* The IAM bindings of one instance and what is made of them:                *)
(* src/steps/cloud-asset index.ts and client.ts. The six steps make up graph *)
(* 'last': they run when the steps of the default graph are over, and what   *)
(* those have left in the job state no longer changes. One step lists the    *)
(* policies, at the scope of the project, of each folder and of the          *)
(* organization; the others iterate over the bindings it added, in the order *)
(* it added them, some at the same time.                                     *)
(*****************************************************************************)
EXTENDS Naturals, Sequences, FiniteSets

CONSTANTS
  Bindings,     \* the bindings of the policies
  KeyOf,        \* buildIamBindingEntityKey: two bindings may have one key
  Role,         \* the role of each, or None
  ResourceOf,   \* the resource whose policy it is in
  Members,      \* its members
  ProjectName,  \* the project it belongs to, or None
  Hierarchy,    \* the project, the folders and the organization above it
  Scopes,       \* what is listed, in order: the project, folders, organization
  Listed,       \* the bindings the listing of each scope returns
  JobStates,    \* what the default graph may have left
  None

basicRoles == {"roles/viewer", "roles/editor", "roles/owner", "roles/browser"}

convenienceRoles ==
  [projectEditor |-> "roles/editor", projectOwner |-> "roles/owner",
   projectViewer |-> "roles/viewer"]

\* The members CREATE_IAM_ENTITY_MAP makes an entity of.
entityTypes == {"domain", "group", "user", "serviceAccount", "allUsers",
                "allAuthenticatedUsers"}

\* A resource is its identifier and what its kind makes of that: the type, the
\* service, and the key J1_TYPE_TO_KEY_GENERATOR_MAP generates, or None.
Fields == {"identifier", "type", "service", "key"}

ASSUME CloudAssetAssumption ==
  /\ DOMAIN KeyOf = Bindings /\ DOMAIN Role = Bindings
  /\ DOMAIN ResourceOf = Bindings /\ DOMAIN Members = Bindings
  /\ DOMAIN ProjectName = Bindings /\ DOMAIN Hierarchy = Bindings
  /\ \A b \in Bindings : DOMAIN ResourceOf[b] = Fields
  /\ Scopes \in Seq({Scopes[i] : i \in DOMAIN Scopes})
  /\ Listed \in [1..Len(Scopes) -> SUBSET Bindings]

VARIABLES
  jobState,       \* what the default graph has left: the keys of the entities,
                  \* the ids of the projects by name, the managed roles
  status,         \* of each step
  scope,          \* IAM_BINDINGS: the scope being listed
  results,        \* IAM_BINDINGS: what its listing has yet to return
  truncated,      \* a listing was refused half way
  bindings,       \* the binding entities, in order
  roles,          \* the keys of the basic roles
  at,             \* how many bindings each of the other steps has taken
  tracker,        \* projectToResourceTracker
  relationships,  \* of all steps
  duplicate,      \* the steps that failed with a duplicate _key
  aborted         \* the managed roles were looked up in vain

vars == <<jobState, status, scope, results, truncated, bindings, roles, at,
          tracker, relationships, duplicate, aborted>>

Iterating == {"BASIC_ROLES", "BINDING_PRINCIPAL", "BINDING_ROLE",
              "BINDING_ANY_RESOURCE", "API_SERVICE_ANY_RESOURCE"}
Steps == Iterating \cup {"IAM_BINDINGS"}

basicRolesIgnored(s) == IF s = "IAM_BINDINGS" THEN {} ELSE {"IAM_BINDINGS"}  \* mutant
dependsOn(s) ==
  CASE s = "IAM_BINDINGS" -> {}
    [] s \in {"BINDING_PRINCIPAL", "BINDING_ROLE"} -> {"IAM_BINDINGS", "BASIC_ROLES"}
    [] OTHER -> {"IAM_BINDINGS"}

running(s) == status[s] = "running"

-----------------------------------------------------------------------------
(* Keys                                                                      *)

\* getProjectNameFromId, of what cacheProjectNameAndId has cached.
projectNameOf(id) ==
  IF \E name \in DOMAIN jobState.names : jobState.names[name] = id
  THEN CHOOSE name \in DOMAIN jobState.names : jobState.names[name] = id
  ELSE id

\* getTypeAndKeyFromResourceIdentifier: for a project, the last part of the
\* identifier, an id or a number, is mapped to the project's name.
keyOfResource(r) == IF r.type = "project" THEN projectNameOf(r.key) ELSE r.key

createBasicRoleKey(orgHierarchyKey, role) == <<orgHierarchyKey, role>>

\* None when a basic role is bound to something without a key.
roleKey(b) ==
  IF Role[b] \notin basicRoles THEN <<Role[b]>>
  ELSE IF keyOfResource(ResourceOf[b]) = None THEN <<>>
  ELSE createBasicRoleKey(keyOfResource(ResourceOf[b]), Role[b])

isRole(key) == key \in roles \/ (Len(key) = 1 /\ key[1] \in jobState.entities)

-----------------------------------------------------------------------------

Init ==
  /\ jobState \in JobStates
  /\ status = [s \in Steps |-> "pending"]
  /\ scope = 1
  /\ results = {}
  /\ truncated = FALSE
  /\ bindings = <<>>
  /\ roles = {}
  /\ at = [s \in Iterating |-> 0]
  /\ tracker = {}
  /\ relationships = {}
  /\ duplicate = {}
  /\ aborted = FALSE

\* IAM_BINDINGS starts with the first scope.
Start(s) ==
  /\ ~aborted
  /\ status[s] = "pending"
  /\ \A d \in dependsOn(s) : status[d] \in {"success", "failure"}
  /\ status' = [status EXCEPT ![s] = "running"]
  /\ results' = IF s = "IAM_BINDINGS" /\ Scopes # <<>> THEN Listed[1] ELSE results
  /\ UNCHANGED <<jobState, scope, truncated, bindings, roles, at, tracker,
                 relationships, duplicate, aborted>>

Finish(s) ==
  /\ running(s)
  /\ IF s = "IAM_BINDINGS" THEN scope > Len(Scopes) ELSE at[s] = Len(bindings)
  /\ status' = [status EXCEPT ![s] = "success"]
  /\ UNCHANGED <<jobState, scope, results, truncated, bindings, roles, at,
                 tracker, relationships, duplicate, aborted>>

\* Of these steps only IAM_BINDINGS calls an API, which may fail for good.
FailListing ==
  /\ running("IAM_BINDINGS")
  /\ status' = [status EXCEPT !["IAM_BINDINGS"] = "failure"]
  /\ UNCHANGED <<jobState, scope, results, truncated, bindings, roles, at,
                 tracker, relationships, duplicate, aborted>>

\* getIamManagedRoleData: without the managed roles the whole run ends.
Abort(s) ==
  /\ status' = [status EXCEPT ![s] = "failure"]
  /\ aborted' = TRUE

\* A key that the job state has fails the step that adds it again.
FailDuplicate(s) ==
  /\ status' = [status EXCEPT ![s] = "failure"]
  /\ duplicate' = duplicate \cup {s}

-----------------------------------------------------------------------------
(* fetchIamBindings                                                          *)

bindingKeys == {KeyOf[bindings[i]] : i \in 1..Len(bindings)}

roleSeen(b) == Role[b] \in {Role[bindings[i]] : i \in 1..Len(bindings)}       \* mutant
bindingSeen(b) == KeyOf[b] \in bindingKeys                \* bindingGraphKeySet

\* The permissions come from the role's entity, or from the managed roles.
permissionsFound(b) ==
  Role[b] = None \/ isRole(<<Role[b]>>) \/ jobState.managedRoles

HandleBinding(b) ==
  /\ running("IAM_BINDINGS")
  /\ b \in results
  /\ results' = results \ {b}
  /\ IF bindingSeen(b) THEN UNCHANGED <<status, bindings, duplicate, aborted>>
     ELSE IF ~permissionsFound(b)
     THEN Abort("IAM_BINDINGS") /\ UNCHANGED <<bindings, duplicate>>
     ELSE IF KeyOf[b] \in bindingKeys
     THEN FailDuplicate("IAM_BINDINGS") /\ UNCHANGED <<bindings, aborted>>
     ELSE /\ bindings' = Append(bindings, b)
          /\ UNCHANGED <<status, duplicate, aborted>>
  /\ UNCHANGED <<jobState, scope, truncated, roles, at, tracker, relationships>>

\* The listing of a scope ends. It may be refused half way: iterateApi
\* swallows the authorization error, and the next scope is listed.
nextScope == scope + 1

EndScope ==
  /\ running("IAM_BINDINGS")
  /\ scope <= Len(Scopes)
  /\ truncated' = (truncated \/ results # {})
  /\ scope' = nextScope
  /\ results' = IF scope' <= Len(Scopes) THEN Listed[scope'] ELSE {}
  /\ UNCHANGED <<jobState, status, bindings, roles, at, tracker, relationships,
                 duplicate, aborted>>

-----------------------------------------------------------------------------
(* The steps that iterate over the bindings                                  *)

\* The binding that s takes next.
next(s) == bindings[at[s] + 1]

Take(s) ==
  /\ running(s)
  /\ at[s] < Len(bindings)
  /\ at' = [at EXCEPT ![s] = @ + 1]
  /\ UNCHANGED <<jobState, scope, results, truncated, bindings>>

\* createBasicRolesForBindings; findOrCreateIamRoleEntity.
CreateBasicRole ==
  LET s == "BASIC_ROLES"
      key == roleKey(next(s)) IN
  /\ Take(s)
  /\ IF Role[next(s)] \notin basicRoles \/ key = <<>> \/ key \in roles
     THEN UNCHANGED <<status, roles, aborted>>
     ELSE IF ~jobState.managedRoles THEN Abort(s) /\ UNCHANGED roles
     ELSE /\ roles' = roles \cup {key}
          /\ UNCHANGED <<status, aborted>>
  /\ UNCHANGED <<tracker, relationships, duplicate>>

\* A relationship as its _key tells it from the others: the step, where it is
\* from, and its target, a mapped one or an entity of the job state.
Relate(s, from, target, mapped) ==
  [by |-> s, from |-> from, target |-> target, mapped |-> mapped]

\* createBindingRoleRelationship.
CreateBindingRoleRelationship ==
  LET s == "BINDING_ROLE"
      b == next(s)
      key == roleKey(b) IN
  /\ Take(s)
  /\ IF Role[b] = None \/ key = <<>> THEN UNCHANGED <<status, relationships, aborted>>
     ELSE IF ~isRole(key) /\ ~jobState.managedRoles
     THEN Abort(s) /\ UNCHANGED relationships
     ELSE /\ relationships' = relationships \cup {Relate(s, <<KeyOf[b]>>, key, ~isRole(key))}
          /\ UNCHANGED <<status, aborted>>
  /\ UNCHANGED <<roles, tracker, duplicate>>

\* createAndAddConvienceMemberTargetRelationships, and buildIamTargetRelationship.
memberRelationships(b, member) ==
  LET s == "BINDING_PRINCIPAL" IN
  IF member.type \in DOMAIN convenienceRoles
  THEN LET key(h) == createBasicRoleKey(h, convenienceRoles[member.type]) IN
       {Relate(s, <<KeyOf[b]>>, key(h), ~isRole(key(h))) : h \in Hierarchy[b]}
  ELSE IF member.type \notin entityTypes THEN {}
  ELSE {Relate(s, <<KeyOf[b]>>, <<member.identifier>>,
               ~(member.type = "serviceAccount"
                   /\ member.identifier \in jobState.entities))}

deletedUnknown(member) == member.deleted \/ member.type = "malformed"      \* mutant
malformed(member) == member.type = "malformed"

\* Two members may have one target: safeAddRelationship adds it once.
neverSafe(added) == FALSE                                                   \* mutant
safeAddRelationship(added) == TRUE

CreatePrincipalRelationships ==
  LET s == "BINDING_PRINCIPAL"
      b == next(s)
      added == UNION {memberRelationships(b, m) : m \in Members[b]}
      collide == \E m, n \in Members[b] :
                   m # n /\ memberRelationships(b, m) \cap memberRelationships(b, n) # {}
  IN
  /\ Take(s)
  /\ ~\E m \in Members[b] : malformed(m)
  /\ relationships' = relationships \cup added
  /\ IF collide /\ ~safeAddRelationship(added)
     THEN FailDuplicate(s)
     ELSE UNCHANGED <<status, duplicate>>
  /\ UNCHANGED <<roles, tracker, aborted>>

\* parseIamMember throws on a format it does not know; the relationships of
\* the members before are left.
FailOnMember ==
  LET s == "BINDING_PRINCIPAL"
      b == next(s) IN
  /\ Take(s)
  /\ \E m \in Members[b] : malformed(m)
  /\ \E before \in SUBSET {m \in Members[b] : ~malformed(m)} :
       relationships' = relationships \cup
                          UNION {memberRelationships(b, m) : m \in before}
  /\ status' = [status EXCEPT ![s] = "failure"]
  /\ UNCHANGED <<roles, tracker, duplicate, aborted>>

\* createBindingToAnyResourceRelationships.
CreateBindingToAnyResourceRelationship ==
  LET s == "BINDING_ANY_RESOURCE"
      b == next(s)
      key == keyOfResource(ResourceOf[b]) IN
  /\ Take(s)
  /\ relationships' =
       relationships \cup
         IF key = None THEN {}
         ELSE {Relate(s, <<KeyOf[b]>>, <<key>>, key \notin jobState.entities)}
  /\ UNCHANGED <<status, roles, tracker, duplicate, aborted>>

-----------------------------------------------------------------------------
(* createApiServiceToAnyResourceRelationships                                *)

isOrganizationalHierarchyResource(type) ==
  type \in {"organization", "folder", "project", "api_service"}

\* buildServiceGraphObjectKey: the services were ingested under the id of the
\* project, which the binding has if its name was cached.
serviceKey(b) == <<ProjectName[b], ResourceOf[b].service>>
serviceFound(b) ==
  /\ ProjectName[b] \in DOMAIN jobState.names
  /\ serviceKey(b) \in jobState.services

\* buildBindingEntityResourceKey.
trackerKey(b) == <<ProjectName[b], ResourceOf[b].identifier>>

CreateApiServiceRelationship ==
  LET s == "API_SERVICE_ANY_RESOURCE"
      b == next(s)
      r == ResourceOf[b]
      key == keyOfResource(r)
      new == Relate(s, serviceKey(b), <<key>>, key \notin jobState.entities) IN
  /\ Take(s)
  /\ tracker' = tracker \cup {trackerKey(b)}
  /\ IF \/ trackerKey(b) \in tracker
        \/ isOrganizationalHierarchyResource(r.type)
        \/ key = None
        \/ ~serviceFound(b)
     THEN UNCHANGED <<status, relationships, duplicate>>
     ELSE IF new \in relationships
     THEN FailDuplicate(s) /\ UNCHANGED relationships
     ELSE /\ relationships' = relationships \cup {new}
          /\ UNCHANGED <<status, duplicate>>
  /\ UNCHANGED <<roles, aborted>>

-----------------------------------------------------------------------------

Next ==
  \/ \E s \in Steps : Start(s) \/ Finish(s)
  \/ \E b \in Bindings : HandleBinding(b)
  \/ FailListing
  \/ EndScope
  \/ CreateBasicRole
  \/ CreateBindingRoleRelationship
  \/ CreatePrincipalRelationships
  \/ FailOnMember
  \/ CreateBindingToAnyResourceRelationship
  \/ CreateApiServiceRelationship

Spec == Init /\ [][Next]_vars
-----------------------------------------------------------------------------
(* Properties                                                                *)

Entities == {bindings[i] : i \in 1..Len(bindings)}

TypeOK ==
  /\ jobState \in JobStates
  /\ status \in [Steps -> {"pending", "running", "success", "failure"}]
  /\ scope \in 1..(Len(Scopes) + 1)
  /\ results \subseteq Bindings
  /\ truncated \in BOOLEAN
  /\ bindings \in Seq(Bindings)
  /\ \A key \in roles : Len(key) = 2 /\ key[2] \in basicRoles
  /\ at \in [Iterating -> 0..Len(bindings)]
  /\ \A r \in relationships : r.by \in Iterating /\ r.mapped \in BOOLEAN
  /\ duplicate \subseteq Steps
  /\ aborted \in BOOLEAN

\* A binding that is listed twice, or that differs from another only in what
\* its key leaves out, is one entity, and neither is lost: when the step
\* succeeds and no listing was cut short, there is one for each key.
BindingsComplete ==
  /\ \A i, j \in 1..Len(bindings) :
       i # j => KeyOf[bindings[i]] # KeyOf[bindings[j]]
  /\ status["IAM_BINDINGS"] = "success" /\ ~truncated
       => {KeyOf[b] : b \in Entities}
            = {KeyOf[b] : b \in UNION {Listed[i] : i \in DOMAIN Scopes}}

usesRole(b) == {r \in relationships : r.by = "BINDING_ROLE" /\ r.from = <<KeyOf[b]>>}

\* Each binding uses one role at most, and one for sure, in the end, if it has
\* a role the step has a key for. A basic role's relationship is to the role
\* that BASIC_ROLES added for the same resource, and no other; and none is
\* mapped to what is an entity of the job state or becomes one: no role is made
\* twice, by the step that adds it and by the mapper.
RolesAgree ==
  /\ \A b \in Entities : Cardinality(usesRole(b)) <= 1
  /\ status["BINDING_ROLE"] = "success" /\ status["BASIC_ROLES"] = "success"
     => \A b \in Entities : Role[b] # None /\ roleKey(b) # <<>> =>
          \E r \in usesRole(b) :
            r.target = roleKey(b) /\ (Role[b] \in basicRoles => ~r.mapped)
  /\ \A r \in relationships :
       r.by \in {"BINDING_ROLE", "BINDING_PRINCIPAL"} /\ r.mapped => r.target \notin roles

\* Keys collide in one place: two resources of one service and project for
\* which the same key is generated, as two disks of one name in two zones.
\* Then API_SERVICE_ANY_RESOURCE fails; no other step ever does so.
DuplicatesExplained ==
  /\ duplicate \subseteq {"API_SERVICE_ANY_RESOURCE"}
  /\ duplicate # {} =>
       \E b, c \in Entities : /\ ResourceOf[b] # ResourceOf[c]
                              /\ serviceKey(b) = serviceKey(c)
                              /\ ResourceOf[b].key = ResourceOf[c].key

assigned(b) == {r \in relationships : r.by = "BINDING_PRINCIPAL" /\ r.from = <<KeyOf[b]>>}

\* The principals a member stands for: those who have a basic role above the
\* resource, or itself, of the types that have an entity.
principals(b, m) ==
  IF m.type \in DOMAIN convenienceRoles
  THEN {<<above, convenienceRoles[m.type]>> : above \in Hierarchy[b]}
  ELSE {<<m.identifier>> : type \in entityTypes \cap {m.type}}

allPrincipals(b) == UNION {principals(b, m) : m \in Members[b]}

unknownFormat(b) == \E m \in Members[b] : m.type = "malformed"

\* One member of a format that is not known costs the principals of all the
\* bindings that were added after the one it is in, and some of that one; those
\* before have all of theirs, and none has another's. Nothing else fails the
\* step: not two members that are one principal, one of them deleted, nor a
\* member of a type that has no entity.
PrincipalsComplete ==
  LET s == "BINDING_PRINCIPAL"
      unknownUpTo(i) == \E j \in 1..i : unknownFormat(bindings[j])
      targets(b) == {r.target : r \in assigned(b)} IN
  status[s] \in {"success", "failure"} =>
    /\ status[s] = "failure" <=> unknownUpTo(Len(bindings))
    /\ \A i \in 1..Len(bindings) :
         /\ targets(bindings[i]) \subseteq allPrincipals(bindings[i])
         /\ ~unknownUpTo(i) => targets(bindings[i]) = allPrincipals(bindings[i])
         /\ unknownUpTo(i - 1) => targets(bindings[i]) = {}

-----------------------------------------------------------------------------
(* The steps as the executor of StepGraph sees them                          *)

Catalog == INSTANCE StepCatalog

idOf ==
  [IAM_BINDINGS |-> "fetch-iam-bindings",
   BASIC_ROLES |-> "create-basic-roles",
   BINDING_PRINCIPAL |-> "create-binding-principal-relationships",
   BINDING_ROLE |-> "create-binding-role-relationships",
   BINDING_ANY_RESOURCE |-> "create-binding-any-resource-relationships",
   API_SERVICE_ANY_RESOURCE |-> "create-api-service-any-resource-relationships"]

record(s) == CHOOSE r \in Catalog!cloudAssetSteps : r.id = idOf[s]

dependencies == [s \in Steps |-> {d \in Steps : idOf[d] \in record(s).dependsOn}]

ingested(s) ==
  IF status[s] = "success" THEN "all"
  ELSE IF \/ s = "IAM_BINDINGS" /\ bindings # <<>>
          \/ s = "BASIC_ROLES" /\ roles # {}
       THEN "some"
  ELSE "none"

\* Graph 'last' is a graph like any other; here it is the only one.
Executor == INSTANCE StepGraph WITH
  Last <- {},
  DependsOn <- dependencies,
  Ancestors <- dependencies,
  Kinds <- UNION {record(s).reads \cup record(s).writes : s \in Steps},
  Reads <- [s \in Steps |-> record(s).reads],
  Writes <- [s \in Steps |-> record(s).writes],
  AddsConcurrently <- {},
  Needs <- [s \in Steps |-> record(s).reads \cap Catalog!getIamManagedRoleData],
  StartStates <- {Steps},
  graph <- "default",
  entities <- [s \in Steps |-> ingested(s)]

\* The six handlers, run over one job state, are steps of the executor: they
\* wait for what their records say they depend on, fail with what they added
\* left behind, abort the run only for data their records say they need, and
\* start nothing after that. What StepGraph shows of such steps holds of these.
ImplementsExecutor == Executor!Init /\ [][Executor!Next]_(Executor!vars)
===============================================================================
