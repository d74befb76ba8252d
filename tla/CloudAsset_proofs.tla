-------------------------- MODULE CloudAsset_proofs --------------------------
(*****************************************************************************)
(* What the steps of graph 'last' guarantee, for all bindings, scopes,       *)
(* listings, members and resources, whatever the default graph has left, and *)
(* every order in which the steps interleave.                                *)
(*****************************************************************************)
EXTENDS CloudAsset, FiniteSetTheorems, TLAPS

Started(s) == status[s] \in {"running", "success", "failure"}

\* A step that has started has what it depends on behind it; one that has not
\* has taken no binding and related nothing; one that succeeded took them all.
StepsInOrder ==
  \A s \in Steps :
    /\ Started(s) => \A d \in dependsOn(s) : status[d] \in {"success", "failure"}
    /\ s \in Iterating /\ ~Started(s) =>
         at[s] = 0 /\ \A r \in relationships : r.by # s
    /\ s \in Iterating /\ status[s] = "success" => at[s] = Len(bindings)

\* The listing under way is of a scope, and begins when the step does.
ListingNested ==
  /\ results # {} => scope \in DOMAIN Scopes /\ results \subseteq Listed[scope]
  /\ ~Started("IAM_BINDINGS") => scope = 1 /\ results = {} /\ bindings = <<>>
  /\ status["IAM_BINDINGS"] = "success" => scope > Len(Scopes)

KeysDistinct ==
  \A i, j \in 1..Len(bindings) : i # j => KeyOf[bindings[i]] # KeyOf[bindings[j]]

\* What has been listed, all of the scopes behind and some of this one, has an
\* entity of its key, unless a listing was cut short; and nothing else has.
Returned(b) ==
  \E i \in DOMAIN Scopes :
    b \in Listed[i] /\ (i < scope \/ (i = scope /\ b \notin results))

ReturnedAdded ==
  /\ status["IAM_BINDINGS"] \in {"running", "success"} /\ ~truncated =>
       \A b \in Bindings : Returned(b) => KeyOf[b] \in bindingKeys
  /\ \A i \in 1..Len(bindings) : \E j \in DOMAIN Scopes : bindings[i] \in Listed[j]

IBindings == ListingNested /\ KeysDistinct /\ ReturnedAdded

\* BASIC_ROLES has added the role of each binding it has taken.
BasicRolesAdded ==
  status["BASIC_ROLES"] # "failure" =>
    \A i \in 1..at["BASIC_ROLES"] :
      Role[bindings[i]] \in basicRoles /\ roleKey(bindings[i]) # <<>>
        => roleKey(bindings[i]) \in roles

\* BINDING_ROLE has related each binding it has taken, and no other.
roleLink(b) == Relate("BINDING_ROLE", <<KeyOf[b]>>, roleKey(b), ~isRole(roleKey(b)))

RoleLinks ==
  /\ \A r \in relationships : r.by = "BINDING_ROLE" =>
       \E i \in 1..at["BINDING_ROLE"] : r = roleLink(bindings[i])
  /\ status["BINDING_ROLE"] # "failure" =>
       \A i \in 1..at["BINDING_ROLE"] :
         Role[bindings[i]] # None /\ roleKey(bindings[i]) # <<>>
           => roleLink(bindings[i]) \in relationships

\* What is mapped is not made by BASIC_ROLES too.
MappedApart ==
  \A r \in relationships :
    r.by \in {"BINDING_ROLE", "BINDING_PRINCIPAL"} /\ r.mapped => r.target \notin roles

IRoles == BasicRolesAdded /\ RoleLinks /\ MappedApart

\* A relationship from a service is of a binding whose resource is tracked.
ServicesTracked ==
  \A r \in relationships : r.by = "API_SERVICE_ANY_RESOURCE" =>
    \E i \in 1..Len(bindings) :
      /\ r.from = serviceKey(bindings[i])
      /\ r.target = <<ResourceOf[bindings[i]].key>>
      /\ trackerKey(bindings[i]) \in tracker

\* BINDING_PRINCIPAL has related each binding it has taken, to all of its
\* principals, up to one with a member of an unknown format, where it fails.
PrincipalsRelated ==
  LET taken == at["BINDING_PRINCIPAL"] IN
  /\ \A r \in relationships : r.by = "BINDING_PRINCIPAL" =>
       \E i \in 1..taken :
         r.from = <<KeyOf[bindings[i]]>> /\ r.target \in allPrincipals(bindings[i])
  /\ \A i \in 1..taken :
       /\ unknownFormat(bindings[i]) => i = taken /\ status["BINDING_PRINCIPAL"] = "failure"
       /\ ~unknownFormat(bindings[i]) =>
            \A t \in allPrincipals(bindings[i]) : \E r \in assigned(bindings[i]) : r.target = t
  /\ status["BINDING_PRINCIPAL"] = "failure" => taken # 0 /\ unknownFormat(bindings[taken])

IInv ==
  /\ TypeOK
  /\ StepsInOrder
  /\ IBindings
  /\ IRoles
  /\ PrincipalsRelated
  /\ ServicesTracked
  /\ DuplicatesExplained

-----------------------------------------------------------------------------

LEMMA ScopesTyped ==
  /\ Len(Scopes) \in Nat /\ DOMAIN Scopes = 1..Len(Scopes)
  /\ Scopes # <<>> => 1 \in DOMAIN Scopes
  /\ \A i \in DOMAIN Scopes : Listed[i] \subseteq Bindings
<1>1. Scopes \in Seq({Scopes[i] : i \in DOMAIN Scopes})
  BY CloudAssetAssumption
<1>a. Listed \in [1..Len(Scopes) -> SUBSET Bindings]
  BY CloudAssetAssumption
<1>2. Len(Scopes) \in Nat /\ DOMAIN Scopes = 1..Len(Scopes)
  BY <1>1
<1>3. Scopes # <<>> => Len(Scopes) # 0
  BY <1>1
<1>4. \A i \in DOMAIN Scopes : Listed[i] \subseteq Bindings
  BY <1>a, <1>2
<1> QED
  BY <1>2, <1>3, <1>4

LEMMA StepNames ==
  /\ Iterating \subseteq Steps /\ "IAM_BINDINGS" \in Steps
  /\ "IAM_BINDINGS" \notin Iterating
  /\ "BASIC_ROLES" \in Iterating /\ "BINDING_PRINCIPAL" \in Iterating
  /\ "BINDING_ROLE" \in Iterating /\ "BINDING_ANY_RESOURCE" \in Iterating
  /\ "API_SERVICE_ANY_RESOURCE" \in Iterating
BY DEF Steps, Iterating

LEMMA InitIInv == Init => IInv
<1> SUFFICES ASSUME Init PROVE IInv
  OBVIOUS
<1> USE DEF Init
<1>a. Len(bindings) = 0 /\ bindings \in Seq(Bindings)
  OBVIOUS
<1>1. TypeOK
  <2>1. scope \in 1..(Len(Scopes) + 1)
    BY ScopesTyped
  <2>2. at \in [Iterating -> 0..Len(bindings)]
    BY <1>a
  <2>3. status \in [Steps -> {"pending", "running", "success", "failure"}]
    OBVIOUS
  <2> QED
    BY <1>a, <2>1, <2>2, <2>3 DEF TypeOK
<1>2. StepsInOrder
  BY StepNames DEF StepsInOrder, Started
<1>3. IBindings
  BY <1>a, StepNames, ScopesTyped DEF IBindings, ListingNested, KeysDistinct, ReturnedAdded, Started
<1>4. IRoles /\ ServicesTracked
  BY <1>a, StepNames DEF IRoles, BasicRolesAdded, RoleLinks, MappedApart, ServicesTracked
<1>5. DuplicatesExplained
  BY DEF DuplicatesExplained
<1>6. PrincipalsRelated
  BY StepNames DEF PrincipalsRelated
<1> QED
  BY <1>1, <1>2, <1>3, <1>4, <1>5, <1>6 DEF IInv

-----------------------------------------------------------------------------
(* What a step of the handlers does to each part of the state                *)

\* The bindings in order stay where they are; only IAM_BINDINGS adds one.
LEMMA Appended ==
  ASSUME bindings \in Seq(Bindings), NEW b \in Bindings, bindings' = Append(bindings, b)
  PROVE  /\ bindings' \in Seq(Bindings)
         /\ Len(bindings') = Len(bindings) + 1 /\ Len(bindings) \in Nat
         /\ \A i \in 1..Len(bindings) : bindings'[i] = bindings[i]
         /\ bindings'[Len(bindings) + 1] = b
OBVIOUS

\* What each of the three others makes of a binding.
resourceLink(b) ==
  Relate("BINDING_ANY_RESOURCE", <<KeyOf[b]>>, <<keyOfResource(ResourceOf[b])>>,
         keyOfResource(ResourceOf[b]) \notin jobState.entities)
serviceLink(b) ==
  Relate("API_SERVICE_ANY_RESOURCE", serviceKey(b), <<keyOfResource(ResourceOf[b])>>,
         keyOfResource(ResourceOf[b]) \notin jobState.entities)

LEMMA LinkFields ==
  ASSUME NEW b
  PROVE  /\ roleLink(b).by = "BINDING_ROLE" /\ roleLink(b).mapped \in BOOLEAN
         /\ roleLink(b).from = <<KeyOf[b]>> /\ roleLink(b).target = roleKey(b)
         /\ roleLink(b).mapped <=> ~isRole(roleKey(b))
         /\ resourceLink(b).by = "BINDING_ANY_RESOURCE" /\ resourceLink(b).mapped \in BOOLEAN
         /\ serviceLink(b).by = "API_SERVICE_ANY_RESOURCE" /\ serviceLink(b).mapped \in BOOLEAN
         /\ serviceLink(b).from = serviceKey(b)
         /\ serviceLink(b).target = <<keyOfResource(ResourceOf[b])>>
BY DEF roleLink, resourceLink, serviceLink, Relate

LEMMA LinkAdded ==
  /\ CreateBindingRoleRelationship =>
       relationships' \in {relationships, relationships \cup {roleLink(next("BINDING_ROLE"))}}
  /\ CreateBindingToAnyResourceRelationship =>
       relationships' \in
         {relationships, relationships \cup {resourceLink(next("BINDING_ANY_RESOURCE"))}}
  /\ CreateApiServiceRelationship =>
       relationships' \in
         {relationships, relationships \cup {serviceLink(next("API_SERVICE_ANY_RESOURCE"))}}
<1>1. CreateBindingRoleRelationship =>
        relationships' \in {relationships, relationships \cup {roleLink(next("BINDING_ROLE"))}}
  BY DEF CreateBindingRoleRelationship, roleLink
<1>2. CreateBindingToAnyResourceRelationship =>
        relationships' \in
          {relationships, relationships \cup {resourceLink(next("BINDING_ANY_RESOURCE"))}}
  BY DEF CreateBindingToAnyResourceRelationship, resourceLink
<1>3. CreateApiServiceRelationship =>
        relationships' \in
          {relationships, relationships \cup {serviceLink(next("API_SERVICE_ANY_RESOURCE"))}}
  BY DEF CreateApiServiceRelationship, serviceLink
<1> QED
  BY <1>1, <1>2, <1>3

\* The relationships of a member say which step they are of, and are mapped
\* only to what is no basic role.
LEMMA MemberRelated ==
  ASSUME \A key \in roles : Len(key) = 2,
         NEW b, NEW m, NEW r \in memberRelationships(b, m)
  PROVE  r.by = "BINDING_PRINCIPAL" /\ r.mapped \in BOOLEAN
         /\ (r.mapped => r.target \notin roles)
<1>1. CASE m.type \in DOMAIN convenienceRoles
  <2> DEFINE key(h) == createBasicRoleKey(h, convenienceRoles[m.type])
  <2>1. PICK h \in Hierarchy[b] :
          r = Relate("BINDING_PRINCIPAL", <<KeyOf[b]>>, key(h), ~isRole(key(h)))
    BY <1>1 DEF memberRelationships
  <2>2. key(h) \in roles => isRole(key(h))
    BY DEF isRole
  <2> HIDE DEF key
  <2> QED
    BY <2>1, <2>2 DEF Relate
<1>2. CASE m.type \notin DOMAIN convenienceRoles /\ m.type \in entityTypes
  <2>1. r = Relate("BINDING_PRINCIPAL", <<KeyOf[b]>>, <<m.identifier>>,
                   ~(m.type = "serviceAccount" /\ m.identifier \in jobState.entities))
    BY <1>2 DEF memberRelationships
  <2>2. Len(<<m.identifier>>) = 1
    OBVIOUS
  <2>3. <<m.identifier>> \notin roles
    BY <2>2
  <2> QED
    BY <2>1, <2>3 DEF Relate
<1>3. CASE m.type \notin DOMAIN convenienceRoles /\ m.type \notin entityTypes
  BY <1>3 DEF memberRelationships
<1> QED
  BY <1>1, <1>2, <1>3

LEMMA TypeStep == TypeOK /\ [Next]_vars => TypeOK'
<1> SUFFICES ASSUME TypeOK, [Next]_vars PROVE TypeOK'
  OBVIOUS
<1> USE DEF TypeOK
<1>a. Len(bindings) \in Nat
  OBVIOUS
\* A step takes a binding, adds relationships of its own, and goes on or fails.
<1>1. ASSUME NEW s \in Iterating, Take(s),
             status' = status \/ status' = [status EXCEPT ![s] = "failure"],
             \A key \in roles' : Len(key) = 2 /\ key[2] \in basicRoles,
             \A r \in relationships' \ relationships : r.by \in Iterating /\ r.mapped \in BOOLEAN,
             duplicate' \subseteq Steps, aborted' \in BOOLEAN
      PROVE  TypeOK'
  <2>1. at' = [at EXCEPT ![s] = @ + 1] /\ at[s] \in 0..Len(bindings) /\ at[s] < Len(bindings)
    BY <1>1 DEF Take
  <2>2. at' \in [Iterating -> 0..Len(bindings)]
    BY <1>a, <2>1
  <2>3. status' \in [Steps -> {"pending", "running", "success", "failure"}]
    BY <1>1
  <2>4. UNCHANGED <<jobState, scope, results, truncated, bindings>>
    BY <1>1 DEF Take
  <2> QED
    BY <1>1, <2>2, <2>3, <2>4
<1>2. ASSUME NEW s \in Steps, Start(s)
      PROVE  TypeOK'
  <2>1. Scopes # <<>> => Listed[1] \subseteq Bindings
    BY ScopesTyped
  <2>2. status' \in [Steps -> {"pending", "running", "success", "failure"}]
    BY <1>2 DEF Start
  <2> QED
    BY <1>2, <2>1, <2>2 DEF Start
<1>3. ASSUME NEW s \in Steps, Finish(s)
      PROVE  TypeOK'
  BY <1>3 DEF Finish
<1>4. ASSUME NEW b \in Bindings, HandleBinding(b)
      PROVE  TypeOK'
  <2>1. /\ bindings' \in Seq(Bindings) /\ at' \in [Iterating -> 0..Len(bindings')]
    <3>1. CASE bindings' = bindings
      BY <1>4, <3>1 DEF HandleBinding
    <3>2. CASE bindings' = Append(bindings, b)
      BY <1>a, <1>4, <3>2, Appended DEF HandleBinding
    <3> QED
      BY <1>4, <3>1, <3>2 DEF HandleBinding
  <2>2. /\ status' \in [Steps -> {"pending", "running", "success", "failure"}]
        /\ duplicate' \subseteq Steps /\ aborted' \in BOOLEAN
    BY <1>4, StepNames DEF HandleBinding, Abort, FailDuplicate
  <2> QED
    BY <1>4, <2>1, <2>2 DEF HandleBinding
<1>5. CASE FailListing
  BY <1>5 DEF FailListing
<1>6. CASE EndScope
  <2>1. scope' \in 1..(Len(Scopes) + 1)
    BY <1>6, ScopesTyped DEF EndScope, nextScope
  <2>2. results' \subseteq Bindings
    BY <1>6, <2>1, ScopesTyped DEF EndScope, nextScope
  <2> QED
    BY <1>6, <2>1, <2>2 DEF EndScope
<1>7. CASE CreateBasicRole
  <2> DEFINE key == roleKey(next("BASIC_ROLES"))
  <2>1. Role[next("BASIC_ROLES")] \in basicRoles /\ key # <<>> =>
          Len(key) = 2 /\ key[2] \in basicRoles
    BY DEF roleKey, createBasicRoleKey
  <2>2. \A k \in roles' : Len(k) = 2 /\ k[2] \in basicRoles
    BY <1>7, <2>1 DEF CreateBasicRole
  <2> QED
    BY <1>1, <1>7, <2>2, StepNames DEF CreateBasicRole, Abort
<1>8. CASE CreateBindingRoleRelationship
  <2>1. \A r \in relationships' \ relationships : r.by \in Iterating /\ r.mapped \in BOOLEAN
    BY <1>8, LinkAdded, LinkFields, StepNames
  <2> QED
    BY <1>1, <1>8, <2>1, StepNames DEF CreateBindingRoleRelationship, Abort
<1>9. CASE CreatePrincipalRelationships
  <2>1. \A r \in relationships' \ relationships : r.by \in Iterating /\ r.mapped \in BOOLEAN
    BY <1>9, MemberRelated, StepNames DEF CreatePrincipalRelationships
  <2> QED
    BY <1>1, <1>9, <2>1, StepNames DEF CreatePrincipalRelationships, FailDuplicate
<1>10. CASE FailOnMember
  <2>1. \A r \in relationships' \ relationships : r.by \in Iterating /\ r.mapped \in BOOLEAN
    BY <1>10, MemberRelated, StepNames DEF FailOnMember
  <2> QED
    BY <1>1, <1>10, <2>1, StepNames DEF FailOnMember
<1>11. CASE CreateBindingToAnyResourceRelationship
  <2>1. \A r \in relationships' \ relationships : r.by \in Iterating /\ r.mapped \in BOOLEAN
    BY <1>11, LinkAdded, LinkFields, StepNames
  <2> QED
    BY <1>1, <1>11, <2>1, StepNames DEF CreateBindingToAnyResourceRelationship
<1>12. CASE CreateApiServiceRelationship
  <2>1. \A r \in relationships' \ relationships : r.by \in Iterating /\ r.mapped \in BOOLEAN
    BY <1>12, LinkAdded, LinkFields, StepNames
  <2> QED
    BY <1>1, <1>12, <2>1, StepNames DEF CreateApiServiceRelationship, FailDuplicate
<1>13. CASE UNCHANGED vars
  BY <1>13 DEF vars
<1> QED
  BY <1>2, <1>3, <1>4, <1>5, <1>6, <1>7, <1>8, <1>9, <1>10, <1>11, <1>12, <1>13 DEF Next

LEMMA StatusMoves ==
  ASSUME TypeOK, [Next]_vars, NEW s \in Steps
  PROVE  \/ status'[s] = status[s]
         \/ status'[s] = "running" /\ Start(s)
         \/ status'[s] = "success" /\ Finish(s)
         \/ status'[s] = "failure" /\ running(s)
<1> USE DEF TypeOK
<1>a. status \in [Steps -> {"pending", "running", "success", "failure"}]
  OBVIOUS
<1>1. ASSUME NEW t \in Steps, running(t),
             status' = status \/ status' = [status EXCEPT ![t] = "failure"]
      PROVE  status'[s] = status[s] \/ (status'[s] = "failure" /\ running(s))
  BY <1>1
<1>2. ASSUME NEW t \in Steps, Start(t)
      PROVE  status'[s] = status[s] \/ (status'[s] = "running" /\ Start(s))
  <2>1. status' = [status EXCEPT ![t] = "running"]
    BY <1>2 DEF Start
  <2> QED
    BY <1>2, <2>1
<1>3. ASSUME NEW t \in Steps, Finish(t)
      PROVE  status'[s] = status[s] \/ (status'[s] = "success" /\ Finish(s))
  <2>1. status' = [status EXCEPT ![t] = "success"]
    BY <1>3 DEF Finish
  <2> QED
    BY <1>3, <2>1
<1>4. ASSUME NEW b \in Bindings, HandleBinding(b)
      PROVE  status'[s] = status[s] \/ (status'[s] = "failure" /\ running(s))
  BY <1>1, <1>4, StepNames DEF HandleBinding, Abort, FailDuplicate
<1>5. CASE FailListing \/ EndScope
  BY <1>1, <1>5, StepNames DEF FailListing, EndScope
<1>6. CASE CreateBasicRole \/ CreateBindingRoleRelationship
  BY <1>1, <1>6, StepNames DEF CreateBasicRole, CreateBindingRoleRelationship, Take, Abort
<1>7. CASE CreatePrincipalRelationships \/ FailOnMember
  BY <1>1, <1>7, StepNames DEF CreatePrincipalRelationships, FailOnMember, Take, FailDuplicate
<1>8. CASE CreateBindingToAnyResourceRelationship \/ CreateApiServiceRelationship
  BY <1>1, <1>8, StepNames DEF CreateBindingToAnyResourceRelationship,
     CreateApiServiceRelationship, Take, FailDuplicate
<1>9. CASE UNCHANGED vars
  BY <1>9 DEF vars
<1> QED
  BY <1>2, <1>3, <1>4, <1>5, <1>6, <1>7, <1>8, <1>9 DEF Next

\* The steps only ever add, and each only while it runs.
LEMMA OnlyRunningAdds ==
  ASSUME TypeOK, [Next]_vars
  PROVE  /\ jobState' = jobState
         /\ bindings' = bindings \/ running("IAM_BINDINGS")
         /\ roles \subseteq roles' /\ (roles' = roles \/ running("BASIC_ROLES"))
         /\ relationships \subseteq relationships'
         /\ \A r \in relationships' \ relationships : running(r.by)
         /\ \A s \in Iterating : at'[s] = at[s] \/ running(s)
         /\ tracker \subseteq tracker'
<1> USE DEF TypeOK
<1>1. jobState' = jobState /\ tracker \subseteq tracker'
  BY DEF Next, vars, Start, Finish, HandleBinding, FailListing, EndScope, Take, CreateBasicRole,
     CreateBindingRoleRelationship, CreatePrincipalRelationships, FailOnMember,
     CreateBindingToAnyResourceRelationship, CreateApiServiceRelationship
<1>2. bindings' = bindings \/ running("IAM_BINDINGS")
  BY DEF Next, vars, Start, Finish, HandleBinding, FailListing, EndScope, Take, CreateBasicRole,
     CreateBindingRoleRelationship, CreatePrincipalRelationships, FailOnMember,
     CreateBindingToAnyResourceRelationship, CreateApiServiceRelationship
<1>3. roles \subseteq roles' /\ (roles' = roles \/ running("BASIC_ROLES"))
  BY DEF Next, vars, Start, Finish, HandleBinding, FailListing, EndScope, Take, CreateBasicRole,
     CreateBindingRoleRelationship, CreatePrincipalRelationships, FailOnMember,
     CreateBindingToAnyResourceRelationship, CreateApiServiceRelationship
<1>4. \A s \in Iterating : at'[s] = at[s] \/ running(s)
  BY DEF Next, vars, Start, Finish, HandleBinding, FailListing, EndScope, Take, CreateBasicRole,
     CreateBindingRoleRelationship, CreatePrincipalRelationships, FailOnMember,
     CreateBindingToAnyResourceRelationship, CreateApiServiceRelationship
<1>5. relationships \subseteq relationships' /\ \A r \in relationships' \ relationships : running(r.by)
  <2>1. CASE CreateBindingRoleRelationship \/ CreateBindingToAnyResourceRelationship
             \/ CreateApiServiceRelationship
    BY <2>1, LinkAdded, LinkFields DEF CreateBindingRoleRelationship,
       CreateBindingToAnyResourceRelationship, CreateApiServiceRelationship, Take
  <2>2. CASE CreatePrincipalRelationships \/ FailOnMember
    BY <2>2, MemberRelated DEF CreatePrincipalRelationships, FailOnMember, Take
  <2>3. ASSUME relationships' = relationships
        PROVE  relationships \subseteq relationships'
               /\ \A r \in relationships' \ relationships : running(r.by)
    BY <2>3
  <2> QED
    BY <2>1, <2>2, <2>3 DEF Next, vars, Start, Finish, HandleBinding, FailListing, EndScope,
       CreateBasicRole
<1> QED
  BY <1>1, <1>2, <1>3, <1>4, <1>5

LEMMA BindingsKept ==
  ASSUME TypeOK, [Next]_vars
  PROVE  /\ Len(bindings) \in Nat /\ Len(bindings') \in Nat /\ Len(bindings) <= Len(bindings')
         /\ \A i \in 1..Len(bindings) : bindings'[i] = bindings[i]
<1> USE DEF TypeOK
<1>1. CASE bindings' = bindings
  BY <1>1
<1>2. ASSUME NEW b \in Bindings, HandleBinding(b), bindings' = Append(bindings, b)
      PROVE  /\ Len(bindings) \in Nat /\ Len(bindings') \in Nat /\ Len(bindings) <= Len(bindings')
             /\ \A i \in 1..Len(bindings) : bindings'[i] = bindings[i]
  BY <1>2, Appended
<1> QED
  BY <1>1, <1>2 DEF Next, vars, Start, Finish, HandleBinding, FailListing, EndScope, Take,
     CreateBasicRole, CreateBindingRoleRelationship, CreatePrincipalRelationships, FailOnMember,
     CreateBindingToAnyResourceRelationship, CreateApiServiceRelationship

-----------------------------------------------------------------------------
(* Each part of the invariant                                                *)

LEMMA DependsTyped ==
  /\ \A s \in Steps : dependsOn(s) \subseteq Steps
  /\ \A s \in Iterating : "IAM_BINDINGS" \in dependsOn(s)
  /\ \A s \in {"BINDING_ROLE", "BINDING_PRINCIPAL"} : "BASIC_ROLES" \in dependsOn(s)
BY DEF dependsOn, Steps, Iterating

\* The bindings no longer change once a step iterates over them, nor the basic
\* roles once a step looks them up.
LEMMA InputsSettled ==
  ASSUME TypeOK, StepsInOrder, [Next]_vars, NEW s \in Iterating, Started(s)
  PROVE  /\ bindings' = bindings
         /\ s \in {"BINDING_ROLE", "BINDING_PRINCIPAL"} => roles' = roles
BY OnlyRunningAdds, DependsTyped, StepNames DEF StepsInOrder, running

LEMMA OrderStep ==
  ASSUME TypeOK, StepsInOrder, [Next]_vars
  PROVE  StepsInOrder'
<1> SUFFICES ASSUME NEW s \in Steps
             PROVE  /\ Started(s)' => \A d \in dependsOn(s) : status'[d] \in {"success", "failure"}
                    /\ s \in Iterating /\ ~Started(s)' =>
                         at'[s] = 0 /\ \A r \in relationships' : r.by # s
                    /\ s \in Iterating /\ status'[s] = "success" => at'[s] = Len(bindings')
  BY DEF StepsInOrder
<1>a. status \in [Steps -> {"pending", "running", "success", "failure"}]
  BY DEF TypeOK
<1>1. ASSUME Started(s)', NEW d \in dependsOn(s)
      PROVE  status'[d] \in {"success", "failure"}
  <2>1. d \in Steps
    BY DependsTyped
  <2>2. status[d] \in {"success", "failure"}
    <3>1. CASE Started(s)
      BY <3>1 DEF StepsInOrder
    <3>2. CASE ~Started(s)
      <4>1. status[s] = "pending" /\ status'[s] # "pending"
        BY <1>a, <1>1, <3>2 DEF Started
      <4>2. Start(s)
        BY <4>1, StatusMoves DEF Finish, running
      <4> QED
        BY <4>2 DEF Start
    <3> QED
      BY <3>1, <3>2
  <2> QED
    BY <2>1, <2>2, StatusMoves DEF Start, Finish, running
<1>2. ASSUME s \in Iterating, ~Started(s)'
      PROVE  at'[s] = 0 /\ \A r \in relationships' : r.by # s
  <2>1. status[s] = "pending"
    <3>1. status'[s] = status[s]
      BY <1>2, StatusMoves DEF Started
    <3> QED
      BY <1>a, <1>2, <3>1 DEF Started
  <2>2. ~Started(s) /\ ~running(s)
    BY <2>1 DEF Started, running
  <2> QED
    BY <1>2, <2>2, OnlyRunningAdds DEF StepsInOrder
<1>3. ASSUME s \in Iterating, status'[s] = "success"
      PROVE  at'[s] = Len(bindings')
  <2>1. CASE Finish(s)
    BY <1>3, <2>1, StepNames DEF Finish
  <2>2. CASE ~Finish(s)
    <3>1. status[s] = "success"
      BY <1>3, <2>2, StatusMoves
    <3>2. Started(s) /\ ~running(s)
      BY <3>1 DEF Started, running
    <3> QED
      BY <1>3, <3>1, <3>2, InputsSettled, OnlyRunningAdds DEF StepsInOrder
  <2> QED
    BY <2>1, <2>2
<1> QED
  BY <1>1, <1>2, <1>3

\* A binding is appended only if its key is new.
LEMMA OneForEachKey ==
  ASSUME TypeOK, NEW b \in Bindings, HandleBinding(b)
  PROVE  /\ bindings' = bindings \/ (bindings' = Append(bindings, b) /\ KeyOf[b] \notin bindingKeys)
         /\ status' = status \/ (status' = [status EXCEPT !["IAM_BINDINGS"] = "failure"])
         /\ duplicate' = duplicate
         /\ status' = status => KeyOf[b] \in bindingKeys \/ bindings' = Append(bindings, b)
<1>1. CASE bindingSeen(b)
  BY <1>1 DEF HandleBinding, bindingSeen
<1>2. CASE ~bindingSeen(b) /\ ~permissionsFound(b)
  <2>1. status["IAM_BINDINGS"] = "running" /\ status' = [status EXCEPT !["IAM_BINDINGS"] = "failure"]
        /\ bindings' = bindings /\ duplicate' = duplicate
    BY <1>2 DEF HandleBinding, Abort, running
  <2>2. status'["IAM_BINDINGS"] = "failure"
    BY <2>1, StepNames DEF TypeOK
  <2> QED
    BY <2>1, <2>2
<1>3. CASE ~bindingSeen(b) /\ permissionsFound(b)
  BY <1>3 DEF HandleBinding, bindingSeen
<1> QED
  BY <1>1, <1>2, <1>3

LEMMA KeysStep ==
  ASSUME TypeOK, KeysDistinct, [Next]_vars
  PROVE  KeysDistinct'
<1>1. CASE bindings' = bindings
  BY <1>1 DEF KeysDistinct
<1>2. ASSUME NEW b \in Bindings, HandleBinding(b), bindings' = Append(bindings, b),
             KeyOf[b] \notin bindingKeys
      PROVE  KeysDistinct'
  BY <1>2, Appended DEF KeysDistinct, bindingKeys, TypeOK
<1>3. CASE \E b \in Bindings : HandleBinding(b)
  BY <1>1, <1>2, <1>3, OneForEachKey
<1> QED
  BY <1>1, <1>3 DEF Next, vars, Start, Finish, FailListing, EndScope, Take,
     CreateBasicRole, CreateBindingRoleRelationship, CreatePrincipalRelationships, FailOnMember,
     CreateBindingToAnyResourceRelationship, CreateApiServiceRelationship

\* The other steps leave the listing alone.
LEMMA ListingLeftAlone ==
  ASSUME TypeOK, [Next]_vars
  PROVE  \/ UNCHANGED <<scope, results, truncated, bindings>>
            /\ status'["IAM_BINDINGS"] = status["IAM_BINDINGS"]
         \/ Start("IAM_BINDINGS") \/ Finish("IAM_BINDINGS") \/ FailListing \/ EndScope
         \/ \E b \in Bindings : HandleBinding(b)
<1> USE StepNames DEF TypeOK
<1>1. ASSUME NEW s \in Steps, s # "IAM_BINDINGS", Start(s) \/ Finish(s)
      PROVE  UNCHANGED <<scope, results, truncated, bindings>>
             /\ status'["IAM_BINDINGS"] = status["IAM_BINDINGS"]
  BY <1>1 DEF Start, Finish
<1>2. CASE CreateBasicRole \/ CreateBindingRoleRelationship
  BY <1>2 DEF CreateBasicRole, CreateBindingRoleRelationship, Take, Abort
<1>3. CASE CreatePrincipalRelationships \/ FailOnMember
  BY <1>3 DEF CreatePrincipalRelationships, FailOnMember, Take, FailDuplicate
<1>4. CASE CreateBindingToAnyResourceRelationship \/ CreateApiServiceRelationship
  BY <1>4 DEF CreateBindingToAnyResourceRelationship, CreateApiServiceRelationship, Take,
     FailDuplicate
<1>5. CASE UNCHANGED vars
  BY <1>5 DEF vars
<1> QED
  BY <1>1, <1>2, <1>3, <1>4, <1>5 DEF Next

LEMMA ListingStep ==
  ASSUME TypeOK, ListingNested, [Next]_vars
  PROVE  ListingNested'
<1> USE DEF ListingNested
<1>a. status \in [Steps -> {"pending", "running", "success", "failure"}]
  BY DEF TypeOK
<1>1. CASE UNCHANGED <<scope, results, truncated, bindings>>
           /\ status'["IAM_BINDINGS"] = status["IAM_BINDINGS"]
  BY <1>1 DEF Started
<1>2. CASE Start("IAM_BINDINGS")
  <2>1. /\ scope' = 1 /\ status'["IAM_BINDINGS"] = "running"
        /\ results' = IF Scopes # <<>> THEN Listed[1] ELSE {}
    BY <1>2, <1>a, StepNames DEF Start, Started
  <2> QED
    BY <2>1, ScopesTyped DEF Started
<1>3. CASE Finish("IAM_BINDINGS")
  BY <1>3, <1>a, StepNames DEF Finish, Started, running
<1>4. CASE FailListing
  BY <1>4, <1>a, StepNames DEF FailListing, Started
<1>5. CASE EndScope
  <2>1. status'["IAM_BINDINGS"] = "running"
    BY <1>5 DEF EndScope, running
  <2>2. results' # {} => scope' \in DOMAIN Scopes /\ results' \subseteq Listed[scope']
    BY <1>5, ScopesTyped DEF EndScope, nextScope, TypeOK
  <2> QED
    BY <2>1, <2>2 DEF Started
<1>6. ASSUME NEW b \in Bindings, HandleBinding(b)
      PROVE  ListingNested'
  <2>1. status'["IAM_BINDINGS"] \in {"running", "failure"}
    BY <1>6, <1>a, OneForEachKey, StepNames DEF HandleBinding, running
  <2>2. results' \subseteq results /\ scope' = scope
    BY <1>6 DEF HandleBinding
  <2> QED
    BY <2>1, <2>2 DEF Started
<1> QED
  BY <1>1, <1>2, <1>3, <1>4, <1>5, <1>6, ListingLeftAlone

LEMMA KeysKept ==
  ASSUME TypeOK, [Next]_vars
  PROVE  bindingKeys \subseteq bindingKeys'
BY BindingsKept DEF bindingKeys

LEMMA ReturnedStep ==
  ASSUME TypeOK, ListingNested, ReturnedAdded, [Next]_vars
  PROVE  ReturnedAdded'
<1>a. status \in [Steps -> {"pending", "running", "success", "failure"}]
  BY DEF TypeOK
<1>1. ASSUME status'["IAM_BINDINGS"] \in {"running", "success"}, ~truncated',
             NEW b \in Bindings, Returned(b)'
      PROVE  KeyOf[b] \in bindingKeys'
  <2>1. CASE UNCHANGED <<scope, results, truncated, bindings>>
             /\ status'["IAM_BINDINGS"] = status["IAM_BINDINGS"]
    BY <1>1, <2>1 DEF ReturnedAdded, Returned, bindingKeys
  <2>2. CASE Start("IAM_BINDINGS")
    <3>1. /\ scope' = 1 /\ results' = IF Scopes # <<>> THEN Listed[1] ELSE {}
      BY <2>2, <1>a, StepNames DEF Start, Started, ListingNested
    <3> QED
      BY <1>1, <3>1, ScopesTyped DEF Returned
  <2>3. CASE Finish("IAM_BINDINGS")
    BY <1>1, <2>3 DEF Finish, running, ReturnedAdded, Returned, bindingKeys
  <2>4. CASE FailListing
    BY <1>1, <2>4, <1>a, StepNames DEF FailListing
  <2>5. CASE EndScope
    <3>1. results = {} /\ ~truncated /\ scope' = scope + 1 /\ bindings' = bindings
          /\ status["IAM_BINDINGS"] = "running" /\ scope \in Nat
      <4>1. truncated' = (truncated \/ results # {})
        BY <2>5 DEF EndScope
      <4>2. results = {} /\ ~truncated
        BY <1>1, <4>1
      <4> QED
        BY <2>5, <4>2, ScopesTyped DEF EndScope, nextScope, running, TypeOK
    <3>2. PICK i \in DOMAIN Scopes :
            b \in Listed[i] /\ (i < scope + 1 \/ (i = scope + 1 /\ b \notin results'))
      BY <1>1, <3>1 DEF Returned
    <3>3. scope + 1 \in DOMAIN Scopes => results' = Listed[scope + 1]
      BY <2>5, <3>1, ScopesTyped DEF EndScope
    <3>4. i < scope + 1 /\ (i < scope \/ i = scope)
      BY <3>1, <3>2, <3>3, ScopesTyped
    <3>5. Returned(b)
      BY <3>1, <3>2, <3>4 DEF Returned
    <3> QED
      BY <3>1, <3>5 DEF ReturnedAdded, bindingKeys
  <2>6. ASSUME NEW c \in Bindings, HandleBinding(c)
        PROVE  KeyOf[b] \in bindingKeys'
    <3>1. scope' = scope /\ results' = results \ {c} /\ ~truncated /\ c \in results
          /\ status["IAM_BINDINGS"] = "running"
      BY <1>1, <2>6 DEF HandleBinding, running
    <3>2. CASE b = c
      <4>1. status' = status
        BY <1>1, <1>a, <2>6, OneForEachKey, StepNames
      <4>2. KeyOf[c] \in bindingKeys \/ bindings' = Append(bindings, c)
        BY <2>6, <4>1, OneForEachKey
      <4>3. bindings' = Append(bindings, c) => KeyOf[c] \in bindingKeys'
        BY Appended DEF bindingKeys, TypeOK
      <4> QED
        BY <3>2, <4>2, <4>3, KeysKept
    <3>3. CASE b # c
      <4>1. Returned(b)
        BY <1>1, <3>1, <3>3 DEF Returned
      <4> QED
        BY <3>1, <4>1, KeysKept DEF ReturnedAdded
    <3> QED
      BY <3>2, <3>3
  <2> QED
    BY <2>1, <2>2, <2>3, <2>4, <2>5, <2>6, ListingLeftAlone
<1>2. ASSUME NEW i \in 1..Len(bindings')
      PROVE  \E j \in DOMAIN Scopes : bindings'[i] \in Listed[j]
  <2>1. CASE bindings' = bindings
    BY <1>2, <2>1 DEF ReturnedAdded
  <2>2. ASSUME NEW b \in Bindings, HandleBinding(b), bindings' = Append(bindings, b)
        PROVE  \E j \in DOMAIN Scopes : bindings'[i] \in Listed[j]
    <3>1. \E j \in DOMAIN Scopes : b \in Listed[j]
      BY <2>2 DEF HandleBinding, ListingNested
    <3>2. i \in 1..Len(bindings) \/ bindings'[i] = b
      BY <2>2, Appended DEF TypeOK
    <3> QED
      BY <2>2, <3>1, <3>2, Appended DEF ReturnedAdded, TypeOK
  <2>3. CASE \E b \in Bindings : HandleBinding(b)
    BY <2>1, <2>2, <2>3, OneForEachKey
  <2> QED
    BY <2>1, <2>3, ListingLeftAlone DEF Start, Finish, FailListing, EndScope
<1> QED
  BY <1>1, <1>2 DEF ReturnedAdded

\* Each step takes and relates bindings by its own actions only.
LEMMA TakenBy ==
  ASSUME TypeOK, [Next]_vars
  PROVE  /\ at'["BASIC_ROLES"] = at["BASIC_ROLES"] \/ CreateBasicRole
         /\ at'["BINDING_ROLE"] = at["BINDING_ROLE"] \/ CreateBindingRoleRelationship
         /\ \A r \in relationships' \ relationships :
              \/ r.by = "BINDING_ROLE" /\ CreateBindingRoleRelationship
                   /\ r = roleLink(next("BINDING_ROLE"))
              \/ r.by = "API_SERVICE_ANY_RESOURCE" /\ CreateApiServiceRelationship
                   /\ r = serviceLink(next("API_SERVICE_ANY_RESOURCE"))
              \/ r.by = "BINDING_PRINCIPAL" /\ (r.mapped => r.target \notin roles)
              \/ r.by = "BINDING_ANY_RESOURCE"
<1> USE StepNames DEF TypeOK
<1>1. at'["BASIC_ROLES"] = at["BASIC_ROLES"] \/ CreateBasicRole
  BY DEF Next, vars, Start, Finish, HandleBinding, FailListing, EndScope, Take,
     CreateBindingRoleRelationship, CreatePrincipalRelationships, FailOnMember,
     CreateBindingToAnyResourceRelationship, CreateApiServiceRelationship
<1>2. at'["BINDING_ROLE"] = at["BINDING_ROLE"] \/ CreateBindingRoleRelationship
  BY DEF Next, vars, Start, Finish, HandleBinding, FailListing, EndScope, Take,
     CreateBasicRole, CreatePrincipalRelationships, FailOnMember,
     CreateBindingToAnyResourceRelationship, CreateApiServiceRelationship
<1>3. ASSUME NEW r \in relationships' \ relationships
      PROVE  \/ r.by = "BINDING_ROLE" /\ CreateBindingRoleRelationship
                  /\ r = roleLink(next("BINDING_ROLE"))
             \/ r.by = "API_SERVICE_ANY_RESOURCE" /\ CreateApiServiceRelationship
                  /\ r = serviceLink(next("API_SERVICE_ANY_RESOURCE"))
             \/ r.by = "BINDING_PRINCIPAL" /\ (r.mapped => r.target \notin roles)
             \/ r.by = "BINDING_ANY_RESOURCE"
  <2>1. CASE CreateBindingRoleRelationship
    BY <1>3, <2>1, LinkAdded, LinkFields
  <2>2. CASE CreateBindingToAnyResourceRelationship
    BY <1>3, <2>2, LinkAdded, LinkFields
  <2>3. CASE CreateApiServiceRelationship
    BY <1>3, <2>3, LinkAdded, LinkFields
  <2>4. CASE CreatePrincipalRelationships \/ FailOnMember
    BY <1>3, <2>4, MemberRelated DEF CreatePrincipalRelationships, FailOnMember
  <2>5. CASE relationships' = relationships
    BY <1>3, <2>5
  <2> QED
    BY <2>1, <2>2, <2>3, <2>4, <2>5 DEF Next, vars, Start, Finish, HandleBinding, FailListing,
       EndScope, CreateBasicRole
<1> QED
  BY <1>1, <1>2, <1>3

\* Keys are computed from what the default graph has left.
LEMMA RoleKeyFixed ==
  ASSUME jobState' = jobState, NEW b
  PROVE  /\ roleKey(b)' = roleKey(b)
         /\ roles' = roles => roleLink(b)' = roleLink(b)
BY DEF roleKey, keyOfResource, projectNameOf, roleLink, Relate, isRole

LEMMA BasicRolesStep ==
  ASSUME TypeOK, StepsInOrder, BasicRolesAdded, [Next]_vars
  PROVE  BasicRolesAdded'
<1> DEFINE s == "BASIC_ROLES"
<1> SUFFICES ASSUME status'[s] # "failure", NEW i \in 1..at'[s],
                    Role[bindings'[i]] \in basicRoles, roleKey(bindings[i])' # <<>>
             PROVE  roleKey(bindings[i])' \in roles'
  BY DEF BasicRolesAdded
<1>a. \A b : roleKey(b)' = roleKey(b)
  BY OnlyRunningAdds, RoleKeyFixed
<1>1. at[s] \in 0..Len(bindings) /\ Len(bindings) \in Nat
  BY StepNames DEF TypeOK
<1>2. status[s] # "failure"
  BY StatusMoves, StepNames DEF Start, Finish, running
<1>3. CASE i \in 1..at[s]
  <2>1. bindings'[i] = bindings[i]
    BY <1>1, <1>3, BindingsKept
  <2>2. roleKey(bindings[i])' = roleKey(bindings[i])
    BY <2>1, <1>a
  <2> QED
    BY <1>2, <1>3, <2>1, <2>2, OnlyRunningAdds DEF BasicRolesAdded
<1>4. CASE CreateBasicRole /\ i = at[s] + 1
  <2> DEFINE b == next(s)
  <2>1. bindings' = bindings /\ b = bindings[i] /\ status[s] = "running" /\ jobState' = jobState
    BY <1>4 DEF CreateBasicRole, Take, next, running
  <2>2. roleKey(bindings[i])' = roleKey(b)
    BY <2>1, <1>a
  <2>3. ~Abort(s)
    BY StepNames DEF Abort, TypeOK
  <2>4. Role[b] \in basicRoles /\ roleKey(b) # <<>>
    BY <2>1, <2>2
  <2> HIDE DEF b
  <2>5. roleKey(b) \in roles'
    BY <1>4, <2>3, <2>4 DEF CreateBasicRole, b
  <2> QED
    BY <2>2, <2>5
<1>5. at'[s] = at[s] \/ (CreateBasicRole /\ at'[s] = at[s] + 1)
  BY TakenBy, StepNames DEF CreateBasicRole, Take, TypeOK
<1> QED
  BY <1>1, <1>3, <1>4, <1>5

LEMMA RoleLinksStep ==
  ASSUME TypeOK, StepsInOrder, RoleLinks, [Next]_vars
  PROVE  RoleLinks'
<1> DEFINE s == "BINDING_ROLE"
<1>a. at[s] \in 0..Len(bindings) /\ Len(bindings) \in Nat /\ s \in Steps /\ s \in Iterating
  BY StepNames DEF TypeOK
<1>1. CASE ~Started(s)
  <2>1. at'[s] = 0 /\ \A r \in relationships' : r.by # s
    BY <1>a, <1>1, OnlyRunningAdds DEF StepsInOrder, Started, running
  <2> QED
    BY <2>1 DEF RoleLinks
<1>2. CASE Started(s)
  <2>1. bindings' = bindings /\ roles' = roles /\ jobState' = jobState
    BY <1>a, <1>2, InputsSettled, OnlyRunningAdds
  <2>2. \A b : roleKey(b)' = roleKey(b) /\ roleLink(b)' = roleLink(b)
    BY <2>1, RoleKeyFixed
  <2>3. at'[s] = at[s] \/ (CreateBindingRoleRelationship /\ at'[s] = at[s] + 1)
    BY <1>a, TakenBy DEF CreateBindingRoleRelationship, Take, TypeOK
  <2>4. ASSUME NEW r \in relationships', r.by = s
        PROVE  \E i \in 1..at'[s] : r = roleLink(bindings[i])'
    <3>1. CASE r \in relationships
      <4>1. PICK i \in 1..at[s] : r = roleLink(bindings[i])
        BY <2>4, <3>1 DEF RoleLinks
      <4>2. i \in 1..at'[s] /\ r = roleLink(bindings[i])'
        BY <1>a, <2>1, <2>2, <2>3, <4>1
      <4> QED
        BY <4>2
    <3>2. CASE r \notin relationships
      <4>1. CreateBindingRoleRelationship /\ r = roleLink(bindings[at[s] + 1])
        BY <2>4, <3>2, TakenBy DEF next
      <4>2. at'[s] = at[s] + 1
        BY <1>a, <4>1 DEF CreateBindingRoleRelationship, Take, TypeOK
      <4>3. PICK i \in 1..at'[s] : i = at[s] + 1
        BY <1>a, <4>2
      <4>4. r = roleLink(bindings[i])'
        BY <2>1, <2>2, <4>1, <4>3
      <4> QED
        BY <4>4
    <3> QED
      BY <3>1, <3>2
  <2>5. ASSUME status'[s] # "failure", NEW i \in 1..at'[s],
               Role[bindings'[i]] # None, roleKey(bindings[i])' # <<>>
        PROVE  roleLink(bindings[i])' \in relationships'
    <3>1. Role[bindings[i]] # None /\ roleKey(bindings[i]) # <<>>
          /\ roleLink(bindings[i])' = roleLink(bindings[i])
      BY <2>1, <2>2, <2>5
    <3>2. CASE i \in 1..at[s]
      <4>1. status[s] # "failure"
        BY <1>a, <2>5, StatusMoves DEF Start, Finish, running
      <4> QED
        BY <3>1, <3>2, <4>1, OnlyRunningAdds DEF RoleLinks
    <3>3. CASE CreateBindingRoleRelationship /\ i = at[s] + 1
      <4>1. ~Abort(s)
        BY <1>a, <2>5 DEF Abort, TypeOK
      <4>2. roleLink(next(s)) \in relationships'
        BY <3>1, <3>3, <4>1 DEF CreateBindingRoleRelationship, next, roleLink
      <4> QED
        BY <3>1, <3>3, <4>2 DEF next
    <3> QED
      BY <1>a, <2>3, <3>2, <3>3
  <2> QED
    BY <2>4, <2>5 DEF RoleLinks
<1> QED
  BY <1>1, <1>2

LEMMA MappedStep ==
  ASSUME TypeOK, StepsInOrder, MappedApart, [Next]_vars
  PROVE  MappedApart'
<1> SUFFICES ASSUME NEW r \in relationships', r.by \in {"BINDING_ROLE", "BINDING_PRINCIPAL"},
                    r.mapped
             PROVE  r.target \notin roles'
  BY DEF MappedApart
<1>1. Started(r.by)
  BY OnlyRunningAdds, StepNames DEF StepsInOrder, Started, running
<1>2. roles' = roles
  BY <1>1, InputsSettled, StepNames
<1>3. CASE r \in relationships
  BY <1>2, <1>3 DEF MappedApart
<1>4. CASE r \notin relationships
  <2>1. r.by = "BINDING_ROLE" => r = roleLink(next("BINDING_ROLE"))
    BY <1>4, TakenBy
  <2>2. r.by = "BINDING_ROLE" => r.target \notin roles
    BY <2>1, LinkFields DEF isRole
  <2>3. r.by = "BINDING_PRINCIPAL" => r.target \notin roles
    BY <1>4, TakenBy
  <2> QED
    BY <1>2, <2>2, <2>3
<1> QED
  BY <1>3, <1>4

\* The relationships of a member are to its principals, and to all of them.
LEMMA MemberPrincipals ==
  ASSUME NEW b, NEW m
  PROVE  /\ \A r \in memberRelationships(b, m) :
              /\ r.by = "BINDING_PRINCIPAL" /\ r.from = <<KeyOf[b]>>
              /\ r.target \in principals(b, m)
         /\ \A t \in principals(b, m) : \E r \in memberRelationships(b, m) : r.target = t
<1>1. CASE m.type \in DOMAIN convenienceRoles
  <2> DEFINE key(h) == <<h, convenienceRoles[m.type]>>
             related(h) == Relate("BINDING_PRINCIPAL", <<KeyOf[b]>>, key(h), ~isRole(key(h)))
  <2>1. memberRelationships(b, m) = {related(h) : h \in Hierarchy[b]}
    BY <1>1 DEF memberRelationships, createBasicRoleKey
  <2>2. principals(b, m) = {key(h) : h \in Hierarchy[b]}
    BY <1>1 DEF principals
  <2>3. \A h : /\ related(h).by = "BINDING_PRINCIPAL" /\ related(h).from = <<KeyOf[b]>>
               /\ related(h).target = key(h)
    BY DEF Relate
  <2> HIDE DEF key, related
  <2> QED
    BY <2>1, <2>2, <2>3
<1>2. CASE m.type \notin DOMAIN convenienceRoles /\ m.type \in entityTypes
  <2> DEFINE related == Relate("BINDING_PRINCIPAL", <<KeyOf[b]>>, <<m.identifier>>,
                          ~(m.type = "serviceAccount" /\ m.identifier \in jobState.entities))
  <2>1. memberRelationships(b, m) = {related} /\ principals(b, m) = {<<m.identifier>>}
    BY <1>2 DEF memberRelationships, principals
  <2>2. /\ related.by = "BINDING_PRINCIPAL" /\ related.from = <<KeyOf[b]>>
        /\ related.target = <<m.identifier>>
    BY DEF Relate
  <2> HIDE DEF related
  <2> QED
    BY <2>1, <2>2
<1>3. CASE m.type \notin DOMAIN convenienceRoles /\ m.type \notin entityTypes
  BY <1>3 DEF memberRelationships, principals
<1> QED
  BY <1>1, <1>2, <1>3

\* What BINDING_PRINCIPAL does with the binding it takes.
LEMMA PrincipalTaken ==
  ASSUME TypeOK, CreatePrincipalRelationships \/ FailOnMember
  PROVE  LET s == "BINDING_PRINCIPAL"
             b == bindings[at[s] + 1]
             linked == UNION {memberRelationships(b, m) : m \in Members[b]} IN
         /\ running(s) /\ bindings' = bindings /\ at'[s] = at[s] + 1
         /\ relationships \subseteq relationships'
         /\ relationships' \ relationships \subseteq linked
         /\ IF unknownFormat(b) THEN status'[s] = "failure"
            ELSE status' = status /\ linked \subseteq relationships'
<1> DEFINE s == "BINDING_PRINCIPAL"
           b == bindings[at[s] + 1]
           linked == UNION {memberRelationships(b, m) : m \in Members[b]}
<1> USE StepNames DEF TypeOK
<1>1. next(s) = b /\ running(s) /\ bindings' = bindings /\ at'[s] = at[s] + 1
  BY DEF CreatePrincipalRelationships, FailOnMember, Take, next
<1>2. unknownFormat(b) <=> \E m \in Members[b] : malformed(m)
  BY DEF unknownFormat, malformed
<1>3. CASE CreatePrincipalRelationships
  <2>1. relationships' = relationships \cup linked /\ ~\E m \in Members[b] : malformed(m)
    BY <1>1, <1>3 DEF CreatePrincipalRelationships
  <2>2. status' = status
    BY <1>3 DEF CreatePrincipalRelationships, safeAddRelationship
  <2> HIDE DEF b, linked
  <2> QED
    BY <1>1, <1>2, <2>1, <2>2 DEF b, linked
<1>4. CASE FailOnMember
  <2>1. PICK before \in SUBSET Members[b] :
          relationships' = relationships \cup UNION {memberRelationships(b, m) : m \in before}
    BY <1>1, <1>4 DEF FailOnMember
  <2>2. (\E m \in Members[b] : malformed(m)) /\ status'[s] = "failure"
    BY <1>1, <1>4 DEF FailOnMember
  <2>3. relationships \subseteq relationships' /\ relationships' \ relationships \subseteq linked
    BY <2>1
  <2> HIDE DEF b, linked
  <2> QED
    BY <1>1, <1>2, <2>2, <2>3 DEF b, linked
<1> QED
  BY <1>3, <1>4

\* No other action takes or relates a binding for BINDING_PRINCIPAL, or fails it.
LEMMA PrincipalLeftAlone ==
  ASSUME TypeOK, [Next]_vars, ~CreatePrincipalRelationships, ~FailOnMember
  PROVE  LET s == "BINDING_PRINCIPAL" IN
         /\ at'[s] = at[s]
         /\ \A r \in relationships' : r.by = s => r \in relationships
         /\ status'[s] = "failure" <=> status[s] = "failure"
<1> DEFINE s == "BINDING_PRINCIPAL"
<1> USE StepNames DEF TypeOK
<1>1. at'[s] = at[s]
  BY DEF Next, vars, Start, Finish, HandleBinding, FailListing, EndScope, Take, CreateBasicRole,
     CreateBindingRoleRelationship, CreateBindingToAnyResourceRelationship,
     CreateApiServiceRelationship
<1>2. ASSUME NEW r \in relationships', r.by = s, r \notin relationships
      PROVE  FALSE
  <2>1. CASE CreateBindingRoleRelationship \/ CreateBindingToAnyResourceRelationship
             \/ CreateApiServiceRelationship
    BY <1>2, <2>1, LinkAdded, LinkFields
  <2>2. CASE relationships' = relationships
    BY <1>2, <2>2
  <2> QED
    BY <2>1, <2>2 DEF Next, vars, Start, Finish, HandleBinding, FailListing, EndScope,
       CreateBasicRole
<1>3. status'[s] = "failure" <=> status[s] = "failure"
  BY DEF Next, vars, Start, Finish, HandleBinding, FailListing, EndScope, Take, CreateBasicRole,
     CreateBindingRoleRelationship, CreateBindingToAnyResourceRelationship,
     CreateApiServiceRelationship, Abort, FailDuplicate, running
<1> QED
  BY <1>1, <1>2, <1>3

LEMMA PrincipalsStep ==
  ASSUME TypeOK, PrincipalsRelated, [Next]_vars
  PROVE  PrincipalsRelated'
<1> DEFINE s == "BINDING_PRINCIPAL"
<1>a. at[s] \in 0..Len(bindings) /\ Len(bindings) \in Nat
  BY StepNames DEF TypeOK
<1>b. relationships \subseteq relationships'
  BY OnlyRunningAdds
<1>c. ASSUME NEW c PROVE allPrincipals(c)' = allPrincipals(c) /\ unknownFormat(c)' = unknownFormat(c)
                        /\ assigned(c) \subseteq assigned(c)'
  BY <1>b DEF allPrincipals, principals, unknownFormat, assigned
<1>d. \A i \in 1..at[s] : bindings'[i] = bindings[i]
  BY <1>a, BindingsKept
<1>1. CASE ~CreatePrincipalRelationships /\ ~FailOnMember
  <2>1. /\ at'[s] = at[s] /\ \A r \in relationships' : r.by = s => r \in relationships
        /\ status'[s] = "failure" <=> status[s] = "failure"
    BY <1>1, PrincipalLeftAlone
  <2>2. ASSUME NEW r \in relationships', r.by = s
        PROVE  \E i \in 1..at'[s] : /\ r.from = <<KeyOf[bindings'[i]]>>
                                    /\ r.target \in allPrincipals(bindings'[i])
    BY <2>1, <2>2, <1>d DEF PrincipalsRelated
  <2>3. ASSUME NEW i \in 1..at'[s]
        PROVE  /\ unknownFormat(bindings'[i]) => i = at'[s] /\ status'[s] = "failure"
               /\ ~unknownFormat(bindings'[i]) =>
                    \A t \in allPrincipals(bindings'[i]) :
                      \E r \in assigned(bindings[i])' : r.target = t
    <3>1. bindings'[i] = bindings[i]
      BY <2>1, <1>d
    <3>2. assigned(bindings[i]) \subseteq assigned(bindings[i])'
      BY <1>b, <3>1 DEF assigned
    <3> QED
      BY <2>1, <3>1, <3>2 DEF PrincipalsRelated
  <2>4. status'[s] = "failure" => at'[s] # 0 /\ unknownFormat(bindings'[at'[s]])
    BY <1>a, <1>d, <2>1 DEF PrincipalsRelated
  <2> QED
    BY <2>2, <2>3, <2>4 DEF PrincipalsRelated, allPrincipals, principals, unknownFormat
<1>2. CASE CreatePrincipalRelationships \/ FailOnMember
  <2>n. PICK n \in Nat : n = at[s] + 1
    BY <1>a
  <2> DEFINE b == bindings[n]
             linked == UNION {memberRelationships(b, m) : m \in Members[b]}
  <2>1. /\ running(s) /\ bindings' = bindings /\ at'[s] = n
        /\ relationships' \ relationships \subseteq linked
        /\ IF unknownFormat(b) THEN status'[s] = "failure"
           ELSE status' = status /\ linked \subseteq relationships'
    BY <1>2, <2>n, PrincipalTaken
  <2>2. \A r \in linked : /\ r.by = s /\ r.from = <<KeyOf[b]>>
                          /\ r.target \in allPrincipals(b)
    BY MemberPrincipals DEF allPrincipals
  <2>3. \A t \in allPrincipals(b) : \E r \in linked : r.target = t
    BY MemberPrincipals DEF allPrincipals
  <2> HIDE DEF linked
  <2>a. n \in 1..n /\ 1..n = 1..at[s] \cup {n} /\ n # 0
    BY <1>a, <2>n
  <2>4. ASSUME NEW r \in relationships', r.by = s
        PROVE  \E i \in 1..n : /\ r.from = <<KeyOf[bindings[i]]>>
                               /\ r.target \in allPrincipals(bindings[i])
    <3>1. CASE r \in relationships
      BY <2>4, <2>a, <3>1 DEF PrincipalsRelated
    <3>2. CASE r \notin relationships
      BY <2>1, <2>2, <2>a, <3>2
    <3> QED
      BY <3>1, <3>2
  <2>5. ASSUME NEW i \in 1..at[s]
        PROVE  /\ ~unknownFormat(bindings[i])
               /\ \A t \in allPrincipals(bindings[i]) :
                    \E r \in assigned(bindings[i])' : r.target = t
    <3>1. status[s] # "failure"
      BY <2>1 DEF running
    <3>2. assigned(bindings[i]) \subseteq assigned(bindings[i])'
      BY <1>b, <2>1 DEF assigned
    <3> QED
      BY <3>1, <3>2 DEF PrincipalsRelated
  <2>6. ASSUME ~unknownFormat(b), NEW t \in allPrincipals(b)
        PROVE  \E r \in assigned(bindings[n])' : r.target = t
    <3>1. PICK r \in linked : r.target = t
      BY <2>3
    <3>2. r \in relationships' /\ r.by = s /\ r.from = <<KeyOf[b]>>
      BY <2>1, <2>2, <2>6
    <3>3. r \in assigned(bindings[n])'
      BY <2>1, <3>2 DEF assigned
    <3> QED
      BY <3>1, <3>3
  <2>7. status'[s] = "failure" => unknownFormat(b)
    BY <2>1 DEF running
  <2>8. PrincipalsRelated' =
          LET taken == at'[s] IN
          /\ \A r \in relationships' : r.by = s =>
               \E i \in 1..taken :
                 r.from = <<KeyOf[bindings'[i]]>> /\ r.target \in allPrincipals(bindings'[i])
          /\ \A i \in 1..taken :
               /\ unknownFormat(bindings'[i]) => i = taken /\ status'[s] = "failure"
               /\ ~unknownFormat(bindings'[i]) =>
                    \A t \in allPrincipals(bindings'[i]) :
                      \E r \in assigned(bindings[i])' : r.target = t
          /\ status'[s] = "failure" => taken # 0 /\ unknownFormat(bindings'[taken])
    BY DEF PrincipalsRelated, allPrincipals, principals, unknownFormat
  <2> QED
    BY <2>1, <2>4, <2>5, <2>6, <2>7, <2>8, <2>a
<1> QED
  BY <1>1, <1>2

\* A resource has its service's relationship under the key of no project.
LEMMA ServiceTracked ==
  ASSUME CreateApiServiceRelationship,
         NEW r \in relationships' \ relationships, r.by = "API_SERVICE_ANY_RESOURCE"
  PROVE  LET b == next("API_SERVICE_ANY_RESOURCE") IN
         /\ r.from = serviceKey(b) /\ r.target = <<ResourceOf[b].key>>
         /\ trackerKey(b) \in tracker'
<1> DEFINE b == next("API_SERVICE_ANY_RESOURCE")
<1>1. trackerKey(b) \in tracker'
  BY DEF CreateApiServiceRelationship
<1>2. ResourceOf[b].type # "project"
  BY DEF CreateApiServiceRelationship, isOrganizationalHierarchyResource
<1>3. r = serviceLink(b)
  BY LinkAdded
<1> QED
  BY <1>1, <1>2, <1>3, LinkFields DEF keyOfResource

LEMMA ServicesStep ==
  ASSUME TypeOK, ServicesTracked, [Next]_vars
  PROVE  ServicesTracked'
<1> SUFFICES ASSUME NEW r \in relationships', r.by = "API_SERVICE_ANY_RESOURCE"
             PROVE  \E i \in 1..Len(bindings') :
                      /\ r.from = serviceKey(bindings'[i])
                      /\ r.target = <<ResourceOf[bindings'[i]].key>>
                      /\ trackerKey(bindings'[i]) \in tracker'
  BY DEF ServicesTracked, serviceKey, trackerKey
<1>1. CASE r \in relationships
  <2>1. PICK i \in 1..Len(bindings) : /\ r.from = serviceKey(bindings[i])
                                      /\ r.target = <<ResourceOf[bindings[i]].key>>
                                      /\ trackerKey(bindings[i]) \in tracker
    BY <1>1 DEF ServicesTracked
  <2>2. i \in 1..Len(bindings') /\ bindings'[i] = bindings[i] /\ tracker \subseteq tracker'
    BY BindingsKept, OnlyRunningAdds
  <2> QED
    BY <2>1, <2>2
<1>2. CASE r \notin relationships
  <2> DEFINE i == at["API_SERVICE_ANY_RESOURCE"] + 1
  <2>1. CreateApiServiceRelationship
    BY <1>2, TakenBy
  <2>2. i \in 1..Len(bindings') /\ bindings' = bindings
    BY <2>1, StepNames DEF CreateApiServiceRelationship, Take, TypeOK
  <2>3. /\ r.from = serviceKey(bindings[i]) /\ r.target = <<ResourceOf[bindings[i]].key>>
        /\ trackerKey(bindings[i]) \in tracker'
    BY <1>2, <2>1, ServiceTracked DEF next
  <2> QED
    BY <2>2, <2>3
<1> QED
  BY <1>1, <1>2

\* API_SERVICE_ANY_RESOURCE takes a resource once: what it relates twice are two.
LEMMA DuplicatesStep ==
  ASSUME TypeOK, ServicesTracked, DuplicatesExplained, [Next]_vars
  PROVE  DuplicatesExplained'
<1> DEFINE s == "API_SERVICE_ANY_RESOURCE"
           Collision(b, c) == /\ ResourceOf[b] # ResourceOf[c]
                              /\ serviceKey(b) = serviceKey(c)
                              /\ ResourceOf[b].key = ResourceOf[c].key
<1>a. Entities \subseteq Entities'
  BY BindingsKept DEF Entities
<1>1. ASSUME duplicate' = duplicate
      PROVE  DuplicatesExplained'
  <2>1. ASSUME duplicate # {}
        PROVE  \E b, c \in Entities' : Collision(b, c)
    BY <1>a, <2>1 DEF DuplicatesExplained
  <2> QED
    BY <1>1, <2>1 DEF DuplicatesExplained, serviceKey
<1>2. CASE CreatePrincipalRelationships
  BY <1>1, <1>2 DEF CreatePrincipalRelationships, safeAddRelationship
<1>3. CASE CreateApiServiceRelationship /\ duplicate' = duplicate \cup {s}
           /\ duplicate' # duplicate
  <2> DEFINE b == next(s)
  <2>1. /\ serviceLink(b) \in relationships /\ trackerKey(b) \notin tracker
        /\ ResourceOf[b].type # "project" /\ bindings' = bindings
        /\ at[s] < Len(bindings)
    BY <1>3 DEF CreateApiServiceRelationship, isOrganizationalHierarchyResource, Take, serviceLink
  <2>2. serviceLink(b).from = serviceKey(b) /\ serviceLink(b).target = <<ResourceOf[b].key>>
    BY <2>1, LinkFields DEF keyOfResource
  <2>3. PICK i \in 1..Len(bindings) : /\ serviceLink(b).from = serviceKey(bindings[i])
                                      /\ serviceLink(b).target = <<ResourceOf[bindings[i]].key>>
                                      /\ trackerKey(bindings[i]) \in tracker
    BY <2>1, LinkFields DEF ServicesTracked
  <2>4. b \in Entities /\ bindings[i] \in Entities
    BY <2>1, StepNames DEF Entities, next, TypeOK
  <2>5. ResourceOf[b] # ResourceOf[bindings[i]]
    BY <2>1, <2>2, <2>3 DEF serviceKey, trackerKey
  <2>6. Collision(b, bindings[i])
    BY <2>2, <2>3, <2>5
  <2>7. \E c, d \in Entities' : Collision(c, d)
    BY <1>a, <2>4, <2>6
  <2>8. duplicate' \subseteq {s}
    BY <1>3 DEF DuplicatesExplained
  <2> QED
    BY <2>7, <2>8 DEF DuplicatesExplained, serviceKey
<1>4. CreateApiServiceRelationship => duplicate' \in {duplicate, duplicate \cup {s}}
  BY DEF CreateApiServiceRelationship, FailDuplicate
<1>5. (\E b \in Bindings : HandleBinding(b)) => duplicate' = duplicate
  BY OneForEachKey
<1> QED
  BY <1>1, <1>2, <1>3, <1>4, <1>5 DEF Next, vars, Start, Finish, FailListing, EndScope,
     CreateBasicRole, CreateBindingRoleRelationship, FailOnMember,
     CreateBindingToAnyResourceRelationship

LEMMA IInvStep == IInv /\ [Next]_vars => IInv'
<1> SUFFICES ASSUME IInv, [Next]_vars PROVE IInv'
  OBVIOUS
<1> USE DEF IInv
<1>1. TypeOK' /\ StepsInOrder'
  BY TypeStep, OrderStep
<1>2. IBindings'
  BY ListingStep, KeysStep, ReturnedStep DEF IBindings
<1>3. IRoles'
  BY BasicRolesStep, RoleLinksStep, MappedStep DEF IRoles
<1>4. ServicesTracked' /\ DuplicatesExplained'
  BY ServicesStep, DuplicatesStep
<1>5. PrincipalsRelated'
  BY PrincipalsStep
<1> QED
  BY <1>1, <1>2, <1>3, <1>4, <1>5

-----------------------------------------------------------------------------
(* The theorems                                                              *)

\* The invariant of the six steps holds whatever they interleave.
THEOREM Invariance == Spec => []IInv
BY InitIInv, IInvStep, PTL DEF Spec

\* The state of the six steps is always well typed.
THEOREM TypeCorrect == Spec => []TypeOK
BY Invariance, PTL DEF IInv

\* However the scopes return them, fetchIamBindings adds one entity for each
\* key of the bindings it was given: none is added twice, and none is lost
\* unless a listing was cut short.
THEOREM BindingsAreComplete == Spec => []BindingsComplete
<1>1. IInv => BindingsComplete
  <2> SUFFICES ASSUME IInv PROVE BindingsComplete
    OBVIOUS
  <2> USE DEF IInv, IBindings
  <2>1. \A i, j \in 1..Len(bindings) : i # j => KeyOf[bindings[i]] # KeyOf[bindings[j]]
    BY DEF KeysDistinct
  <2>2. ASSUME status["IAM_BINDINGS"] = "success", ~truncated,
               NEW i \in DOMAIN Scopes, NEW b \in Listed[i]
        PROVE  \E c \in Entities : KeyOf[c] = KeyOf[b]
    <3>1. b \in Bindings /\ i < scope
      BY <2>2, ScopesTyped DEF ListingNested, TypeOK
    <3>2. KeyOf[b] \in bindingKeys
      BY <2>2, <3>1 DEF ReturnedAdded, Returned
    <3> QED
      BY <3>2 DEF bindingKeys, Entities
  <2>3. \A b \in Entities : \E i \in DOMAIN Scopes : b \in Listed[i]
    BY DEF ReturnedAdded, Entities
  <2> QED
    BY <2>1, <2>2, <2>3 DEF BindingsComplete
<1> QED
  BY <1>1, Invariance, PTL

\* Each binding has one relationship to its role, to the entity that
\* BASIC_ROLES added if the role is basic, and none is mapped to such an entity.
THEOREM RolesDoAgree == Spec => []RolesAgree
<1>1. IInv => RolesAgree
  <2> SUFFICES ASSUME IInv PROVE RolesAgree
    OBVIOUS
  <2> USE DEF IInv, IBindings, IRoles
  <2>1. ASSUME NEW b \in Entities
        PROVE  Cardinality(usesRole(b)) <= 1
    <3>1. PICK i \in 1..Len(bindings) : b = bindings[i]
      BY DEF Entities
    <3>2. usesRole(b) \subseteq {roleLink(b)}
      <4>1. SUFFICES ASSUME NEW r \in usesRole(b) PROVE r = roleLink(b)
        OBVIOUS
      <4>2. PICK j \in 1..at["BINDING_ROLE"] : r = roleLink(bindings[j])
        BY DEF usesRole, RoleLinks
      <4>3. j \in 1..Len(bindings)
        BY StepNames DEF TypeOK
      <4>4. KeyOf[bindings[j]] = KeyOf[b]
        BY <4>2, LinkFields DEF usesRole
      <4> QED
        BY <3>1, <4>2, <4>3, <4>4 DEF KeysDistinct
    <3>3. usesRole(b) = {} \/ usesRole(b) = {roleLink(b)}
      BY <3>2
    <3>4. Cardinality({}) = 0 /\ Cardinality({roleLink(b)}) = 1
      BY FS_EmptySet, FS_Singleton
    <3>5. Cardinality(usesRole(b)) \in {0, 1}
      BY <3>3, <3>4
    <3> QED
      BY <3>5
  <2>2. ASSUME status["BINDING_ROLE"] = "success", status["BASIC_ROLES"] = "success",
               NEW b \in Entities, Role[b] # None, roleKey(b) # <<>>
        PROVE  \E r \in usesRole(b) :
                 r.target = roleKey(b) /\ (Role[b] \in basicRoles => ~r.mapped)
    <3>1. PICK i \in 1..Len(bindings) : b = bindings[i]
      BY DEF Entities
    <3>2. at["BINDING_ROLE"] = Len(bindings) /\ at["BASIC_ROLES"] = Len(bindings)
      BY <2>2, StepNames DEF StepsInOrder
    <3>3. roleLink(b) \in relationships
      BY <2>2, <3>1, <3>2 DEF RoleLinks
    <3>4. Role[b] \in basicRoles => isRole(roleKey(b))
      BY <2>2, <3>1, <3>2 DEF BasicRolesAdded, isRole
    <3> QED
      BY <3>3, <3>4, LinkFields DEF usesRole
  <2> QED
    BY <2>1, <2>2 DEF RolesAgree, MappedApart
<1> QED
  BY <1>1, Invariance, PTL

\* BINDING_PRINCIPAL relates each binding to all of its principals, unless a
\* member of a binding added before it, or of its own, has an unknown format:
\* that fails the step, and nothing else does.
THEOREM PrincipalsAreComplete == Spec => []PrincipalsComplete
<1>1. IInv => PrincipalsComplete
  <2> DEFINE s == "BINDING_PRINCIPAL"
             unknownUpTo(i) == \E j \in 1..i : unknownFormat(bindings[j])
             targets(b) == {r.target : r \in assigned(b)}
  <2> SUFFICES ASSUME IInv, status[s] \in {"success", "failure"}
               PROVE  /\ status[s] = "failure" <=> unknownUpTo(Len(bindings))
                      /\ \A i \in 1..Len(bindings) :
                           /\ targets(bindings[i]) \subseteq allPrincipals(bindings[i])
                           /\ ~unknownUpTo(i) =>
                                targets(bindings[i]) = allPrincipals(bindings[i])
                           /\ unknownUpTo(i - 1) => targets(bindings[i]) = {}
    BY DEF PrincipalsComplete
  <2> USE DEF IInv, IBindings
  <2>a. at[s] \in 0..Len(bindings) /\ Len(bindings) \in Nat
    BY StepNames DEF TypeOK
  <2>b. status[s] = "success" => at[s] = Len(bindings)
    BY StepNames DEF StepsInOrder
  <2>c. status[s] = "failure" => at[s] \in 1..Len(bindings) /\ unknownFormat(bindings[at[s]])
    BY <2>a DEF PrincipalsRelated
  <2>d. \A j \in 1..at[s] : unknownFormat(bindings[j]) => j = at[s] /\ status[s] = "failure"
    BY DEF PrincipalsRelated
  <2>1. status[s] = "failure" <=> unknownUpTo(Len(bindings))
    BY <2>b, <2>c, <2>d
  <2>2. ASSUME NEW i \in 1..Len(bindings), NEW r \in assigned(bindings[i])
        PROVE  i <= at[s] /\ r.target \in allPrincipals(bindings[i])
    <3>1. PICK j \in 1..at[s] : r.from = <<KeyOf[bindings[j]]>>
                                /\ r.target \in allPrincipals(bindings[j])
      BY DEF assigned, PrincipalsRelated
    <3>2. j \in 1..Len(bindings) /\ KeyOf[bindings[j]] = KeyOf[bindings[i]]
      BY <2>a, <3>1 DEF assigned
    <3>3. j = i
      BY <3>2 DEF KeysDistinct
    <3> QED
      BY <3>1, <3>3
  <2>3. ASSUME NEW i \in 1..Len(bindings), ~unknownUpTo(i)
        PROVE  allPrincipals(bindings[i]) \subseteq targets(bindings[i])
    <3>1. i \in 1..at[s] /\ ~unknownFormat(bindings[i])
      BY <2>3, <2>a, <2>b, <2>c
    <3> QED
      BY <3>1 DEF PrincipalsRelated
  <2>4. ASSUME NEW i \in 1..Len(bindings), unknownUpTo(i - 1)
        PROVE  assigned(bindings[i]) = {}
    <3>1. PICK j \in 1..(i - 1) : unknownFormat(bindings[j])
      BY <2>4
    <3>2. ~(i <= at[s])
      BY <2>a, <2>d, <3>1
    <3> QED
      BY <2>2, <3>2
  <2> QED
    BY <2>1, <2>2, <2>3, <2>4
<1> QED
  BY <1>1, Invariance, PTL

\* Only API_SERVICE_ANY_RESOURCE may fail with a duplicate _key, and then for
\* two resources of one service for which the same key is generated.
THEOREM DuplicatesAreExplained == Spec => []DuplicatesExplained
BY Invariance, PTL DEF IInv

-----------------------------------------------------------------------------
(* The steps as the executor of StepGraph sees them                          *)

Adding == {"IAM_BINDINGS", "BASIC_ROLES"}
Aborting == {"IAM_BINDINGS", "BASIC_ROLES", "BINDING_ROLE"}

\* The handlers wait for what the catalog says; those that add entities write,
\* and those that need the managed roles say so. None of them provides these.
LEMMA RecordOfStep ==
  ASSUME NEW s \in Steps
  PROVE  /\ record(s) \in Catalog!cloudAssetSteps
         /\ record(s).id = idOf[s]
<1>1. \E r \in Catalog!cloudAssetSteps : r.id = idOf[s]
  BY DEF Steps, Iterating, idOf, Catalog!cloudAssetSteps, Catalog!LastStep, Catalog!StepOf
<1> QED
  BY <1>1 DEF record

LEMMA RecordFields ==
  ASSUME NEW s \in Steps
  PROVE  /\ record(s).dependsOn = {idOf[d] : d \in dependsOn(s)}
         /\ s \in Adding => record(s).writes # {}
         /\ s \in Aborting => "managedRoles" \in record(s).reads
         /\ "managedRoles" \notin record(s).writes
<1> USE RecordOfStep DEF Steps, Iterating, idOf, dependsOn, Adding, Aborting,
        Catalog!cloudAssetSteps, Catalog!LastStep, Catalog!StepOf, Catalog!Handler,
        Catalog!fetchIamBindings, Catalog!createBasicRolesForBindings,
        Catalog!createPrincipalRelationships, Catalog!createBindingRoleRelationships,
        Catalog!createBindingToAnyResourceRelationships,
        Catalog!createApiServiceToAnyResourceRelationships
<1>1. CASE s = "IAM_BINDINGS"
  BY <1>1
<1>2. CASE s = "BASIC_ROLES"
  BY <1>2
<1>3. CASE s = "BINDING_PRINCIPAL"
  BY <1>3
<1>4. CASE s = "BINDING_ROLE"
  BY <1>4
<1>5. CASE s = "BINDING_ANY_RESOURCE"
  BY <1>5
<1>6. CASE s = "API_SERVICE_ANY_RESOURCE"
  BY <1>6
<1> QED
  BY <1>1, <1>2, <1>3, <1>4, <1>5, <1>6

LEMMA DependenciesOfRecords ==
  ASSUME NEW s \in Steps
  PROVE  dependencies[s] = dependsOn(s)
<1>1. \A d, e \in Steps : idOf[d] = idOf[e] => d = e
  BY DEF idOf, Steps, Iterating
<1> QED
  BY <1>1, DependsTyped, RecordFields DEF dependencies

\* What the executor can see of a step of the handlers: one step starts, adds,
\* succeeds, fails or aborts the run, and the others stay as they are.
OthersAlone(s) ==
  \A t \in Steps : t # s => status'[t] = status[t] /\ ingested(t)' = ingested(t)

Shape(s) ==
  /\ OthersAlone(s)
  /\ \/ Start(s) /\ ingested(s)' = ingested(s)
     \/ /\ running(s) /\ status'[s] = "running" /\ aborted' = aborted
        /\ ingested(s)' = ingested(s) \/ (s \in Adding /\ ingested(s)' = "some")
     \/ running(s) /\ status'[s] = "success" /\ ingested(s)' = "all" /\ aborted' = aborted
     \/ /\ running(s) /\ status'[s] = "failure" /\ ingested(s)' = ingested(s)
        /\ aborted' = aborted \/ (s \in Aborting /\ aborted' = TRUE)

\* A step that adds no entity changes only its status, and maybe relationships.
LEMMA NothingIngested ==
  ASSUME TypeOK, NEW s \in Steps, running(s), bindings' = bindings, roles' = roles,
         \/ status' = status /\ aborted' = aborted
         \/ status' = [status EXCEPT ![s] = "failure"]
              /\ (aborted' = aborted \/ (s \in Aborting /\ aborted' = TRUE))
  PROVE  Shape(s)
<1>a. status \in [Steps -> {"pending", "running", "success", "failure"}] /\ status[s] = "running"
  BY DEF TypeOK, running
<1>1. \A t \in Steps : t # s => status'[t] = status[t]
  BY <1>a
<1>2. status'[s] \in {"running", "failure"}
  BY <1>a
<1>3. \A t \in Steps : ingested(t)' = ingested(t)
  BY <1>a, <1>1, <1>2 DEF ingested
<1> QED
  BY <1>a, <1>1, <1>3 DEF Shape, OthersAlone, running

LEMMA HandlerStep ==
  ASSUME TypeOK, [Next]_vars
  PROVE  UNCHANGED vars \/ \E s \in Steps : Shape(s)
<1>a. status \in [Steps -> {"pending", "running", "success", "failure"}]
  BY DEF TypeOK
<1>1. ASSUME NEW s \in Steps, Start(s)
      PROVE  Shape(s)
  <2>1. status' = [status EXCEPT ![s] = "running"] /\ status[s] = "pending"
        /\ bindings' = bindings /\ roles' = roles
    BY <1>1 DEF Start
  <2>2. \A t \in Steps : (t # s => status'[t] = status[t])
                         /\ (status'[t] = "success" <=> status[t] = "success")
    BY <1>a, <2>1
  <2> QED
    BY <1>1, <2>1, <2>2 DEF Shape, OthersAlone, ingested
<1>2. ASSUME NEW s \in Steps, Finish(s)
      PROVE  Shape(s)
  <2>1. /\ running(s) /\ bindings' = bindings /\ roles' = roles /\ aborted' = aborted
        /\ \A t \in Steps : t # s => status'[t] = status[t]
        /\ status'[s] = "success"
    BY <1>a, <1>2 DEF Finish
  <2> QED
    BY <2>1 DEF Shape, OthersAlone, ingested
<1>3. ASSUME NEW b \in Bindings, HandleBinding(b)
      PROVE  Shape("IAM_BINDINGS")
  <2> DEFINE s == "IAM_BINDINGS"
  <2>1. running(s) /\ roles' = roles
    BY <1>3 DEF HandleBinding
  <2>2. CASE bindings' = bindings
    <3>1. \/ status' = status /\ aborted' = aborted
          \/ status' = [status EXCEPT ![s] = "failure"] /\ aborted' \in {aborted, TRUE}
      BY <1>3 DEF HandleBinding, Abort, FailDuplicate
    <3> QED
      BY <2>1, <2>2, <3>1, NothingIngested, StepNames DEF Aborting
  <2>3. CASE bindings' # bindings
    <3>1. status' = status /\ aborted' = aborted /\ bindings' = Append(bindings, b)
      BY <1>3, <2>3 DEF HandleBinding
    <3>2. bindings' # <<>>
      BY <3>1, Appended DEF TypeOK
    <3>3. ingested(s)' = "some"
      BY <2>1, <3>1, <3>2 DEF ingested, running
    <3>4. OthersAlone(s)
      BY <2>1, <3>1 DEF OthersAlone, ingested
    <3> QED
      BY <2>1, <3>1, <3>3, <3>4 DEF Shape, Adding, running
  <2> QED
    BY <2>2, <2>3
<1>4. CASE FailListing \/ EndScope
  BY <1>4, NothingIngested, StepNames DEF FailListing, EndScope
<1>5. CASE CreateBasicRole
  <2> DEFINE s == "BASIC_ROLES"
             key == roleKey(next(s))
  <2>1. running(s) /\ bindings' = bindings
    BY <1>5 DEF CreateBasicRole, Take
  <2>2. CASE roles' = roles
    <3>1. \/ status' = status /\ aborted' = aborted
          \/ status' = [status EXCEPT ![s] = "failure"] /\ aborted' = TRUE
          \/ roles' = roles \cup {key} /\ key \notin roles
      BY <1>5 DEF CreateBasicRole, Abort
    <3>2. roles' # roles \cup {key} \/ key \in roles
      BY <2>2
    <3> QED
      BY <2>1, <2>2, <3>1, <3>2, NothingIngested, StepNames DEF Aborting
  <2>3. CASE roles' # roles
    <3>1. status' = status /\ aborted' = aborted /\ roles' = roles \cup {key}
      BY <1>5, <2>3 DEF CreateBasicRole
    <3>2. roles' # {}
      BY <3>1
    <3>3. ingested(s)' = "some"
      BY <2>1, <3>1, <3>2 DEF ingested, running
    <3>4. OthersAlone(s)
      BY <2>1, <3>1 DEF OthersAlone, ingested
    <3> QED
      BY <2>1, <3>1, <3>3, <3>4, StepNames DEF Shape, Adding, running
  <2> QED
    BY <2>2, <2>3, StepNames
<1>6. CASE CreateBindingRoleRelationship
  <2> DEFINE s == "BINDING_ROLE"
  <2>1. running(s) /\ bindings' = bindings /\ roles' = roles
    BY <1>6 DEF CreateBindingRoleRelationship, Take
  <2>2. \/ status' = status /\ aborted' = aborted
        \/ status' = [status EXCEPT ![s] = "failure"] /\ aborted' = TRUE
    BY <1>6 DEF CreateBindingRoleRelationship, Abort
  <2> QED
    BY <2>1, <2>2, NothingIngested, StepNames DEF Aborting
<1>7. CASE CreatePrincipalRelationships \/ FailOnMember
  BY <1>7, NothingIngested, StepNames DEF CreatePrincipalRelationships, FailOnMember, Take,
     FailDuplicate
<1>8. CASE CreateBindingToAnyResourceRelationship \/ CreateApiServiceRelationship
  BY <1>8, NothingIngested, StepNames DEF CreateBindingToAnyResourceRelationship,
     CreateApiServiceRelationship, Take, FailDuplicate
<1> QED
  BY <1>1, <1>2, <1>3, <1>4, <1>5, <1>6, <1>7, <1>8, StepNames DEF Next

\* An initial state is one of the executor, where no step has added anything.
LEMMA ExecutorInit == Init => Executor!Init
<1> SUFFICES ASSUME Init PROVE Executor!Init
  OBVIOUS
<1>1. \A s \in Steps : ingested(s) = "none"
  BY DEF Init, ingested
<1>2. status = [s \in Steps |-> IF s \in Steps THEN "pending" ELSE "disabled"]
  BY DEF Init
<1> QED
  BY <1>1, <1>2 DEF Init, Executor!Init

\* A step of the handlers is a step of the executor, or one it does not see.
LEMMA ExecutorStep == TypeOK /\ [Next]_vars => [Executor!Next]_(Executor!vars)
<1> SUFFICES ASSUME TypeOK, [Next]_vars
             PROVE  [Executor!Next]_(Executor!vars)
  OBVIOUS
<1>1. CASE UNCHANGED vars
  <2>1. \A s \in Steps : ingested(s)' = ingested(s)
    BY <1>1 DEF ingested, vars
  <2> QED
    BY <1>1, <2>1 DEF vars, Executor!vars
<1>2. ASSUME NEW s \in Steps, Shape(s)
      PROVE  [Executor!Next]_(Executor!vars)
  <2> DEFINE seen == [t \in Steps |-> ingested(t)]
  <2>a. /\ status \in [Steps -> {"pending", "running", "success", "failure"}]
        /\ status' \in [Steps -> {"pending", "running", "success", "failure"}]
    BY TypeStep DEF TypeOK
  <2>b. status' = [status EXCEPT ![s] = status'[s]]
    BY <1>2, <2>a DEF Shape, OthersAlone
  <2>c. seen' = [seen EXCEPT ![s] = ingested(s)']
    BY <1>2 DEF Shape, OthersAlone
  <2>d. ingested(s)' = ingested(s) => seen' = seen
    BY <1>2 DEF Shape, OthersAlone
  <2>1. CASE Start(s) /\ ingested(s)' = ingested(s)
    <3>1. Executor!Ready(s)
      BY <2>1, DependenciesOfRecords DEF Start, Executor!Ready, Executor!GraphOf,
         Executor!DependenciesFinished, Executor!Finished
    <3>2. Executor!StartStep(s)
      BY <2>1, <2>d, <3>1 DEF Start, Executor!StartStep
    <3> QED
      BY <3>2 DEF Executor!Next, Executor!StepActions
  <2>2. CASE /\ running(s) /\ status'[s] = "running" /\ aborted' = aborted
             /\ ingested(s)' = ingested(s) \/ (s \in Adding /\ ingested(s)' = "some")
    <3>1. status' = status
      BY <2>2, <2>a, <2>b DEF running
    <3>2. CASE ingested(s)' = ingested(s)
      BY <2>2, <2>d, <3>1, <3>2 DEF Executor!vars
    <3>3. CASE s \in Adding /\ ingested(s)' = "some" /\ ingested(s) # "some"
      <4>1. ingested(s) = "none"
        BY <2>2, <3>3 DEF running, ingested
      <4>2. record(s).writes # {}
        BY <3>3, RecordFields
      <4>3. Executor!AddEntity(s)
        BY <2>2, <2>c, <3>1, <3>3, <4>1, <4>2 DEF running, Executor!AddEntity
      <4> QED
        BY <4>3 DEF Executor!Next, Executor!StepActions
    <3> QED
      BY <2>2, <3>2, <3>3
  <2>3. CASE running(s) /\ status'[s] = "success" /\ ingested(s)' = "all" /\ aborted' = aborted
    <3>1. Executor!FinishStep(s)
      BY <2>3, <2>b, <2>c DEF running, Executor!FinishStep
    <3> QED
      BY <3>1 DEF Executor!Next, Executor!StepActions
  <2>4. CASE running(s) /\ status'[s] = "failure" /\ ingested(s)' = ingested(s)
             /\ aborted' = aborted
    <3>1. Executor!FailStep(s)
      BY <2>4, <2>b, <2>d DEF running, Executor!FailStep
    <3> QED
      BY <3>1 DEF Executor!Next, Executor!StepActions
  <2>5. CASE /\ running(s) /\ status'[s] = "failure" /\ ingested(s)' = ingested(s)
             /\ s \in Aborting /\ aborted' = TRUE
    <3>1. "managedRoles" \in record(s).reads \cap Catalog!getIamManagedRoleData
      BY <2>5, RecordFields DEF Catalog!getIamManagedRoleData
    <3>2. ~Executor!Available("managedRoles")
      BY RecordFields DEF Executor!Available
    <3>3. Executor!AbortRun(s)
      BY <2>5, <2>b, <2>d, <3>1, <3>2 DEF running, Executor!AbortRun
    <3> QED
      BY <3>3 DEF Executor!Next, Executor!StepActions
  <2> QED
    BY <1>2, <2>1, <2>2, <2>3, <2>4, <2>5 DEF Shape
<1> QED
  BY <1>1, <1>2, HandlerStep

\* The six handlers implement the executor: they wait for what their records
\* depend on, add, succeed and fail as its steps do, and abort the run only for
\* data that their records need and no step of the graph provides.
THEOREM HandlersImplementExecutor == Spec => ImplementsExecutor
BY Invariance, ExecutorInit, ExecutorStep, PTL DEF Spec, ImplementsExecutor, IInv

===============================================================================
