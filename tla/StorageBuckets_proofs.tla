------------------------ MODULE StorageBuckets_proofs ------------------------
(*****************************************************************************)
(* What the step that reads the buckets guarantees, for every set of buckets,*)
(* every split of them into pages (a bucket may be on two), every            *)
(* configuration and policy, and every error its calls may reject with.      *)
(*****************************************************************************)
EXTENDS StorageBuckets, TLAPS

\* Once the buckets are listed, what is known of the organization's policy is
\* its first rule, or nothing, and then for one of the two reasons.
PolicyRead ==
  IF publicAccessPreventionPolicy = None
  THEN rules = <<>> \/ "OrgPolicyClient" \in warned
  ELSE rules = <<publicAccessPreventionPolicy>>

PolicyFirst ==
  /\ status = "policy" => page = 0 /\ publicAccessPreventionPolicy = None
  /\ status = "callbacks" => page > 0
  /\ status \in {"listing", "callbacks", "success"} \/ page > 0 => PolicyRead

\* A callback works on a bucket of a page that was received, and when it is
\* over the bucket has its entity.
CallbacksListed ==
  \A b \in Buckets :
    /\ callback[b] # "unlisted" => \E i \in 1..page : b \in Pages[i]
    /\ callback[b] = "done" => b \in DOMAIN entities
    /\ b \in DOMAIN entities => callback[b] # "unlisted"

\* The pages whose callbacks are over: all those received but for the one in
\* progress.
PagesBehind ==
  /\ status \in {"listing", "success"} =>
       \A i \in 1..page : Pages[i] \subseteq DOMAIN entities
  /\ status = "callbacks" =>
       \A i \in 1..page : i # page => Pages[i] \subseteq DOMAIN entities
  /\ status = "success" /\ ~truncated => page = Len(Pages)

IInv == TypeOK /\ PolicyFirst /\ CallbacksListed /\ PagesBehind /\ ClaimsSound

-----------------------------------------------------------------------------
(* What getPublicState claims of a bucket                                    *)

\* Without the policy of the organization the entity says nothing; with it,
\* both fields say something.
LEMMA ClaimTyped ==
  ASSUME NEW b \in Buckets, NEW policyRead \in BOOLEAN,
         NEW prevention \in BOOLEAN \cup {None}
  PROVE  /\ getPublicState(b, policyRead, prevention)
              \in [access : BucketAccess \cup {None}, isPublicBucket : BOOLEAN \cup {None}]
         /\ prevention = None =>
              /\ getPublicState(b, policyRead, prevention).isPublicBucket = None
              /\ getPublicState(b, policyRead, prevention).access = None
         /\ prevention # None =>
              /\ getPublicState(b, policyRead, prevention).isPublicBucket \in BOOLEAN
              /\ getPublicState(b, policyRead, prevention).access \in BucketAccess
BY DEF getPublicState, accessOf, isPublic, isSubjectToObjectAcls,
       usesEnforcedPublicAccessPrevention, BucketAccess

\* The conditions of the two fields against each other and against `exposed`.
LEMMA ClaimTrue ==
  ASSUME NEW b \in Buckets, NEW policyRead \in BOOLEAN,
         NEW prevention \in BOOLEAN, rules = <<prevention>>
  PROVE  LET e == getPublicState(b, policyRead, prevention) IN
         /\ e.isPublicBucket = TRUE => exposed(b) /\ e.access # "Not public"
         /\ e.isPublicBucket = FALSE /\ exposed(b) => ~policyRead
         /\ e.isPublicBucket = FALSE /\ e.access # "Not public" =>
              b \in Open /\ usesEnforcedPublicAccessPrevention(IamConfiguration[b])
<1>a. prevention # None /\ (rules # <<TRUE>> <=> ~prevention)
  BY StorageAssumption
<1> DEFINE open == policyRead /\ b \in Open
           acls == isSubjectToObjectAcls(IamConfiguration[b], open)
           enforced == usesEnforcedPublicAccessPrevention(IamConfiguration[b])
           e == getPublicState(b, policyRead, prevention)
<1>1. /\ e.isPublicBucket = isPublic(open, acls, enforced, prevention)
      /\ e.access = accessOf(open, acls, enforced, prevention)
  BY <1>a DEF getPublicState
<1>2. acls => isSubjectToObjectAcls(IamConfiguration[b], FALSE)
  BY DEF isSubjectToObjectAcls
<1>3. isSubjectToObjectAcls(IamConfiguration[b], FALSE) => acls \/ open
  BY DEF isSubjectToObjectAcls
<1> QED
  BY <1>a, <1>1, <1>2, <1>3 DEF exposed, isPublic, accessOf, isSubjectToObjectAcls,
     usesEnforcedPublicAccessPrevention

-----------------------------------------------------------------------------

LEMMA InitIInv == Init => IInv
<1> SUFFICES ASSUME Init PROVE IInv
  OBVIOUS
<1> USE DEF Init
<1>1. TypeOK
  <2>1. Len(Pages) \in Nat
    BY StorageAssumption
  <2>2. DOMAIN entities = {}
    OBVIOUS
  <2>3. rules \in {<<>>, <<TRUE>>, <<FALSE>>}
    OBVIOUS
  <2>4. callback \in [Buckets -> {"unlisted", "queued", "calling", "done", "failed"}]
    OBVIOUS
  <2>5. page \in 0..Len(Pages)
    BY <2>1
  <2>6. truncated \in BOOLEAN
    OBVIOUS
  <2>7. warned \subseteq {"OrgPolicyClient", "CloudStorageClient"} /\ refused \subseteq Buckets
    OBVIOUS
  <2> QED
    BY <2>2, <2>3, <2>4, <2>5, <2>6, <2>7 DEF TypeOK
<1>2. PolicyFirst /\ CallbacksListed /\ PagesBehind
  BY DEF PolicyFirst, CallbacksListed, PagesBehind
<1>3. ClaimsSound
  BY DEF ClaimsSound, PublicSound, FieldsAgree
<1> QED
  BY <1>1, <1>2, <1>3 DEF IInv

\* What a callback adds has the type of an entity, and changes no other's.
LEMMA AddTyped ==
  ASSUME TypeOK, NEW b \in Buckets, NEW policyRead \in BOOLEAN,
         addBucketEntity(b, policyRead)
  PROVE  /\ DOMAIN entities' = DOMAIN entities \cup {b}
         /\ entities'[b] = getPublicState(b, policyRead, publicAccessPreventionPolicy)
         /\ \A c \in DOMAIN entities : c # b => entities'[c] = entities[c]
         /\ \A c \in DOMAIN entities' :
              entities'[c] \in [access : BucketAccess \cup {None},
                                isPublicBucket : BOOLEAN \cup {None}]
         /\ callback' = [callback EXCEPT ![b] = "done"]
<1>1. getPublicState(b, policyRead, publicAccessPreventionPolicy)
        \in [access : BucketAccess \cup {None}, isPublicBucket : BOOLEAN \cup {None}]
  BY ClaimTyped DEF TypeOK
<1> QED
  BY <1>1 DEF addBucketEntity, TypeOK

LEMMA TypeStep ==
  ASSUME TypeOK, [Next]_vars
  PROVE  TypeOK'
<1> USE DEF TypeOK
<1>p. Len(Pages) \in Nat
  BY StorageAssumption
<1>1. CASE UNCHANGED vars
  BY <1>1 DEF vars
<1>2. CASE ReceivePreventionPolicy
  <2>1. publicAccessPreventionPolicy' \in BOOLEAN \cup {None}
    <3>1. CASE rules = <<>>
      BY <1>2, <3>1 DEF ReceivePreventionPolicy
    <3>2. CASE rules = <<TRUE>>
      BY <1>2, <3>2 DEF ReceivePreventionPolicy
    <3>3. CASE rules = <<FALSE>>
      BY <1>2, <3>3 DEF ReceivePreventionPolicy
    <3> QED
      BY <3>1, <3>2, <3>3
  <2> QED
    BY <1>2, <2>1 DEF ReceivePreventionPolicy
<1>3. CASE ReceivePage
  <2>1. callback' \in [Buckets -> {"unlisted", "queued", "calling", "done", "failed"}]
    BY <1>3 DEF ReceivePage
  <2>2. page' \in 0..Len(Pages)
    BY <1>3, <1>p DEF ReceivePage
  <2> QED
    BY <1>3, <2>1, <2>2 DEF ReceivePage
<1>4. CASE FinishPage
  BY <1>4 DEF FinishPage
<1>5. ASSUME NEW e \in ApiError, RefusePreventionPolicy(e) \/ FailListing(e) \/ RefusePage(e)
      PROVE  TypeOK'
  BY <1>5 DEF RefusePreventionPolicy, FailListing, RefusePage
<1>6. ASSUME NEW b \in Buckets, getPolicy(b)
      PROVE  TypeOK'
  BY <1>6 DEF getPolicy
<1>7. ASSUME NEW b \in Buckets, ReceivePolicy(b)
      PROVE  TypeOK'
  <2>1. addBucketEntity(b, TRUE)
    BY <1>7 DEF ReceivePolicy
  <2> QED
    BY <1>7, <2>1, AddTyped DEF ReceivePolicy
<1>8. ASSUME NEW b \in Buckets, NEW e \in ApiError, RefusePolicy(b, e)
      PROVE  TypeOK'
  <2>1. addBucketEntity(b, FALSE)
    BY <1>8 DEF RefusePolicy
  <2> QED
    BY <1>8, <2>1, AddTyped DEF RefusePolicy
<1>9. ASSUME NEW b \in Buckets, NEW e \in ApiError, FailPolicy(b, e)
      PROVE  TypeOK'
  <2>1. CASE messageThrown(e) = requesterPays
    <3>1. addBucketEntity(b, FALSE)
      BY <1>9, <2>1 DEF FailPolicy
    <3> QED
      BY <1>9, <2>1, <3>1, AddTyped DEF FailPolicy
  <2>2. CASE messageThrown(e) # requesterPays
    BY <1>9, <2>2 DEF FailPolicy
  <2> QED
    BY <2>1, <2>2
<1> QED
  BY <1>1, <1>2, <1>3, <1>4, <1>5, <1>6, <1>7, <1>8, <1>9 DEF Next

LEMMA PolicyStep ==
  ASSUME TypeOK, PolicyFirst, [Next]_vars
  PROVE  PolicyFirst'
<1> USE DEF TypeOK, PolicyFirst, PolicyRead
<1>p. Len(Pages) \in Nat
  BY StorageAssumption
<1>1. CASE UNCHANGED vars
  BY <1>1 DEF vars
<1>2. CASE ReceivePreventionPolicy
  <2>1. (rules[1] # None /\ rules = <<rules[1]>>) \/ rules = <<>>
    <3>1. CASE rules = <<TRUE>>
      BY <3>1, StorageAssumption
    <3>2. CASE rules = <<FALSE>>
      BY <3>2, StorageAssumption
    <3> QED
      BY <3>1, <3>2
  <2> QED
    BY <1>2, <2>1 DEF ReceivePreventionPolicy
<1>3. CASE ReceivePage
  BY <1>3, <1>p DEF ReceivePage
<1>4. CASE FinishPage
  BY <1>4 DEF FinishPage
<1>5. ASSUME NEW e \in ApiError, RefusePreventionPolicy(e) \/ FailListing(e) \/ RefusePage(e)
      PROVE  PolicyFirst'
  BY <1>5 DEF RefusePreventionPolicy, FailListing, RefusePage
<1>6. ASSUME NEW b \in Buckets, getPolicy(b) \/ ReceivePolicy(b)
      PROVE  PolicyFirst'
  BY <1>6 DEF getPolicy, ReceivePolicy
<1>7. ASSUME NEW b \in Buckets, NEW e \in ApiError, RefusePolicy(b, e) \/ FailPolicy(b, e)
      PROVE  PolicyFirst'
  <2>1. /\ UNCHANGED <<rules, publicAccessPreventionPolicy, page>>
        /\ status' = status \/ status' = "failure"
        /\ warned \subseteq warned'
    BY <1>7 DEF RefusePolicy, FailPolicy
  <2> QED
    BY <2>1
<1> QED
  BY <1>1, <1>2, <1>3, <1>4, <1>5, <1>6, <1>7 DEF Next

LEMMA CallbacksStep ==
  ASSUME TypeOK, CallbacksListed, [Next]_vars
  PROVE  CallbacksListed'
<1> USE DEF TypeOK, CallbacksListed
<1>p. Len(Pages) \in Nat
  BY StorageAssumption
<1>1. CASE UNCHANGED <<callback, page, entities>>
  BY <1>1
<1>2. CASE ReceivePage
  BY <1>2, <1>p DEF ReceivePage
<1>3. ASSUME NEW b \in Buckets, getPolicy(b)
      PROVE  CallbacksListed'
  BY <1>3 DEF getPolicy
<1>4. ASSUME NEW b \in Buckets, NEW policyRead \in BOOLEAN, callback[b] = "calling",
             addBucketEntity(b, policyRead), UNCHANGED page
      PROVE  CallbacksListed'
  <2>1. DOMAIN entities' = DOMAIN entities \cup {b}
    BY <1>4, AddTyped
  <2>2. callback' = [callback EXCEPT ![b] = "done"]
    BY <1>4, AddTyped
  <2> QED
    BY <1>4, <2>1, <2>2
<1>5. ASSUME NEW b \in Buckets, callback[b] = "calling",
             callback' = [callback EXCEPT ![b] = "failed"], UNCHANGED <<page, entities>>
      PROVE  CallbacksListed'
  BY <1>5
<1> QED
  BY <1>1, <1>2, <1>3, <1>4, <1>5 DEF Next, vars, ReceivePreventionPolicy, FinishPage,
     RefusePreventionPolicy, FailListing, RefusePage, ReceivePolicy, RefusePolicy, FailPolicy

LEMMA PagesStep ==
  ASSUME TypeOK, PolicyFirst, CallbacksListed, PagesBehind, [Next]_vars
  PROVE  PagesBehind'
<1> USE DEF TypeOK, PagesBehind
<1>p. Len(Pages) \in Nat /\ \A i \in 1..page : Pages[i] \subseteq Buckets
  BY StorageAssumption
<1>1. CASE UNCHANGED vars
  BY <1>1 DEF vars
<1>2. CASE ReceivePreventionPolicy
  BY <1>2 DEF ReceivePreventionPolicy, PolicyFirst
<1>3. CASE ReceivePage
  BY <1>3, <1>p DEF ReceivePage
<1>4. CASE FinishPage
  <2>1. Pages[page] \subseteq DOMAIN entities
    BY <1>4, <1>p DEF FinishPage, CallbacksListed, PolicyFirst
  <2> QED
    BY <1>4, <2>1, <1>p DEF FinishPage
<1>5. ASSUME NEW e \in ApiError, RefusePreventionPolicy(e) \/ FailListing(e) \/ RefusePage(e)
      PROVE  PagesBehind'
  BY <1>5 DEF RefusePreventionPolicy, FailListing, RefusePage, PolicyFirst
<1>6. ASSUME NEW b \in Buckets, getPolicy(b)
      PROVE  PagesBehind'
  BY <1>6 DEF getPolicy
<1>7. ASSUME NEW b \in Buckets, NEW policyRead \in BOOLEAN, addBucketEntity(b, policyRead),
             UNCHANGED <<status, page, truncated>>
      PROVE  PagesBehind'
  BY <1>7, AddTyped
<1>8. CASE status' = "failure"
  BY <1>8
<1> QED
  BY <1>1, <1>2, <1>3, <1>4, <1>5, <1>6, <1>7, <1>8 DEF Next, ReceivePolicy,
     RefusePolicy, FailPolicy

\* A bucket that is refused for its policy stays refused, and what is published
\* of it and of the organization stays published.
LEMMA PublishedKept ==
  ASSUME [Next]_vars
  PROVE  /\ refused \subseteq refused'
         /\ bucketIdsWithUnprocessedPolicies \subseteq bucketIdsWithUnprocessedPolicies'
         /\ warned \subseteq warned'
         /\ rules' = rules
BY DEF Next, vars, ReceivePreventionPolicy, ReceivePage, FinishPage,
       RefusePreventionPolicy, FailListing, RefusePage, getPolicy, ReceivePolicy,
       RefusePolicy, FailPolicy

\* What an entity must satisfy, for the claim of one bucket.
Sound(b) ==
  LET e == entities[b] IN
  /\ e.isPublicBucket = TRUE => exposed(b) /\ e.access # "Not public"
  /\ e.isPublicBucket = FALSE /\ exposed(b) =>
       b \in refused /\ ("CloudStorageClient" \in warned
                           \/ b \in bucketIdsWithUnprocessedPolicies)
  /\ e.isPublicBucket = None => rules = <<>> \/ "OrgPolicyClient" \in warned
  /\ e.isPublicBucket = None <=> e.access = None
  /\ e.isPublicBucket = FALSE /\ e.access # "Not public" =>
       b \in Open /\ usesEnforcedPublicAccessPrevention(IamConfiguration[b])

LEMMA SoundIsClaimsSound == ClaimsSound <=> \A b \in DOMAIN entities : Sound(b)
BY DEF ClaimsSound, PublicSound, FieldsAgree, Sound

\* An entity that a step leaves alone stays sound.
LEMMA SoundKept ==
  ASSUME [Next]_vars, NEW c \in DOMAIN entities, Sound(c), entities'[c] = entities[c]
  PROVE  Sound(c)'
BY PublishedKept DEF Sound, exposed

\* The entity a callback adds is sound: its policy was read, or its refusal is
\* published in the same step.
LEMMA SoundAdded ==
  ASSUME TypeOK, PolicyRead, [Next]_vars,
         NEW b \in Buckets, NEW policyRead \in BOOLEAN,
         addBucketEntity(b, policyRead),
         ~policyRead => b \in refused' /\ ("CloudStorageClient" \in warned'
                          \/ b \in bucketIdsWithUnprocessedPolicies')
  PROVE  Sound(b)'
<1> DEFINE prevention == publicAccessPreventionPolicy
           e == getPublicState(b, policyRead, prevention)
<1>1. entities'[b] = e
  BY AddTyped
<1>2. exposed(b)' <=> exposed(b)
  BY PublishedKept DEF exposed
<1>3. CASE prevention = None
  <2>1. e.isPublicBucket = None /\ e.access = None
    BY <1>3, ClaimTyped DEF TypeOK
  <2>2. rules = <<>> \/ "OrgPolicyClient" \in warned
    BY <1>3 DEF PolicyRead
  <2> QED
    BY <1>1, <2>1, <2>2, PublishedKept, StorageAssumption DEF Sound
<1>4. CASE prevention # None
  <2>1. e.isPublicBucket # None /\ e.access # None
    BY <1>4, ClaimTyped, StorageAssumption DEF TypeOK
  <2>2. prevention \in BOOLEAN /\ rules = <<prevention>>
    BY <1>4 DEF TypeOK, PolicyRead
  <2>3. /\ e.isPublicBucket = TRUE => exposed(b) /\ e.access # "Not public"
        /\ e.isPublicBucket = FALSE /\ exposed(b) => ~policyRead
        /\ e.isPublicBucket = FALSE /\ e.access # "Not public" =>
             b \in Open /\ usesEnforcedPublicAccessPrevention(IamConfiguration[b])
    BY <2>2, ClaimTrue
  <2> QED
    BY <1>1, <1>2, <2>1, <2>3 DEF Sound
<1> QED
  BY <1>3, <1>4

LEMMA ClaimsStep ==
  ASSUME TypeOK, PolicyFirst, CallbacksListed, ClaimsSound, [Next]_vars
  PROVE  ClaimsSound'
<1>a. ClaimsSound' <=> \A b \in DOMAIN entities' : Sound(b)'
  BY DEF ClaimsSound, PublicSound, FieldsAgree, Sound
<1>1. CASE UNCHANGED entities
  BY <1>1, <1>a, SoundIsClaimsSound, SoundKept
<1>2. ASSUME NEW b \in Buckets, NEW policyRead \in BOOLEAN, callback[b] = "calling",
             addBucketEntity(b, policyRead),
             ~policyRead => b \in refused' /\ ("CloudStorageClient" \in warned'
                              \/ b \in bucketIdsWithUnprocessedPolicies')
      PROVE  ClaimsSound'
  <2>1. PolicyRead
    <3>1. PICK i \in 1..page : b \in Pages[i]
      BY <1>2 DEF CallbacksListed
    <3>2. page > 0
      BY <3>1 DEF TypeOK
    <3> QED
      BY <3>2 DEF PolicyFirst
  <2>2. Sound(b)'
    BY <1>2, <2>1, SoundAdded
  <2>3. ASSUME NEW c \in DOMAIN entities, c # b
        PROVE  Sound(c)'
    <3>1. entities'[c] = entities[c]
      BY <1>2, <2>3, AddTyped
    <3> QED
      BY <3>1, SoundIsClaimsSound, SoundKept
  <2>4. DOMAIN entities' = DOMAIN entities \cup {b}
    BY <1>2, AddTyped
  <2> QED
    BY <1>a, <2>2, <2>3, <2>4
<1>3. ASSUME NEW b \in Buckets, ReceivePolicy(b)
      PROVE  ClaimsSound'
  BY <1>2, <1>3 DEF ReceivePolicy
<1>4. ASSUME NEW b \in Buckets, NEW e \in ApiError, RefusePolicy(b, e)
      PROVE  ClaimsSound'
  BY <1>2, <1>4 DEF RefusePolicy
<1>5. ASSUME NEW b \in Buckets, NEW e \in ApiError, FailPolicy(b, e)
      PROVE  ClaimsSound'
  BY <1>1, <1>2, <1>5 DEF FailPolicy
<1> QED
  BY <1>1, <1>3, <1>4, <1>5 DEF Next, vars, ReceivePreventionPolicy, ReceivePage,
     FinishPage, RefusePreventionPolicy, FailListing, RefusePage, getPolicy

LEMMA IInvStep == IInv /\ [Next]_vars => IInv'
BY TypeStep, PolicyStep, CallbacksStep, PagesStep, ClaimsStep DEF IInv

-----------------------------------------------------------------------------

\* The inductive invariant, on which the two theorems below rest.
THEOREM Invariance == Spec => []IInv
BY InitIInv, IInvStep, PTL DEF Spec

\* The variables keep their types.
THEOREM TypeCorrect == Spec => []TypeOK
<1>1. IInv => TypeOK
  BY DEF IInv
<1> QED
  BY <1>1, Invariance, PTL

\* An entity never says `public` of a bucket that is not exposed, denies it of
\* an exposed one only if the refusal of its policy is published, and says
\* nothing only if the organization's policy was refused or has no rules; its
\* two fields contradict each other in one case only (getPublicState).
THEOREM ClaimsAreSound == Spec => []ClaimsSound
<1>1. IInv => ClaimsSound
  BY DEF IInv
<1> QED
  BY <1>1, Invariance, PTL

\* A step that succeeds on a listing that was not cut short has an entity for
\* each bucket of each page, and for no other bucket
\* (iterateCloudStorageBuckets and its callbacks).
THEOREM NoBucketIsDropped == Spec => []NoBucketDropped
<1>1. IInv => NoBucketDropped
  <2> SUFFICES ASSUME IInv, status = "success", ~truncated
               PROVE  DOMAIN entities = UNION {Pages[i] : i \in DOMAIN Pages}
    BY DEF NoBucketDropped
  <2>1. page = Len(Pages) /\ DOMAIN Pages = 1..page
    BY StorageAssumption DEF IInv, PagesBehind
  <2>2. \A i \in DOMAIN Pages : Pages[i] \subseteq DOMAIN entities
    BY <2>1 DEF IInv, PagesBehind
  <2>3. \A b \in DOMAIN entities : \E i \in DOMAIN Pages : b \in Pages[i]
    BY <2>1 DEF IInv, CallbacksListed, TypeOK
  <2> QED
    BY <2>2, <2>3
<1> QED
  BY <1>1, Invariance, PTL

=============================================================================
