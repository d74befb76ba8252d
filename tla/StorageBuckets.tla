---------------------------- MODULE StorageBuckets ----------------------------
(*****************************************************************************)
(* fetchStorageBuckets (src/steps/storage): the policy of the organization   *)
(* on public access is read once, then the buckets are listed, and for each, *)
(* some at a time, its IAM policy is read and the entity is added, which     *)
(* claims who may read the bucket.                                           *)
(*                                                                           *)
(* A call is taken where it settles (ApiClient shows that it does): with a   *)
(* response, with an authorization error, which withErrorHandling swallows,  *)
(* or with another error, in the words the client leaves it.                 *)
(*****************************************************************************)
EXTENDS ApiErrors, Sequences, FiniteSets

CONSTANTS
  Message,           \* err.message of each error
  Buckets,
  Pages,             \* the pages buckets.list returns, in order
  IamConfiguration,  \* of each bucket, or None
  Open,              \* the buckets whose policy has a public member
  Concurrency,       \* executeConcurrently's limit (5 in the code)
  None

Configurations == [uniformBucketLevelAccess : BOOLEAN, enforced : BOOLEAN]
BucketAccess == {"Not public", "Subject to object ACLs", "Public to internet"}

ASSUME StorageAssumption ==
  /\ DOMAIN Message = ApiError
  /\ Pages \in Seq(SUBSET Buckets) /\ Pages # <<>>
  /\ IamConfiguration \in [Buckets -> Configurations \cup {None}]
  /\ None \notin Configurations \cup BOOLEAN \cup BucketAccess
  /\ Open \subseteq Buckets
  /\ Concurrency \in Nat \ {0}

VARIABLES
  rules,         \* the effective policy: the enforce of each of its rules
  status,        \* of the step: what it waits for, or how it ended
  publicAccessPreventionPolicy,
  page,          \* the page whose buckets are being processed
  truncated,     \* the listing was cut short by an authorization error
  callback,      \* of each bucket
  refused,       \* the buckets whose policy could not be read
  bucketIdsWithUnprocessedPolicies,  \* published when the step succeeds
  entities,      \* what the entity of each bucket claims, once it is added
  warned,        \* the clients that have published the missing permission
  failedWith     \* the error the step failed with, or None

vars == <<rules, status, publicAccessPreventionPolicy, page, truncated, callback,
          refused, bucketIdsWithUnprocessedPolicies, entities, warned, failedWith>>

-----------------------------------------------------------------------------
(* The errors, as a caller of the client sees them                           *)

\* shouldKeepErrorMessage.
keptMessages == {"billing is disabled", "it is disabled", "is not a workspace"}

\* handleApiClientError makes an error of its own, in its own words. One that
\* is retried until the attempts are used up is rejected with as it was.
messageThrown(e) ==
  IF Retryable(e) \/ e.handled \/ Message[e] \in keptMessages
  THEN Message[e] ELSE "Provider API failed"

swallowed(e) == IsAuthorizationError(e) /\ ~Retryable(e)

requesterPays == "Bucket is requester pays bucket but no user project provided."

-----------------------------------------------------------------------------
(* getPublicState                                                            *)

isSubjectToObjectAcls(c, publicPolicy) ==
  c # None /\ ~c.uniformBucketLevelAccess /\ ~publicPolicy
usesEnforcedPublicAccessPrevention(c) == c # None /\ c.enforced

aclsIgnoringPrevention(open, acls, enforced, prevention) ==           \* mutant
  IF open /\ ~prevention THEN "Public to internet"
  ELSE IF acls /\ ~prevention THEN "Subject to object ACLs"
  ELSE "Not public"
accessOf(open, acls, enforced, prevention) ==
  IF open /\ ~prevention THEN "Public to internet"
  ELSE IF acls /\ ~enforced /\ ~prevention THEN "Subject to object ACLs"
  ELSE "Not public"

isPublic(open, acls, enforced, prevention) ==
  (open \/ acls) /\ ~enforced /\ ~prevention

\* policyRead: whether there is a policy to look into.
getPublicState(b, policyRead, prevention) ==
  IF prevention = None THEN [access |-> None, isPublicBucket |-> None]
  ELSE
    LET hasOpenBucketPolicies == policyRead /\ b \in Open
        isObjectAcl == isSubjectToObjectAcls(IamConfiguration[b], hasOpenBucketPolicies)
        enforced == usesEnforcedPublicAccessPrevention(IamConfiguration[b])
    IN [access |-> accessOf(hasOpenBucketPolicies, isObjectAcl, enforced, prevention),
        isPublicBucket |-> isPublic(hasOpenBucketPolicies, isObjectAcl, enforced, prevention)]

-----------------------------------------------------------------------------

Init ==
  /\ rules \in {<<>>, <<TRUE>>, <<FALSE>>}
  /\ status = "policy"
  /\ publicAccessPreventionPolicy = None
  /\ page = 0
  /\ truncated = FALSE
  /\ callback = [b \in Buckets |-> "unlisted"]
  /\ refused = {}
  /\ bucketIdsWithUnprocessedPolicies = {}
  /\ entities = [b \in {} |-> None]
  /\ warned = {}
  /\ failedWith = None

\* fetchOrganizationPublicAccessPreventionPolicy.
ReceivePreventionPolicy ==
  /\ status = "policy"
  /\ status' = "listing"
  /\ publicAccessPreventionPolicy' = IF rules = <<>> THEN None ELSE rules[1]
  /\ UNCHANGED <<rules, page, truncated, callback, refused,
                 bucketIdsWithUnprocessedPolicies, entities, warned, failedWith>>

RefusePreventionPolicy(e) ==
  /\ status = "policy"
  /\ swallowed(e)
  /\ status' = "listing"
  /\ warned' = warned \cup {"OrgPolicyClient"}
  /\ UNCHANGED <<rules, publicAccessPreventionPolicy, page, truncated, callback, refused,
                 bucketIdsWithUnprocessedPolicies, entities, failedWith>>

\* An error of the first call or of the listing fails the step. Only the
\* policy of a bucket may want a project to pay.
FailListing(e) ==
  /\ status \in {"policy", "listing"}
  /\ ~swallowed(e)
  /\ Message[e] # requesterPays
  /\ status' = "failure"
  /\ failedWith' = e
  /\ UNCHANGED <<rules, publicAccessPreventionPolicy, page, truncated, callback, refused,
                 bucketIdsWithUnprocessedPolicies, entities, warned>>

\* iterateCloudStorageBuckets.
ReceivePage ==
  /\ status = "listing"
  /\ page < Len(Pages)
  /\ page' = page + 1
  /\ status' = "callbacks"
  /\ callback' = [b \in Buckets |-> IF b \in Pages[page + 1] THEN "queued" ELSE callback[b]]
  /\ UNCHANGED <<rules, publicAccessPreventionPolicy, truncated, refused,
                 bucketIdsWithUnprocessedPolicies, entities, warned, failedWith>>

RefusePage(e) ==
  /\ status = "listing"
  /\ page < Len(Pages)
  /\ swallowed(e)
  /\ status' = "success"
  /\ truncated' = TRUE
  /\ warned' = warned \cup {"CloudStorageClient"}
  /\ UNCHANGED <<rules, publicAccessPreventionPolicy, page, callback, refused,
                 bucketIdsWithUnprocessedPolicies, entities, failedWith>>

\* The listing goes on when the callbacks of a page are over, and there is a
\* next page.
FinishPage ==
  /\ status = "callbacks"
  /\ \A b \in Pages[page] : callback[b] = "done"
  /\ status' = IF page < Len(Pages) THEN "listing" ELSE "success"
  /\ UNCHANGED <<rules, publicAccessPreventionPolicy, page, truncated, callback, refused,
                 bucketIdsWithUnprocessedPolicies, entities, warned, failedWith>>

-----------------------------------------------------------------------------
(* The callback of a bucket                                                  *)

getPolicy(b) ==
  /\ status = "callbacks"
  /\ callback[b] = "queued"
  /\ Cardinality({c \in Buckets : callback[c] = "calling"}) < Concurrency
  /\ callback' = [callback EXCEPT ![b] = "calling"]
  /\ UNCHANGED <<rules, status, publicAccessPreventionPolicy, page, truncated, refused,
                 bucketIdsWithUnprocessedPolicies, entities, warned, failedWith>>

\* The entity is added whether or not the step has failed meanwhile.
onlyIfRead(b, policyRead) ==                                          \* mutant
  /\ callback' = [callback EXCEPT ![b] = "done"]
  /\ entities' =
       IF ~policyRead THEN entities
       ELSE [c \in DOMAIN entities \cup {b} |->
               IF c = b THEN getPublicState(b, policyRead, publicAccessPreventionPolicy)
               ELSE entities[c]]
addBucketEntity(b, policyRead) ==
  /\ callback' = [callback EXCEPT ![b] = "done"]
  /\ entities' =
       [c \in DOMAIN entities \cup {b} |->
          IF c = b THEN getPublicState(b, policyRead, publicAccessPreventionPolicy)
          ELSE entities[c]]

ReceivePolicy(b) ==
  /\ callback[b] = "calling"
  /\ addBucketEntity(b, TRUE)
  /\ UNCHANGED <<rules, status, publicAccessPreventionPolicy, page, truncated, refused,
                 bucketIdsWithUnprocessedPolicies, warned, failedWith>>

RefusePolicy(b, e) ==
  /\ callback[b] = "calling"
  /\ swallowed(e)
  /\ addBucketEntity(b, FALSE)
  /\ refused' = refused \cup {b}
  /\ warned' = warned \cup {"CloudStorageClient"}
  /\ UNCHANGED <<rules, status, publicAccessPreventionPolicy, page, truncated,
                 bucketIdsWithUnprocessedPolicies, failedWith>>

\* The error is caught if it has the words the handler expects, and fails the
\* step otherwise. The first error of the callbacks is the step's.
FailPolicy(b, e) ==
  /\ callback[b] = "calling"
  /\ ~swallowed(e)
  /\ refused' = refused \cup {b}
  /\ IF messageThrown(e) = requesterPays
     THEN /\ bucketIdsWithUnprocessedPolicies' = bucketIdsWithUnprocessedPolicies \cup {b}
          /\ addBucketEntity(b, FALSE)
          /\ UNCHANGED <<status, failedWith>>
     ELSE /\ callback' = [callback EXCEPT ![b] = "failed"]
          /\ status' = "failure"
          /\ failedWith' = IF failedWith = None THEN e ELSE failedWith
          /\ UNCHANGED <<bucketIdsWithUnprocessedPolicies, entities>>
  /\ UNCHANGED <<rules, publicAccessPreventionPolicy, page, truncated, warned>>

Next ==
  \/ ReceivePreventionPolicy
  \/ ReceivePage
  \/ FinishPage
  \/ \E e \in ApiError : RefusePreventionPolicy(e) \/ FailListing(e) \/ RefusePage(e)
  \/ \E b \in Buckets : getPolicy(b) \/ ReceivePolicy(b)
  \/ \E b \in Buckets, e \in ApiError : RefusePolicy(b, e) \/ FailPolicy(b, e)

Spec == Init /\ [][Next]_vars

-----------------------------------------------------------------------------
(* Properties                                                                *)

TypeOK ==
  /\ rules \in {<<>>, <<TRUE>>, <<FALSE>>}
  /\ status \in {"policy", "listing", "callbacks", "success", "failure"}
  /\ publicAccessPreventionPolicy \in BOOLEAN \cup {None}
  /\ page \in 0..Len(Pages)
  /\ truncated \in BOOLEAN
  /\ callback \in [Buckets -> {"unlisted", "queued", "calling", "done", "failed"}]
  /\ refused \subseteq Buckets
  /\ bucketIdsWithUnprocessedPolicies \subseteq refused
  /\ DOMAIN entities \subseteq Buckets
  /\ \A b \in DOMAIN entities :
       entities[b] \in [access : BucketAccess \cup {None}, isPublicBucket : BOOLEAN \cup {None}]
  /\ warned \subseteq {"OrgPolicyClient", "CloudStorageClient"}
  /\ failedWith \in ApiError \cup {None}

\* The objects of a bucket may be public: its policy or its access control
\* lists allow it, and neither the bucket nor the organization prevents it.
exposed(b) ==
  /\ b \in Open \/ isSubjectToObjectAcls(IamConfiguration[b], FALSE)
  /\ ~usesEnforcedPublicAccessPrevention(IamConfiguration[b])
  /\ rules # <<TRUE>>

PublicSound ==
  \A b \in DOMAIN entities :
    LET public == entities[b].isPublicBucket IN
    /\ public = TRUE => exposed(b)
    /\ public = FALSE /\ exposed(b) =>
         b \in refused /\ ("CloudStorageClient" \in warned
                             \/ b \in bucketIdsWithUnprocessedPolicies)
    /\ public = None => rules = <<>> \/ "OrgPolicyClient" \in warned

FieldsAgree ==
  \A b \in DOMAIN entities :
    LET e == entities[b] IN
    /\ e.isPublicBucket = None <=> e.access = None
    /\ e.isPublicBucket = TRUE => e.access # "Not public"
    /\ e.isPublicBucket = FALSE /\ e.access # "Not public" =>
         b \in Open /\ usesEnforcedPublicAccessPrevention(IamConfiguration[b])

\* An entity says `public` of no bucket that is not exposed; it denies it of an
\* exposed one only if its policy could not be read, which is then published;
\* and it says nothing only if the policy of the organization was refused, and
\* that published, or has no rules ('it's unsafe to just guess'). `public` and
\* `access`, which are computed by different conditions, contradict each other
\* in one case: a public policy on a bucket that prevents public access, which
\* is called 'Public to internet' and not public.
ClaimsSound == PublicSound /\ FieldsAgree

\* When the step succeeds, and the listing was not cut short, each bucket it
\* returned has an entity, those whose policy may not be read among them.
NoBucketDropped ==
  status = "success" /\ ~truncated =>
    DOMAIN entities = UNION {Pages[i] : i \in DOMAIN Pages}

\* 'Being unable to process "requestor pays" buckets is a non-fatal error, and
\* should _not_ cause dependent steps from running' (storage/index.ts).
RequesterPaysNonFatal == failedWith # None => Message[failedWith] # requesterPays
===============================================================================
