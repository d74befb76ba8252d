--------------------------- MODULE MCStorageBuckets ---------------------------
(*****************************************************************************)
(* StorageBuckets over two pages of buckets of every configuration that      *)
(* getPublicState tells apart, and one error of each kind.                   *)
(*****************************************************************************)
EXTENDS StorageBuckets

error(response, quota) ==
  [response |-> response, status |-> response, quota |-> quota,
   billing |-> FALSE, handled |-> FALSE, retryable |-> FALSE]

denied == error(403, FALSE)
overQuota == error(403, TRUE)
userProjectMissing == error(400, FALSE)

errors == {denied, overQuota, userProjectMissing}

message ==
  [e \in errors |->
     CASE e = denied -> "Permission denied"
       [] e = overQuota -> "Quota exceeded"
       [] e = userProjectMissing -> requesterPays]

configuration(uniform, enforced) ==
  [uniformBucketLevelAccess |-> uniform, enforced |-> enforced]

buckets == {"public", "private", "acl", "prevented", "preventedAcl"}

pages == <<{"public", "private", "acl"}, {"prevented", "preventedAcl"}>>

iamConfiguration ==
  [b \in buckets |->
     CASE b \in {"public", "private"} -> configuration(TRUE, FALSE)
       [] b = "acl" -> configuration(FALSE, FALSE)
       [] b \in {"prevented", "preventedAcl"} -> configuration(FALSE, TRUE)]

open == {"public", "prevented"}
===============================================================================
