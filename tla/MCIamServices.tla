----------------------------- MODULE MCIamServices -----------------------------
(*****************************************************************************)
(* IamServices over two enabled services and one that is not, with           *)
(* permissions that are not called after their service, and a policy with a  *)
(* config of one service or of all.                                          *)
(*****************************************************************************)
EXTENDS IamServices

permissions == {"compute", "cloudmigration", "cloudmessaging", "spanner"}

roles(basic) ==
  (basic :> {}) @@ ("roles/spanner.admin" :> {"spanner"})

customRoles ==
  { [parent |-> "projects", name |-> "r1", includes |-> {"cloudmigration", "cloudmessaging"}],
    [parent |-> "projects", name |-> "r2", includes |-> {"cloudmessaging", "spanner"}],
    [parent |-> "organizations", name |-> "r3", includes |-> {"compute"}] }

member(type, identifier, deleted) ==
  [type |-> type, identifier |-> identifier, deleted |-> deleted]

exempted ==
  { member("serviceAccount", "sa1", FALSE), member("serviceAccount", "other", FALSE),
    member("user", "u", FALSE), member("user", "u", TRUE),
    member("principalSet", "pool", FALSE) }

recreated == {member("serviceAccount", "sa1", FALSE), member("serviceAccount", "sa1", TRUE)}

config(service, members) == [service |-> service, exempted |-> members]

cloudOf(configured, organizationId, basic, configs) ==
  [configured |-> configured, organizationId |-> organizationId,
   enabled |-> {"compute", "fcm"}, auditable |-> {"compute", "spanner"},
   managedRoles |-> roles(basic), customRoles |-> customRoles,
   accounts |-> ("sa1" :> {"k1", "k2"}) @@ ("sa2" :> {}),
   auditConfigs |-> configs]

clouds ==
  { cloudOf(TRUE, FALSE, "roles/owner", {config("compute", exempted), config("spanner", {})}),
    cloudOf(FALSE, TRUE, "roles/viewer", {config("allServices", {}), config("fcm", {})}),
    cloudOf(TRUE, FALSE, "roles/editor", {config("fcm", recreated)}) }
===============================================================================
