----------------------------- MODULE MCCloudAsset ------------------------------
(*****************************************************************************)
(* CloudAsset over a few bindings: a basic role on the project and on a      *)
(* folder, one role on two disks of one name in two zones, a binding that is *)
(* returned twice, convenience members, deleted and malformed ones.          *)
(*****************************************************************************)
EXTENDS CloudAsset

resource(identifier, type, service, key) ==
  [identifier |-> identifier, type |-> type, service |-> service, key |-> key]
member(type, identifier, deleted) ==
  [type |-> type, identifier |-> identifier, deleted |-> deleted]

bindingIds == {"project", "diskA", "diskATitled", "diskB", "folder", "folderTitled"}

keyOf ==
  [b \in bindingIds |->
     CASE b = "folderTitled" -> "folder" [] b = "diskATitled" -> "diskA" [] OTHER -> b]

role ==
  [b \in bindingIds |->
     CASE b \in {"project", "folder", "folderTitled"} -> "roles/editor"
       [] OTHER -> "projects/p/roles/custom"]

resourceOf ==
  [b \in bindingIds |->
     CASE b = "project" -> resource("projects/p", "project", "resourcemanager", "p")
       [] b \in {"folder", "folderTitled"} ->
            resource("folders/7", "folder", "resourcemanager", "folders/7")
       [] b \in {"diskA", "diskATitled"} ->
            resource("projects/p/zones/a/disks/data", "disk", "compute", "disk:data")
       [] b = "diskB" ->
            resource("projects/p/zones/b/disks/data", "disk", "compute", "disk:data")]

\* The identifier of a project may have its number.
resourceByNumber ==
  [resourceOf EXCEPT !["project"] = resource("projects/1", "project", "resourcemanager", "1")]

members ==
  [b \in bindingIds |->
     CASE b = "project" -> {member("user", "u", FALSE)}
       [] b = "diskA" -> {member("projectEditor", "p", FALSE),
                          member("projectEditor", "q", FALSE)}
       [] b = "diskB" -> {member("serviceAccount", "sa", FALSE),
                          member("serviceAccount", "sa", TRUE)}
       [] b = "diskATitled" -> {member("projectEditor", "p", FALSE),
                                member("malformed", "m", FALSE)}
       [] b = "folder" -> {member("principalSet", "pool", FALSE)}
       [] b = "folderTitled" -> {member("user", "u", FALSE)}]

projectName ==
  [b \in bindingIds |-> IF b \in {"folder", "folderTitled"} THEN None ELSE "projects/1"]

hierarchy ==
  [b \in bindingIds |->
     {"folders/7"} \cup IF projectName[b] = None THEN {} ELSE {"projects/1"}]

scopes == <<"projects/p", "folders/7">>
listed == <<{"project", "diskA", "diskATitled", "diskB"}, {"folder", "folderTitled"}>>

\* The steps of the default graph may all succeed; the one of the project may
\* fail, so that its name is not cached, with those that list custom roles and
\* accounts; or the one that lists the managed roles.
whole ==
  [entities |-> {"projects/1", "folders/7", "sa", "projects/p/roles/custom"},
   names |-> [n \in {"projects/1"} |-> "p"],
   services |-> {<<"projects/1", "compute">>},
   managedRoles |-> TRUE]

jobStates ==
  {whole,
   [whole EXCEPT !.entities = {"folders/7"}, !.names = [n \in {} |-> "p"]],
   [whole EXCEPT !.managedRoles = FALSE]}
===============================================================================
