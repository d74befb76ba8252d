--------------------------- MODULE MCResourceManager ---------------------------
(*****************************************************************************)
(* ResourceManager over small trees: the instance's own project and others   *)
(* at each level, with and without a system project and a label that says    *)
(* skip, and with and without a folderId.                                    *)
(*****************************************************************************)
EXTENDS ResourceManager

CONSTANTS f1, f2, f3, p1, p2, p3

\* The organization has f1, f3 and p1, f1 has f2 and p2, and p3 is in any of
\* the first two or in the organization.
tree(parent) ==
  [r \in Resource |-> CASE r \in {f1, f3, p1} -> Organization
                         [] r \in {f2, p2} -> f1
                         [] r = p3 -> parent]

trees ==
  [parent : {tree(f) : f \in {f1, f2, Organization}},
   sys : {{}, {p3}},
   skip : {{}, {p1, p2}},
   folderId : {Organization, f1}]

\* Of an organization's own instance, and of an instance that leaves the
\* organization to another one: getStepStartStates enables SKIPPED_PROJECTS
\* there too.
startStates == {Steps, {"PROJECT", "SKIPPED_PROJECTS"}}
===============================================================================
