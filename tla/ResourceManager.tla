---------------------------- MODULE ResourceManager ----------------------------
(*****************************************************************************)
(* The Resource Manager steps of one instance: src/steps/resource-manager    *)
(* index.ts and client.ts. Five steps share the job state; two of them need  *)
(* no other, so they run while the others do.                                *)
(*                                                                           *)
(* They list a tree of folders and projects, one parent at a time. The order *)
(* in which the API lists the children of a parent, and how it splits them   *)
(* into pages, is left open.                                                 *)
(*****************************************************************************)
EXTENDS Sequences, FiniteSets

CONSTANTS
  Folders, Projects,
  Organization,   \* the root of the tree
  Clouds,         \* the trees, with what the steps look at in their projects
  Own,            \* client.projectId: the instance's own project
  StartStates     \* the sets of steps the start states may enable

Resource == Folders \cup Projects

Cloud ==
  [parent : [Resource -> Folders \cup {Organization}],
   sys : SUBSET Projects,       \* their projectId starts with 'sys-'
   skip : SUBSET Projects,      \* labelled jupiterone or j1-integration: skip
   folderId : Folders \cup {Organization}]  \* of the config, or not given

Steps == {"ORGANIZATION", "FOLDERS", "ORG_PROJECT_RELATIONSHIPS",
          "PROJECT", "SKIPPED_PROJECTS"}

ASSUME CloudAssumption ==
  /\ Clouds \subseteq Cloud
  /\ Own \in Projects
  /\ Organization \notin Resource
  /\ Folders \cap Projects = {}
  /\ StartStates \subseteq SUBSET Steps

\* The API returns a tree: no folder is, through its parents, in itself.
ASSUME TreeAssumption ==
  \A c \in Clouds : \A S \in SUBSET Folders :
    S # {} => \E f \in S : c.parent[f] \notin S

VARIABLES
  cloud,
  status,         \* of each step
  added,          \* the keys of the entities each step added to the job state
  relationships,  \* <<source, target>>
  projectNames,   \* the projects whose name and id are cached
  frames,         \* FOLDERS: the listings it is nested in
  toList,         \* ORG_PROJECT_RELATIONSHIPS: the folders it has yet to list
  listing,        \* the listing each caller of iterateProjects is in
  duplicate       \* the steps that failed with a duplicate _key

vars == <<cloud, status, added, relationships, projectNames, frames, toList,
          listing, duplicate>>

ListingSteps == {"ORG_PROJECT_RELATIONSHIPS", "SKIPPED_PROJECTS"}

Listing == [source : Folders \cup {Organization},
            rest : SUBSET Projects,    \* what the API has not returned yet
            page : SUBSET Projects]    \* what is left of the page

Frame == [source : Folders \cup {Organization}, todo : SUBSET Folders]

Idle == [source |-> Organization, rest |-> {}, page |-> {}]

children(kind, name) == {r \in kind : cloud.parent[r] = name}

\* Where the listings of an instance that is given a folderId start.
folderParent == cloud.folderId

hasKey(key) == \E s \in Steps : key \in added[s]

running(s) == status[s] = "running"
finished(s) == status[s] \in {"success", "failure"}

-----------------------------------------------------------------------------
(* Steps                                                                     *)

dependsOnOrganization(s) ==                                          \* mutant
  IF s \in {"FOLDERS", "SKIPPED_PROJECTS", "ORG_PROJECT_RELATIONSHIPS"}
  THEN {"ORGANIZATION"} ELSE {}
dependsOn(s) ==
  CASE s \in {"FOLDERS", "SKIPPED_PROJECTS"} -> {"ORGANIZATION"}
    [] s = "ORG_PROJECT_RELATIONSHIPS" -> {"ORGANIZATION", "FOLDERS"}
    [] OTHER -> {}

Init ==
  /\ cloud \in Clouds
  /\ \E enabled \in StartStates :
       status = [s \in Steps |-> IF s \in enabled THEN "pending" ELSE "disabled"]
  /\ added = [s \in Steps |-> {}]
  /\ relationships = {}
  /\ projectNames = {}
  /\ frames = <<>>
  /\ toList = {}
  /\ listing = [s \in ListingSteps |-> Idle]
  /\ duplicate = {}

Start(s) ==
  /\ status[s] = "pending"
  /\ \A d \in dependsOn(s) : finished(d)
  /\ status' = [status EXCEPT ![s] = "running"]
  /\ UNCHANGED <<cloud, added, relationships, projectNames, duplicate>>

\* The handlers that look up the organization do nothing without it.
Lists(name) ==
  [source |-> Organization,
   rest |-> IF hasKey(Organization) THEN children(Projects, name) ELSE {},
   page |-> {}]

StartFetch(s) ==
  /\ s \in {"ORGANIZATION", "PROJECT"}
  /\ Start(s)
  /\ UNCHANGED <<frames, toList, listing>>

StartFolders ==
  /\ Start("FOLDERS")
  /\ frames' = IF hasKey(Organization)
               THEN <<[source |-> Organization, todo |-> children(Folders, folderParent)]>>
               ELSE <<>>
  /\ UNCHANGED <<toList, listing>>

StartOrgProjectRelationships ==
  /\ Start("ORG_PROJECT_RELATIONSHIPS")
  /\ listing' = [listing EXCEPT !["ORG_PROJECT_RELATIONSHIPS"] = Lists(folderParent)]
  /\ toList' = added["FOLDERS"]
  /\ UNCHANGED frames

StartSkippedProjects ==
  /\ Start("SKIPPED_PROJECTS")
  /\ listing' = [listing EXCEPT !["SKIPPED_PROJECTS"] = Lists(Organization)]
  /\ UNCHANGED <<frames, toList>>

Finish(s) ==
  /\ running(s)
  /\ s = "FOLDERS" => frames = <<>>
  /\ s \in ListingSteps => listing[s].rest = {} /\ listing[s].page = {}
  /\ s = "ORG_PROJECT_RELATIONSHIPS" => toList = {}
  /\ s \notin {"ORGANIZATION", "PROJECT"}
  /\ status' = [status EXCEPT ![s] = "success"]
  /\ UNCHANGED <<cloud, added, relationships, projectNames, frames, toList,
                 listing, duplicate>>

\* Any error of an API call fails the step: throwMissingAuthPermissionError.
Fail(s) ==
  /\ running(s)
  /\ status' = [status EXCEPT ![s] = "failure"]
  /\ UNCHANGED <<cloud, added, relationships, projectNames, frames, toList,
                 listing, duplicate>>

-----------------------------------------------------------------------------
(* Handlers                                                                  *)

FetchOrganization ==
  /\ running("ORGANIZATION")
  /\ added' = [added EXCEPT !["ORGANIZATION"] = {Organization}]
  /\ status' = [status EXCEPT !["ORGANIZATION"] = "success"]
  /\ UNCHANGED <<cloud, relationships, projectNames, frames, toList, listing, duplicate>>

\* addEntity throws on a key the job state has; the step fails.
addEntity(s, key, next) ==
  IF hasKey(key)
  THEN /\ status' = [status EXCEPT ![s] = "failure"]
       /\ duplicate' = duplicate \cup {s}
       /\ UNCHANGED added
  ELSE /\ status' = [status EXCEPT ![s] = next]
       /\ added' = [added EXCEPT ![s] = @ \cup {key}]
       /\ UNCHANGED duplicate

\* It does not look whether the project has been added.
FetchProject ==
  /\ running("PROJECT")
  /\ projectNames' = projectNames \cup {Own}
  /\ addEntity("PROJECT", Own, "success")
  /\ UNCHANGED <<cloud, relationships, frames, toList, listing>>

\* getAllInnerFolders: the folder's own folders are listed before the next
\* one of its parent is taken.
InnerFoldersForgotten(folder) == <<>>                                \* mutant
InnerFolders(folder) == <<[source |-> folder, todo |-> children(Folders, folder)]>>

AddFolder(folder) ==
  /\ running("FOLDERS")
  /\ frames # <<>>
  /\ folder \in Head(frames).todo
  /\ added' = [added EXCEPT !["FOLDERS"] = @ \cup {folder}]
  /\ relationships' = relationships \cup {<<Head(frames).source, folder>>}
  /\ frames' = InnerFolders(folder)
                 \o <<[Head(frames) EXCEPT !.todo = @ \ {folder}]>> \o Tail(frames)
  /\ UNCHANGED <<cloud, status, projectNames, toList, listing, duplicate>>

EndFolderListing ==
  /\ running("FOLDERS")
  /\ frames # <<>>
  /\ Head(frames).todo = {}
  /\ frames' = Tail(frames)
  /\ UNCHANGED <<cloud, status, added, relationships, projectNames, toList,
                 listing, duplicate>>

\* iterateProjects: a page arrives, with the token of the next one.
samePageAgain(rest, page) == rest                                    \* mutant
nextPages(rest, page) == rest \ page

ReceivePage(s, page) ==
  /\ running(s)
  /\ listing[s].page = {}
  /\ page # {}
  /\ page \subseteq listing[s].rest
  /\ listing' = [listing EXCEPT ![s].page = page,
                                       ![s].rest = nextPages(@, page)]
  /\ UNCHANGED <<cloud, status, added, relationships, projectNames, frames,
                 toList, duplicate>>

\* shouldSkipProject: the callback of the page returns, with what is left of
\* the page.
SkipSystemProject(s, project) ==
  /\ running(s)
  /\ project \in listing[s].page \cap cloud.sys
  /\ listing' = [listing EXCEPT ![s].page = {}]
  /\ UNCHANGED <<cloud, status, added, relationships, projectNames, frames,
                 toList, duplicate>>

\* The next project of the page that is passed to the step's callback.
Take(s, project) ==
  /\ running(s)
  /\ project \in listing[s].page \ cloud.sys
  /\ listing' = [listing EXCEPT ![s].page = @ \ {project}]

LinkProject(project) ==
  LET s == "ORG_PROJECT_RELATIONSHIPS" IN
  /\ Take(s, project)
  /\ projectNames' = projectNames \cup {project}
  /\ relationships' = relationships \cup {<<listing[s].source, project>>}
  /\ UNCHANGED <<cloud, status, added, frames, toList, duplicate>>

\* The organization's projects have been listed; the folders' come next.
folderNameForgotten(folder) == folderParent                          \* mutant
folderName(folder) == folder

ListFolder(folder) ==
  LET s == "ORG_PROJECT_RELATIONSHIPS" IN
  /\ running(s)
  /\ listing[s].rest = {} /\ listing[s].page = {}
  /\ folder \in toList
  /\ toList' = toList \ {folder}
  /\ listing' = [listing EXCEPT ![s] =
                   [source |-> folder,
                    rest |-> children(Projects, folderName(folder)),
                    page |-> {}]]
  /\ UNCHANGED <<cloud, status, added, relationships, projectNames, frames, duplicate>>

neverAdded(project) == FALSE                                         \* mutant
alreadyAdded(project) == hasKey(project)

\* A project whose label says skip is added, unless the job state has it.
AddSkippedProject(project) ==
  LET s == "SKIPPED_PROJECTS" IN
  /\ Take(s, project)
  /\ IF project \notin cloud.skip \/ alreadyAdded(project)
     THEN UNCHANGED <<status, added, duplicate>>
     ELSE addEntity(s, project, "running")
  /\ UNCHANGED <<cloud, relationships, projectNames, frames, toList>>

-----------------------------------------------------------------------------

Next ==
  \/ \E s \in {"ORGANIZATION", "PROJECT"} : StartFetch(s)
  \/ StartFolders
  \/ StartOrgProjectRelationships
  \/ StartSkippedProjects
  \/ \E s \in Steps : Finish(s) \/ Fail(s)
  \/ FetchOrganization
  \/ FetchProject
  \/ \E folder \in Folders : AddFolder(folder) \/ ListFolder(folder)
  \/ EndFolderListing
  \/ \E s \in ListingSteps :
       \/ \E page \in SUBSET listing[s].rest : ReceivePage(s, page)
       \/ \E project \in Projects : SkipSystemProject(s, project)
  \/ \E project \in Projects : LinkProject(project) \/ AddSkippedProject(project)

\* Every API call settles, well or not (Settles of ApiClient), and every
\* continuation runs.
Spec == Init /\ [][Next]_vars /\ WF_vars(Next)
-----------------------------------------------------------------------------
(* Properties                                                                *)

TypeOK ==
  /\ cloud \in Clouds
  /\ status \in [Steps -> {"disabled", "pending", "running", "success", "failure"}]
  /\ added \in [Steps -> SUBSET (Resource \cup {Organization})]
  /\ relationships \subseteq (Folders \cup {Organization}) \X Resource
  /\ projectNames \subseteq Projects
  /\ frames \in Seq(Frame)
  /\ toList \subseteq Folders
  /\ listing \in [ListingSteps -> Listing]
  /\ duplicate \subseteq Steps

\* The folders under root: the smallest set with its folders and theirs.
Closed(S, root) ==
  \A f \in Folders : cloud.parent[f] \in S \cup {root} => f \in S
Below(root) ==
  {f \in Folders : \A S \in SUBSET Folders : Closed(S, root) => f \in S}

\* What stands for a parent in the graph: with a folderId, the organization
\* stands for that folder.
Standing(parent) == IF parent = folderParent THEN Organization ELSE parent

\* The recursion of getAllInnerFolders reaches folders of the scope only, each
\* from the folder it is in; and if the step succeeds, all of them: the
\* folders of the job state are the tree.
FoldersComplete ==
  /\ added["FOLDERS"] \subseteq Below(folderParent)
  /\ \A f \in added["FOLDERS"] : \A source \in Folders \cup {Organization} :
       <<source, f>> \in relationships <=> source = Standing(cloud.parent[f])
  /\ status["FOLDERS"] = "success" /\ hasKey(Organization)
       => added["FOLDERS"] = Below(folderParent)

\* A listing drops a project only where one of the same parent is skipped.
Exposed(project) ==
  \E sys \in cloud.sys : cloud.parent[sys] = cloud.parent[project]

\* A project has a relationship from its own parent only, whose folder was
\* ingested though FOLDERS may have failed half way; and when both steps
\* succeed each project of the scope has one, but for those a system project
\* exposes. No system project has any. The projects added because they are
\* skipped are of the organization itself, folderId or not, and so not in the
\* tree that a folderId starts.
ProjectsLinked ==
  /\ \A project \in added["SKIPPED_PROJECTS"] :
       cloud.parent[project] = Organization /\ project \in cloud.skip
  /\ \A link \in relationships : link[2] \in Projects =>
       /\ link[1] = Standing(cloud.parent[link[2]])
       /\ hasKey(link[1])
       /\ link[2] \in projectNames \ cloud.sys
  /\ /\ status["ORG_PROJECT_RELATIONSHIPS"] = "success"
     /\ status["FOLDERS"] = "success"
     /\ hasKey(Organization)
     => \A project \in Projects :
          cloud.parent[project] \in Below(folderParent) \cup {folderParent}
            => Exposed(project) \/ <<Standing(cloud.parent[project]), project>>
                                     \in relationships

\* The race of the two steps that add projects ends a step with a duplicate
\* key in one case: the instance's own project is a child of the organization
\* labelled to be skipped, and SKIPPED_PROJECTS was first. The project is in
\* the job state all the same.
DuplicatesExplained ==
  /\ duplicate \subseteq {"PROJECT"}
  /\ duplicate # {} => /\ Own \in added["SKIPPED_PROJECTS"]
                       /\ Own \in cloud.skip
                       /\ cloud.parent[Own] = Organization

\* Every step ends, for the recursion and the listings do; but for one that
\* is enabled without the step it depends on, which never starts.
Ended(s) == \/ status[s] \notin {"pending", "running"}
            \/ /\ status[s] = "pending"
               /\ \E d \in dependsOn(s) : status[d] = "disabled"

StepsEnd == <>(\A s \in Steps : Ended(s))

-----------------------------------------------------------------------------
(* The steps as the executor of StepGraph sees them                          *)

Catalog == INSTANCE AccountSteps

idOf ==
  [ORGANIZATION |-> "fetch-resource-manager-organization",
   FOLDERS |-> "fetch-resource-manager-folders",
   ORG_PROJECT_RELATIONSHIPS |->
     "fetch-resource-manager-org-project-relationships",
   PROJECT |-> "fetch-resource-manager-project",
   SKIPPED_PROJECTS |-> "fetch-resource-manager-skipped-projects"]

record(s) == CHOOSE r \in Catalog!resourceManagerSteps : r.id = idOf[s]

dependencies == [s \in Steps |-> {d \in Steps : idOf[d] \in record(s).dependsOn}]

linksProjects == \E link \in relationships : link[2] \in Projects

ingested(s) ==
  IF status[s] = "success" THEN "all"
  ELSE IF \/ added[s] # {}
          \/ s = "ORG_PROJECT_RELATIONSHIPS" /\ linksProjects
       THEN "some"
  ELSE "none"

Executor == INSTANCE StepGraph WITH
  Last <- {},
  DependsOn <- dependencies,
  Ancestors <- dependencies,
  Kinds <- UNION {record(s).reads \cup record(s).writes : s \in Steps},
  Reads <- [s \in Steps |-> record(s).reads],
  Writes <- [s \in Steps |-> record(s).writes],
  AddsConcurrently <- {},
  Needs <- [s \in Steps |-> {}],
  graph <- "default",
  entities <- [s \in Steps |-> ingested(s)],
  aborted <- FALSE

\* The five handlers, run over one job state, are steps of the executor: they
\* wait for what their records say they depend on, fail with what they added
\* left behind, and start nothing else. What StepGraph shows of such steps
\* holds of these.
ImplementsExecutor == Executor!Init /\ [][Executor!Next]_(Executor!vars)
===============================================================================
