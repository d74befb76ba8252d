------------------------ MODULE ResourceManager_proofs ------------------------
(*****************************************************************************)
(* What the Resource Manager steps guarantee, for every tree of folders and  *)
(* projects, every folderId, every set of start states, and every order in   *)
(* which the API lists and the steps interleave.                             *)
(*****************************************************************************)
EXTENDS ResourceManager, Integers, TLAPS

Started(s) == status[s] \in {"running", "success", "failure"}
Unstarted(s) == status[s] \in {"disabled", "pending"}

\* The folder, or the organization, that a source of the graph stands for.
parentOf(source) == IF source = Organization THEN folderParent ELSE source

\* A step that has started has what it depends on behind it.
DependenciesBehind ==
  \A s \in Steps : Started(s) => \A d \in dependsOn(s) : finished(d)

\* What each step may have added, and when.
KeysApart ==
  /\ added["ORGANIZATION"] \subseteq {Organization}
  /\ added["FOLDERS"] \subseteq Below(folderParent)
  /\ Unstarted("FOLDERS") => added["FOLDERS"] = {}
  /\ added["ORG_PROJECT_RELATIONSHIPS"] = {}
  /\ added["PROJECT"] \subseteq {Own}
  /\ status["PROJECT"] # "success" => added["PROJECT"] = {}
  /\ added["SKIPPED_PROJECTS"] \subseteq children(Projects, Organization) \cap cloud.skip

\* The listings FOLDERS is nested in are of folders it has added, and below
\* them.
FramesNested ==
  \A i \in DOMAIN frames :
    /\ frames[i].source \in {Organization} \cup added["FOLDERS"]
    /\ frames[i].todo \subseteq children(Folders, parentOf(frames[i].source))

FolderLinks ==
  \A f \in Folders, source \in Folders \cup {Organization} :
    <<source, f>> \in relationships <=>
      f \in added["FOLDERS"] /\ source = Standing(cloud.parent[f])

\* A folder of one that was added is added too, or is still to be taken from
\* one of the listings.
Listed(g) == \E i \in DOMAIN frames : g \in frames[i].todo

FoldersPending ==
  /\ status["FOLDERS"] \in {"running", "success"} /\ hasKey(Organization) =>
       \A g \in Folders :
         cloud.parent[g] \in added["FOLDERS"] \cup {folderParent} =>
           g \in added["FOLDERS"] \/ Listed(g)
  /\ status["FOLDERS"] = "success" => frames = <<>>

IFolders == FramesNested /\ FolderLinks /\ FoldersPending

-----------------------------------------------------------------------------

orgListing == listing["ORG_PROJECT_RELATIONSHIPS"]
inListing == orgListing.rest \cup orgListing.page

\* A listing of projects is of one parent, which is in the job state.
ListingsNested ==
  /\ listing["SKIPPED_PROJECTS"].rest \cup listing["SKIPPED_PROJECTS"].page
       \subseteq children(Projects, Organization)
  /\ orgListing.source \in {Organization} \cup added["FOLDERS"]
  /\ inListing \subseteq children(Projects, parentOf(orgListing.source))
  /\ inListing # {} => hasKey(orgListing.source)
  /\ toList \subseteq added["FOLDERS"]

ProjectLinks ==
  \A source \in Folders \cup {Organization}, project \in Projects :
    <<source, project>> \in relationships =>
      /\ source = Standing(cloud.parent[project])
      /\ hasKey(source)
      /\ project \in projectNames \ cloud.sys

\* A project of the scope is linked, or is lost to a system project, or is
\* still to be listed.
ProjectsPending ==
  /\ status["ORG_PROJECT_RELATIONSHIPS"] \in {"running", "success"}
     /\ hasKey(Organization) =>
       \A project \in Projects :
         cloud.parent[project] \in added["FOLDERS"] \cup {folderParent} =>
           \/ Exposed(project)
           \/ <<Standing(cloud.parent[project]), project>> \in relationships
           \/ project \in inListing
           \/ cloud.parent[project] \in toList
  /\ status["ORG_PROJECT_RELATIONSHIPS"] = "success" =>
       inListing = {} /\ toList = {}

IProjects == ListingsNested /\ ProjectLinks /\ ProjectsPending

IInv == /\ TypeOK
        /\ DependenciesBehind
        /\ KeysApart
        /\ IFolders
        /\ IProjects
        /\ DuplicatesExplained

-----------------------------------------------------------------------------
(* The folders below a root                                                  *)

LEMMA CloudTyped ==
  ASSUME TypeOK
  PROVE  /\ cloud \in Cloud
         /\ cloud.parent \in [Resource -> Folders \cup {Organization}]
         /\ folderParent \in Folders \cup {Organization}
BY CloudAssumption DEF TypeOK, Cloud, folderParent

\* A folder of the root, or of a folder below it, is below it.
LEMMA BelowClosed ==
  ASSUME TypeOK, NEW root, NEW f \in Folders,
         cloud.parent[f] \in Below(root) \cup {root}
  PROVE  f \in Below(root)
BY DEF Below, Closed

LEMMA BelowSmallest ==
  ASSUME NEW root, NEW S \in SUBSET Folders, Closed(S, root)
  PROVE  Below(root) \subseteq S
BY DEF Below

\* No folder is below itself, for the API returns a tree.
LEMMA RootNotBelow ==
  ASSUME TypeOK, NEW root
  PROVE  root \notin Below(root)
<1> SUFFICES ASSUME root \in Below(root)
             PROVE  FALSE
  OBVIOUS
<1> DEFINE T == Below(root)
<1>1. T \subseteq Folders /\ T # {}
  BY DEF Below
<1>2. PICK f \in T : cloud.parent[f] \notin T
  BY <1>1, TreeAssumption DEF TypeOK
<1>3. Closed(T \ {f}, root)
  <2> SUFFICES ASSUME NEW g \in Folders, cloud.parent[g] \in (T \ {f}) \cup {root}
               PROVE  g \in T \ {f}
    BY DEF Closed
  <2>1. g \in T
    BY BelowClosed
  <2>2. g # f
    BY <1>2
  <2> QED
    BY <2>1, <2>2
<1>4. T \ {f} \in SUBSET Folders
  BY <1>1
<1>5. T \subseteq T \ {f}
  BY <1>3, <1>4, BelowSmallest
<1> QED
  BY <1>2, <1>5

\* What a source stands for, and what stands for it, are each other's inverse.
LEMMA StandingOfParent ==
  ASSUME TypeOK, KeysApart, NEW source \in {Organization} \cup added["FOLDERS"]
  PROVE  /\ Standing(parentOf(source)) = source
         /\ source \in Folders \cup {Organization}
<1>1. added["FOLDERS"] \subseteq Folders /\ folderParent \notin added["FOLDERS"]
  BY RootNotBelow DEF KeysApart, Below
<1> QED
  BY <1>1, CloudAssumption DEF Standing, parentOf, Resource

\* AddFolder on the listings: x, the folder's own, comes first, then y, what is
\* left of the one it was taken from, then the others.
Pushed(s, x, y, t) ==
  /\ t \in Seq(Frame)
  /\ \A i \in DOMAIN t : t[i] = x \/ t[i] = y \/ \E j \in DOMAIN s : t[i] = s[j]
  /\ \E i \in DOMAIN t : t[i] = x
  /\ \E i \in DOMAIN t : t[i] = y
  /\ \A j \in DOMAIN s : j # 1 => \E i \in DOMAIN t : t[i] = s[j]

LEMMA FramesPushed ==
  ASSUME NEW s \in Seq(Frame), s # <<>>, NEW x \in Frame, NEW y \in Frame
  PROVE  Pushed(s, x, y, <<x>> \o <<y>> \o Tail(s))
<1> DEFINE u == Tail(s)
           t == <<x>> \o <<y>> \o u
<1>1. u \in Seq(Frame) /\ Len(u) = Len(s) - 1 /\ \A i \in 1..Len(u) : u[i] = s[i+1]
  OBVIOUS
<1>2. t \in Seq(Frame) /\ Len(t) = Len(s) + 1
  BY <1>1
<1>3. t[1] = x /\ t[2] = y /\ \A i \in 1..Len(u) : t[i+2] = u[i]
  BY <1>1
<1>4. ASSUME NEW i \in DOMAIN t
      PROVE  t[i] = x \/ t[i] = y \/ \E j \in DOMAIN s : t[i] = s[j]
  <2>1. i \in 1..(Len(s) + 1)
    BY <1>2
  <2>2. CASE i > 2
    <3>1. i-2 \in 1..Len(u) /\ i-1 \in DOMAIN s
      BY <1>1, <2>1, <2>2
    <3> QED
      BY <1>1, <1>3, <2>1, <3>1
  <2>3. CASE ~(i > 2)
    BY <1>3, <2>1, <2>3
  <2> QED
    BY <2>2, <2>3
<1>5. ASSUME NEW j \in DOMAIN s, j # 1
      PROVE  \E i \in DOMAIN t : t[i] = s[j]
  <2>1. j-1 \in 1..Len(u) /\ j+1 \in DOMAIN t
    BY <1>1, <1>2, <1>5
  <2> QED
    BY <1>1, <1>3, <2>1
<1>6. 1 \in DOMAIN t /\ 2 \in DOMAIN t
  BY <1>1, <1>2
<1> QED
  BY <1>2, <1>3, <1>4, <1>5, <1>6 DEF Pushed

-----------------------------------------------------------------------------

LEMMA InitIInv == Init => IInv
<1> SUFFICES ASSUME Init PROVE IInv
  OBVIOUS
<1> USE DEF Init
<1>a. \A s \in Steps : Unstarted(s) /\ added[s] = {}
  BY DEF Unstarted
<1>b. Idle \in Listing
  BY DEF Idle, Listing
<1>1. TypeOK
  <2>1. status \in [Steps -> {"disabled", "pending", "running", "success", "failure"}]
    OBVIOUS
  <2>2. added \in [Steps -> SUBSET (Resource \cup {Organization})]
    OBVIOUS
  <2>3. listing \in [ListingSteps -> Listing]
    BY <1>b
  <2>4. frames \in Seq(Frame)
    OBVIOUS
  <2> QED
    BY <2>1, <2>2, <2>3, <2>4 DEF TypeOK
<1>2. DependenciesBehind /\ KeysApart /\ DuplicatesExplained
  BY <1>a DEF DependenciesBehind, KeysApart, DuplicatesExplained, Started, Unstarted, Steps
<1>3. IFolders
  <2>1. ~\E i \in DOMAIN frames : TRUE
    OBVIOUS
  <2> QED
    BY <1>a, <2>1 DEF IFolders, FramesNested, FolderLinks, FoldersPending, Unstarted, Steps
<1>4. IProjects
  <2>1. \A s \in ListingSteps : listing[s] = Idle
    OBVIOUS
  <2>2. /\ listing["SKIPPED_PROJECTS"] = Idle /\ orgListing = Idle
        /\ Idle.rest = {} /\ Idle.page = {} /\ Idle.source = Organization
    BY <2>1 DEF ListingSteps, orgListing, Idle
  <2> QED
    BY <1>a, <2>2 DEF IProjects, ListingsNested, ProjectLinks, ProjectsPending,
       inListing, Unstarted, Steps
<1> QED
  BY <1>1, <1>2, <1>3, <1>4 DEF IInv

LEMMA ChildrenTyped ==
  ASSUME NEW kind, NEW name
  PROVE  children(kind, name) \subseteq kind
BY DEF children

LEMMA TypeStep ==
  ASSUME TypeOK, KeysApart, [Next]_vars
  PROVE  TypeOK'
<1> USE DEF TypeOK
<1>l. \A s \in ListingSteps : listing[s] \in Listing
  OBVIOUS
<1>1. CASE UNCHANGED vars
  BY <1>1 DEF vars
<1>2. ASSUME NEW s \in {"ORGANIZATION", "PROJECT"}, StartFetch(s)
      PROVE  TypeOK'
  BY <1>2 DEF StartFetch, Start
<1>3. CASE StartFolders
  <2>1. <<[source |-> Organization, todo |-> children(Folders, folderParent)]>> \in Seq(Frame)
    BY ChildrenTyped DEF Frame
  <2>2. <<>> \in Seq(Frame)
    OBVIOUS
  <2> QED
    BY <1>3, <2>1, <2>2 DEF StartFolders, Start
<1>4. \A name : Lists(name) \in Listing
  BY ChildrenTyped DEF Lists, Listing
<1>5. CASE StartOrgProjectRelationships
  <2>1. toList' \subseteq Folders
    BY <1>5 DEF StartOrgProjectRelationships, KeysApart, Below
  <2> QED
    BY <1>4, <1>5, <2>1 DEF StartOrgProjectRelationships, Start
<1>6. CASE StartSkippedProjects
  BY <1>4, <1>6 DEF StartSkippedProjects, Start
<1>7. ASSUME NEW s \in Steps, Finish(s) \/ Fail(s)
      PROVE  TypeOK'
  BY <1>7 DEF Finish, Fail
<1>8. CASE FetchOrganization
  BY <1>8 DEF FetchOrganization
<1>9. ASSUME NEW s \in Steps, NEW key \in Resource, NEW next \in {"running", "success"},
             addEntity(s, key, next)
      PROVE  /\ status' \in [Steps -> {"disabled", "pending", "running", "success", "failure"}]
             /\ added' \in [Steps -> SUBSET (Resource \cup {Organization})]
             /\ duplicate' \subseteq Steps
  BY <1>9 DEF addEntity
<1>10. CASE FetchProject
  <2>1. "PROJECT" \in Steps /\ Own \in Resource /\ Own \in Projects
    BY CloudAssumption DEF Steps, Resource
  <2> QED
    BY <1>9, <1>10, <2>1 DEF FetchProject
<1>11. ASSUME NEW folder \in Folders, AddFolder(folder)
       PROVE  TypeOK'
  <2>1. Head(frames) \in Frame
    BY <1>11 DEF AddFolder
  <2>2. frames' \in Seq(Frame)
    <3>1. [source |-> folder, todo |-> children(Folders, folder)] \in Frame
      BY ChildrenTyped DEF Frame
    <3>2. [Head(frames) EXCEPT !.todo = @ \ {folder}] \in Frame
      BY <2>1 DEF Frame
    <3> QED
      BY <1>11, <3>1, <3>2, FramesPushed DEF AddFolder, InnerFolders, Pushed
  <2>3. <<Head(frames).source, folder>> \in (Folders \cup {Organization}) \X Resource
    BY <2>1 DEF Frame, Resource
  <2>4. "FOLDERS" \in Steps /\ folder \in Resource
    BY DEF Steps, Resource
  <2> QED
    BY <1>11, <2>2, <2>3, <2>4 DEF AddFolder
<1>12. ASSUME NEW folder \in Folders, ListFolder(folder)
       PROVE  TypeOK'
  <2>1. [source |-> folder, rest |-> children(Projects, folder), page |-> {}] \in Listing
    BY ChildrenTyped DEF Listing
  <2> QED
    BY <1>12, <2>1 DEF ListFolder, folderName
<1>13. CASE EndFolderListing
  BY <1>13 DEF EndFolderListing
<1>14. ASSUME NEW s \in ListingSteps, NEW page \in SUBSET listing[s].rest, ReceivePage(s, page)
       PROVE  TypeOK'
  BY <1>l, <1>14 DEF ReceivePage, Listing, nextPages
<1>15. ASSUME NEW s \in ListingSteps, NEW project \in Projects, SkipSystemProject(s, project)
       PROVE  TypeOK'
  BY <1>l, <1>15 DEF SkipSystemProject, Listing
<1>16. ASSUME NEW s \in ListingSteps, NEW project \in Projects, Take(s, project)
       PROVE  listing' \in [ListingSteps -> Listing]
  BY <1>l, <1>16 DEF Take, Listing
<1>17. ASSUME NEW project \in Projects, LinkProject(project)
       PROVE  TypeOK'
  <2>1. "ORG_PROJECT_RELATIONSHIPS" \in ListingSteps
    BY DEF ListingSteps
  <2>2. listing' \in [ListingSteps -> Listing]
    BY <1>16, <1>17, <2>1 DEF LinkProject
  <2>3. <<listing["ORG_PROJECT_RELATIONSHIPS"].source, project>>
          \in (Folders \cup {Organization}) \X Resource
    BY <1>l, <2>1 DEF Listing, Resource
  <2> QED
    BY <1>17, <2>2, <2>3 DEF LinkProject
<1>18. ASSUME NEW project \in Projects, AddSkippedProject(project)
       PROVE  TypeOK'
  <2>1. "SKIPPED_PROJECTS" \in ListingSteps \cap Steps /\ project \in Resource
    BY DEF ListingSteps, Steps, Resource
  <2>2. listing' \in [ListingSteps -> Listing]
    BY <1>16, <1>18, <2>1 DEF AddSkippedProject
  <2>3. \/ UNCHANGED <<status, added, duplicate>>
        \/ addEntity("SKIPPED_PROJECTS", project, "running")
    BY <1>18 DEF AddSkippedProject
  <2>4. UNCHANGED <<cloud, relationships, projectNames, frames, toList>>
    BY <1>18 DEF AddSkippedProject
  <2> QED
    BY <1>9, <2>1, <2>2, <2>3, <2>4
<1> QED
  BY <1>1, <1>2, <1>3, <1>5, <1>6, <1>7, <1>8, <1>10, <1>11, <1>12, <1>13, <1>14, <1>15,
     <1>17, <1>18 DEF Next

\* The tree does not change, and nothing is taken out of the job state.
LEMMA JobStateGrows ==
  ASSUME TypeOK, KeysApart, [Next]_vars
  PROVE  /\ cloud' = cloud
         /\ \A s \in Steps : added[s] \subseteq added'[s]
         /\ relationships \subseteq relationships'
         /\ projectNames \subseteq projectNames'
         /\ \A key : hasKey(key) => hasKey(key)'
<1> USE DEF TypeOK
<1>1. /\ cloud' = cloud
      /\ relationships \subseteq relationships'
      /\ projectNames \subseteq projectNames'
  BY DEF Next, vars, StartFetch, StartFolders, StartOrgProjectRelationships,
     StartSkippedProjects, Start, Finish, Fail, FetchOrganization, FetchProject,
     AddFolder, ListFolder, EndFolderListing, ReceivePage, SkipSystemProject,
     LinkProject, AddSkippedProject
<1>2. UNCHANGED added \/ \E s \in Steps : \E key : added' = [added EXCEPT ![s] = @ \cup {key}]
                      \/ added' = [added EXCEPT !["ORGANIZATION"] = {Organization}]
  BY DEF Next, vars, StartFetch, StartFolders, StartOrgProjectRelationships,
     StartSkippedProjects, Start, Finish, Fail, FetchOrganization, FetchProject,
     AddFolder, ListFolder, EndFolderListing, ReceivePage, SkipSystemProject,
     LinkProject, AddSkippedProject, addEntity, Steps
<1>3. \A s \in Steps : added[s] \subseteq added'[s]
  BY <1>2 DEF KeysApart
<1> QED
  BY <1>1, <1>3 DEF hasKey

\* Only a running step adds to the job state.
LEMMA OnlyRunningAdds ==
  ASSUME TypeOK, [Next]_vars, NEW s \in Steps, ~running(s)
  PROVE  added'[s] = added[s]
BY DEF TypeOK, running, Next, vars, StartFetch, StartFolders, StartOrgProjectRelationships,
   StartSkippedProjects, Start, Finish, Fail, FetchOrganization, FetchProject,
   AddFolder, ListFolder, EndFolderListing, ReceivePage, SkipSystemProject, Take,
   LinkProject, AddSkippedProject, addEntity, Steps

\* A step starts by Start only, when it is pending, and a step that has
\* finished stays as it finished.
LEMMA StatusMoves ==
  ASSUME TypeOK, [Next]_vars, NEW s \in Steps
  PROVE  /\ finished(s) => status'[s] = status[s]
         /\ Started(s)' /\ ~Started(s) => Start(s)
         /\ Unstarted(s)' => Unstarted(s)
<1> USE DEF TypeOK, finished, running, Started, Unstarted
<1>1. CASE UNCHANGED status
  BY <1>1
<1>2. ASSUME NEW r \in Steps, Start(r)
      PROVE  /\ finished(s) => status'[s] = status[s]
             /\ Started(s)' /\ ~Started(s) => Start(s)
             /\ Unstarted(s)' => Unstarted(s)
  BY <1>2 DEF Start
<1>3. ASSUME NEW r \in Steps, running(r), NEW next \in {"running", "success", "failure"},
             status' = [status EXCEPT ![r] = next]
      PROVE  /\ finished(s) => status'[s] = status[s]
             /\ Started(s)' /\ ~Started(s) => Start(s)
             /\ Unstarted(s)' => Unstarted(s)
  BY <1>3
<1>4. \A r \in Steps, next \in {"running", "success"} : \A key :
        addEntity(r, key, next) =>
          \E n \in {"running", "success", "failure"} : status' = [status EXCEPT ![r] = n]
  BY DEF addEntity
<1>5. CASE FetchProject
  BY <1>3, <1>4, <1>5 DEF FetchProject, Steps
<1>6. ASSUME NEW project \in Projects, AddSkippedProject(project)
      PROVE  UNCHANGED status \/ \E n \in {"running", "success", "failure"} :
               status' = [status EXCEPT !["SKIPPED_PROJECTS"] = n]
  BY <1>4, <1>6 DEF AddSkippedProject, Steps
<1>7. ASSUME NEW project \in Projects, AddSkippedProject(project)
      PROVE  running("SKIPPED_PROJECTS")
  BY <1>7 DEF AddSkippedProject, Take
<1>8. \A r \in Steps : Finish(r) \/ Fail(r) =>
        running(r) /\ \E n \in {"success", "failure"} : status' = [status EXCEPT ![r] = n]
  BY DEF Finish, Fail
<1>9. CASE FetchOrganization
  BY <1>3, <1>9 DEF FetchOrganization, Steps
<1>10. "SKIPPED_PROJECTS" \in Steps
  BY DEF Steps
<1>11. CASE StartFolders \/ StartOrgProjectRelationships \/ StartSkippedProjects
  BY <1>2, <1>11 DEF StartFolders, StartOrgProjectRelationships, StartSkippedProjects, Steps
<1>12. CASE \E r \in {"ORGANIZATION", "PROJECT"} : StartFetch(r)
  BY <1>2, <1>12 DEF StartFetch, Steps
<1>13. CASE \E r \in Steps : Finish(r) \/ Fail(r)
  BY <1>3, <1>8, <1>13
<1>14. CASE \E project \in Projects : AddSkippedProject(project)
  BY <1>1, <1>3, <1>6, <1>7, <1>10, <1>14
<1> QED
  BY <1>1, <1>5, <1>9, <1>11, <1>12, <1>13, <1>14 DEF Next, vars, AddFolder, ListFolder,
     EndFolderListing, ReceivePage, SkipSystemProject, LinkProject

LEMMA DependenciesStep ==
  ASSUME TypeOK, DependenciesBehind, [Next]_vars
  PROVE  DependenciesBehind'
<1> SUFFICES ASSUME NEW s \in Steps, Started(s)', NEW d \in dependsOn(s)
             PROVE  finished(d)'
  BY DEF DependenciesBehind, dependsOn
<1>1. d \in Steps
  BY DEF dependsOn, Steps
<1>2. finished(d)
  BY StatusMoves DEF DependenciesBehind, Start
<1> QED
  BY <1>1, <1>2, StatusMoves DEF finished

LEMMA BelowIsOfFolders == Below(folderParent) \subseteq Folders
BY DEF Below

\* AddFolder takes a folder from the innermost listing, whose folder it is in:
\* that folder was added, and so the new one is below the root as well.
LEMMA FolderTaken ==
  ASSUME TypeOK, KeysApart, FramesNested, NEW folder \in Folders, AddFolder(folder)
  PROVE  /\ Head(frames).source \in {Organization} \cup added["FOLDERS"]
         /\ cloud.parent[folder] = parentOf(Head(frames).source)
         /\ Standing(cloud.parent[folder]) = Head(frames).source
         /\ folder \in Below(folderParent)
<1>1. Head(frames) = frames[1] /\ 1 \in DOMAIN frames
  BY DEF AddFolder, TypeOK
<1>2. /\ Head(frames).source \in {Organization} \cup added["FOLDERS"]
      /\ folder \in children(Folders, parentOf(Head(frames).source))
  BY <1>1 DEF AddFolder, FramesNested
<1>3. cloud.parent[folder] = parentOf(Head(frames).source)
  BY <1>2 DEF children
<1>4. cloud.parent[folder] \in Below(folderParent) \cup {folderParent}
  BY <1>2, <1>3 DEF KeysApart, parentOf
<1> QED
  BY <1>2, <1>3, <1>4, StandingOfParent, BelowClosed

LEMMA KeysStep ==
  ASSUME TypeOK, KeysApart, FramesNested, ListingsNested, [Next]_vars
  PROVE  KeysApart'
<1>c. cloud' = cloud /\ Below(folderParent)' = Below(folderParent)
  BY JobStateGrows DEF Below, Closed, folderParent
<1>d. children(Projects, Organization)' = children(Projects, Organization)
  BY <1>c DEF children
<1>s. \A s \in Steps : Unstarted(s)' => Unstarted(s)
  BY StatusMoves
<1>p. status["PROJECT"] = "success" => status'["PROJECT"] = "success"
  BY StatusMoves DEF finished, Steps
<1>t. "ORGANIZATION" \in Steps /\ "FOLDERS" \in Steps /\ "PROJECT" \in Steps
      /\ "SKIPPED_PROJECTS" \in Steps /\ "ORG_PROJECT_RELATIONSHIPS" \in Steps
  BY DEF Steps
<1>u. Unstarted("FOLDERS")' => added'["FOLDERS"] = {}
  <2> SUFFICES ASSUME Unstarted("FOLDERS")'
               PROVE  added'["FOLDERS"] = {}
    OBVIOUS
  <2>1. Unstarted("FOLDERS")
    BY <1>s, <1>t
  <2>2. ~running("FOLDERS")
    BY <2>1 DEF Unstarted, running
  <2> QED
    BY <1>t, <2>1, <2>2, OnlyRunningAdds DEF KeysApart
<1> USE DEF TypeOK, KeysApart
<1>1. CASE UNCHANGED added
  BY <1>1, <1>c, <1>d, <1>p, <1>u
<1>2. CASE FetchOrganization
  BY <1>2, <1>c, <1>d, <1>p, <1>u DEF FetchOrganization
<1>3. CASE FetchProject /\ ~UNCHANGED added
  <2>1. /\ added' = [added EXCEPT !["PROJECT"] = @ \cup {Own}]
        /\ status' = [status EXCEPT !["PROJECT"] = "success"]
    BY <1>3 DEF FetchProject, addEntity
  <2> QED
    BY <2>1, <1>c, <1>d, <1>t, <1>u
<1>4. ASSUME NEW folder \in Folders, AddFolder(folder)
      PROVE  KeysApart'
  <2>1. added' = [added EXCEPT !["FOLDERS"] = @ \cup {folder}]
    BY <1>4 DEF AddFolder
  <2>2. folder \in Below(folderParent)
    BY <1>4, FolderTaken
  <2> QED
    BY <2>1, <2>2, <1>c, <1>d, <1>p, <1>t, <1>u
<1>5. ASSUME NEW project \in Projects, AddSkippedProject(project), ~UNCHANGED added
      PROVE  KeysApart'
  <2>1. /\ added' = [added EXCEPT !["SKIPPED_PROJECTS"] = @ \cup {project}]
        /\ project \in cloud.skip
        /\ project \in listing["SKIPPED_PROJECTS"].page
    BY <1>5 DEF AddSkippedProject, addEntity, Take
  <2>2. project \in children(Projects, Organization)
    BY <2>1 DEF ListingsNested
  <2> QED
    BY <2>1, <2>2, <1>c, <1>d, <1>p, <1>t, <1>u
<1> QED
  BY <1>1, <1>2, <1>3, <1>4, <1>5 DEF Next, vars, StartFetch, StartFolders,
     StartOrgProjectRelationships, StartSkippedProjects, Start, Finish, Fail, ListFolder,
     EndFolderListing, ReceivePage, SkipSystemProject, LinkProject

\* A duplicate key can only be that of the instance's own project, which
\* FetchProject adds without a look and which only SKIPPED_PROJECTS adds too.
LEMMA DuplicatesStep ==
  ASSUME TypeOK, KeysApart, DuplicatesExplained, [Next]_vars
  PROVE  DuplicatesExplained'
<1>1. CASE UNCHANGED duplicate
  BY <1>1, JobStateGrows DEF DuplicatesExplained, Steps
<1>2. CASE FetchProject /\ hasKey(Own)
  <2>1. running("PROJECT") /\ duplicate' = duplicate \cup {"PROJECT"}
        /\ UNCHANGED <<cloud, added>>
    BY <1>2 DEF FetchProject, addEntity
  <2>2. added["PROJECT"] = {} /\ added["ORG_PROJECT_RELATIONSHIPS"] = {}
    BY <2>1 DEF KeysApart, running
  <2>3. Own \notin added["ORGANIZATION"] /\ Own \notin added["FOLDERS"]
    BY CloudAssumption DEF KeysApart, Below, Resource
  <2>4. Own \in added["SKIPPED_PROJECTS"]
    BY <1>2, <2>2, <2>3 DEF hasKey, Steps
  <2> QED
    BY <2>1, <2>4 DEF DuplicatesExplained, KeysApart, children
<1>3. ASSUME NEW project \in Projects, AddSkippedProject(project)
      PROVE  UNCHANGED duplicate
  BY <1>3 DEF AddSkippedProject, alreadyAdded, addEntity
<1> QED
  BY <1>1, <1>2, <1>3 DEF Next, vars, StartFetch, StartFolders,
     StartOrgProjectRelationships, StartSkippedProjects, Start, Finish, Fail, ListFolder,
     EndFolderListing, ReceivePage, SkipSystemProject, LinkProject, FetchOrganization,
     FetchProject, AddFolder, addEntity

-----------------------------------------------------------------------------
(* The folders                                                               *)

\* Whether the organization is in the job state is settled when a step that
\* waits for it starts.
LEMMA OrganizationSettled ==
  ASSUME TypeOK, DependenciesBehind, KeysApart, KeysApart', [Next]_vars,
         NEW s \in {"FOLDERS", "SKIPPED_PROJECTS", "ORG_PROJECT_RELATIONSHIPS"},
         Started(s)'
  PROVE  hasKey(Organization)' <=> hasKey(Organization)
<1>1. finished("ORGANIZATION")
  <2>1. s \in Steps /\ "ORGANIZATION" \in dependsOn(s)
    BY DEF Steps, dependsOn
  <2> QED
    BY <2>1, StatusMoves DEF DependenciesBehind, Start
<1>2. added'["ORGANIZATION"] = added["ORGANIZATION"]
  BY <1>1, OnlyRunningAdds DEF Steps, finished, running
<1>3. hasKey(Organization) <=> Organization \in added["ORGANIZATION"]
  BY CloudAssumption DEF hasKey, KeysApart, Steps, Below, children, Resource
<1>4. hasKey(Organization)' <=> Organization \in added'["ORGANIZATION"]
  BY CloudAssumption DEF hasKey, KeysApart, Steps, Below, children, Resource
<1> QED
  BY <1>2, <1>3, <1>4

\* The folders, the frames and the links to folders change in the steps of
\* FOLDERS only.
LEMMA FoldersLeftAlone ==
  ASSUME TypeOK, [Next]_vars
  PROVE  \/ StartFolders
         \/ Finish("FOLDERS")
         \/ \E folder \in Folders : AddFolder(folder)
         \/ EndFolderListing
         \/ /\ UNCHANGED <<frames, cloud>>
            /\ added'["FOLDERS"] = added["FOLDERS"]
            /\ status'["FOLDERS"] \in {status["FOLDERS"], "failure"}
            /\ \A f \in Folders, source \in Folders \cup {Organization} :
                 <<source, f>> \in relationships' <=> <<source, f>> \in relationships
<1> USE DEF TypeOK
<1>1. ASSUME NEW project \in Projects, LinkProject(project)
      PROVE  /\ UNCHANGED <<frames, cloud, added, status>>
             /\ \A f \in Folders, source \in Folders \cup {Organization} :
                  <<source, f>> \in relationships' <=> <<source, f>> \in relationships
  BY <1>1, CloudAssumption DEF LinkProject
<1>2. ASSUME NEW s \in Steps, s # "FOLDERS", Start(s)
      PROVE  added' = added /\ status'["FOLDERS"] = status["FOLDERS"]
  BY <1>2 DEF Start, Steps
<1>3. ASSUME NEW s \in Steps, s # "FOLDERS" \/ Fail(s), Finish(s) \/ Fail(s)
      PROVE  added' = added /\ status'["FOLDERS"] \in {status["FOLDERS"], "failure"}
  BY <1>3 DEF Finish, Fail, Steps
<1>4. ASSUME NEW s \in Steps, s # "FOLDERS", NEW key, NEW next, addEntity(s, key, next)
      PROVE  /\ added'["FOLDERS"] = added["FOLDERS"]
             /\ status'["FOLDERS"] = status["FOLDERS"]
  BY <1>4 DEF addEntity, Steps
<1>5. CASE FetchProject \/ \E project \in Projects : AddSkippedProject(project)
  <2>1. /\ UNCHANGED <<frames, cloud, relationships>>
        /\ \/ UNCHANGED <<added, status>>
           \/ \E project \in Projects : addEntity("PROJECT", project, "success")
           \/ \E project \in Projects : addEntity("SKIPPED_PROJECTS", project, "running")
    BY <1>5, CloudAssumption DEF FetchProject, AddSkippedProject
  <2> QED
    BY <1>4, <2>1 DEF Steps
<1>6. CASE \E s \in {"ORGANIZATION", "PROJECT"} : StartFetch(s)
  BY <1>2, <1>6 DEF StartFetch, Steps, Start
<1>7. CASE StartOrgProjectRelationships \/ StartSkippedProjects
  BY <1>2, <1>7 DEF StartOrgProjectRelationships, StartSkippedProjects, Steps, Start
<1>8. CASE \E s \in Steps : Finish(s) \/ Fail(s)
  BY <1>3, <1>8 DEF Finish, Fail
<1>9. CASE FetchOrganization
  BY <1>9 DEF FetchOrganization, Steps
<1>10. CASE UNCHANGED <<cloud, status, added, relationships, frames>>
  BY <1>10
<1> QED
  BY <1>1, <1>5, <1>6, <1>7, <1>8, <1>9, <1>10 DEF Next, vars, ListFolder, ReceivePage,
     SkipSystemProject

LEMMA FramesStep ==
  ASSUME TypeOK, KeysApart, FramesNested, [Next]_vars
  PROVE  FramesNested'
<1>c. cloud' = cloud /\ added["FOLDERS"] \subseteq added'["FOLDERS"]
  BY JobStateGrows DEF Steps
<1>d. \A source : parentOf(source)' = parentOf(source)
                  /\ children(Folders, source)' = children(Folders, source)
  BY <1>c DEF parentOf, folderParent, children
<1>1. CASE UNCHANGED frames
  BY <1>1, <1>c, <1>d DEF FramesNested
<1>2. CASE StartFolders
  BY <1>2, <1>c, <1>d DEF StartFolders, FramesNested, parentOf, Start
<1>3. CASE EndFolderListing
  <2>1. \A i \in DOMAIN frames' : frames'[i] = frames[i+1] /\ i+1 \in DOMAIN frames
    BY <1>3 DEF EndFolderListing, TypeOK
  <2> QED
    BY <1>c, <1>d, <2>1 DEF FramesNested
<1>4. ASSUME NEW folder \in Folders, AddFolder(folder)
      PROVE  FramesNested'
  <2> DEFINE x == [source |-> folder, todo |-> children(Folders, folder)]
             y == [Head(frames) EXCEPT !.todo = @ \ {folder}]
  <2>1. Head(frames) = frames[1] /\ 1 \in DOMAIN frames /\ Head(frames) \in Frame
    BY <1>4 DEF AddFolder, TypeOK
  <2>2. x \in Frame /\ y \in Frame
    BY <2>1, ChildrenTyped DEF Frame
  <2>3. frames' = <<x>> \o <<y>> \o Tail(frames) /\ frames \in Seq(Frame) /\ frames # <<>>
    BY <1>4 DEF AddFolder, InnerFolders, TypeOK
  <2>4. \A i \in DOMAIN frames' :
          frames'[i] = x \/ frames'[i] = y \/ \E j \in DOMAIN frames : frames'[i] = frames[j]
    <3>1. Pushed(frames, x, y, frames')
      BY <2>2, <2>3, FramesPushed
    <3> QED
      BY <3>1 DEF Pushed
  <2>5. y.source = frames[1].source /\ y.todo \subseteq frames[1].todo
    BY <2>1 DEF Frame
  <2>6. folder \in added'["FOLDERS"] /\ parentOf(folder) = folder
    BY <1>4, CloudAssumption DEF AddFolder, TypeOK, Steps, parentOf, Resource
  <2> DEFINE Nested(frame) ==
               /\ frame.source \in {Organization} \cup added'["FOLDERS"]
               /\ frame.todo \subseteq children(Folders, parentOf(frame.source))
  <2>7. \A j \in DOMAIN frames : Nested(frames[j])
    BY <1>c DEF FramesNested
  <2>8. Nested(x)
    BY <2>6
  <2>9. Nested(y)
    BY <2>1, <2>5, <2>7
  <2> HIDE DEF Nested, x, y
  <2>10. \A i \in DOMAIN frames' : Nested(frames'[i])
    BY <2>4, <2>7, <2>8, <2>9
  <2> QED
    BY <1>d, <2>10 DEF FramesNested, Nested
<1> QED
  BY <1>1, <1>2, <1>3, <1>4, FoldersLeftAlone DEF Finish

LEMMA FolderLinksStep ==
  ASSUME TypeOK, KeysApart, FramesNested, FolderLinks, [Next]_vars
  PROVE  FolderLinks'
<1>c. cloud' = cloud /\ \A parent : Standing(parent)' = Standing(parent)
  BY JobStateGrows DEF Standing, folderParent
<1>1. ASSUME added'["FOLDERS"] = added["FOLDERS"],
             \A f \in Folders, source \in Folders \cup {Organization} :
               <<source, f>> \in relationships' <=> <<source, f>> \in relationships
      PROVE  FolderLinks'
  BY <1>1, <1>c DEF FolderLinks
<1>2. ASSUME NEW folder \in Folders, AddFolder(folder)
      PROVE  FolderLinks'
  <2>1. /\ added'["FOLDERS"] = added["FOLDERS"] \cup {folder}
        /\ relationships' = relationships \cup {<<Head(frames).source, folder>>}
    BY <1>2 DEF AddFolder, TypeOK, Steps
  <2>2. Standing(cloud.parent[folder]) = Head(frames).source
    BY <1>2, FolderTaken
  <2> QED
    BY <1>c, <2>1, <2>2 DEF FolderLinks
<1> QED
  BY <1>1, <1>2, FoldersLeftAlone DEF StartFolders, Start, Finish, EndFolderListing

LEMMA FoldersPendingStep ==
  ASSUME TypeOK, DependenciesBehind, KeysApart, KeysApart', FoldersPending, [Next]_vars
  PROVE  FoldersPending'
<1>c. cloud' = cloud /\ folderParent' = folderParent
  BY JobStateGrows DEF folderParent
<1>o. Started("FOLDERS")' => (hasKey(Organization)' <=> hasKey(Organization))
  BY OrganizationSettled
<1> USE DEF TypeOK
<1>1. CASE /\ UNCHANGED frames
           /\ added'["FOLDERS"] = added["FOLDERS"]
           /\ status'["FOLDERS"] \in {status["FOLDERS"], "failure"}
  BY <1>1, <1>c, <1>o DEF FoldersPending, Listed, Started
<1>2. CASE StartFolders
  <2>1. /\ added'["FOLDERS"] = {} /\ status'["FOLDERS"] = "running"
        /\ hasKey(Organization)' <=> hasKey(Organization)
    BY <1>2 DEF StartFolders, Start, Steps, KeysApart, Unstarted, hasKey
  <2>2. hasKey(Organization) =>
          frames' = <<[source |-> Organization, todo |-> children(Folders, folderParent)]>>
    BY <1>2 DEF StartFolders
  <2>3. ASSUME hasKey(Organization), NEW g \in Folders, cloud.parent[g] = folderParent
        PROVE  Listed(g)'
    <3>1. g \in children(Folders, folderParent)
      BY <2>3 DEF children
    <3>2. 1 \in DOMAIN frames' /\ frames'[1].todo = children(Folders, folderParent)
      BY <2>2, <2>3
    <3> QED
      BY <3>1, <3>2 DEF Listed
  <2> QED
    BY <1>c, <2>1, <2>3 DEF FoldersPending
<1>3. CASE Finish("FOLDERS")
  <2>1. UNCHANGED <<frames, added>> /\ running("FOLDERS") /\ frames = <<>>
    BY <1>3 DEF Finish
  <2> QED
    BY <1>c, <1>o, <2>1 DEF FoldersPending, Listed, running, Started, hasKey
<1>4. CASE EndFolderListing
  <2>1. /\ UNCHANGED <<added, status>> /\ running("FOLDERS")
        /\ frames' = Tail(frames) /\ frames # <<>> /\ frames[1].todo = {}
    BY <1>4 DEF EndFolderListing
  <2>2. ASSUME NEW g \in Folders, Listed(g)
        PROVE  Listed(g)'
    <3>1. PICK i \in DOMAIN frames : g \in frames[i].todo
      BY <2>2 DEF Listed
    <3>2. i # 1 /\ i \in 1..Len(frames) /\ Len(frames) \in Nat
      BY <2>1, <3>1
    <3>3. i-1 \in DOMAIN frames' /\ frames'[i-1] = frames[i]
      BY <2>1, <3>2
    <3> QED
      BY <3>1, <3>3 DEF Listed
  <2> QED
    BY <1>c, <1>o, <2>1, <2>2 DEF FoldersPending, running, hasKey
<1>5. ASSUME NEW folder \in Folders, AddFolder(folder)
      PROVE  FoldersPending'
  <2> DEFINE x == [source |-> folder, todo |-> children(Folders, folder)]
             y == [Head(frames) EXCEPT !.todo = @ \ {folder}]
  <2>1. Head(frames) = frames[1] /\ 1 \in DOMAIN frames /\ Head(frames) \in Frame
    BY <1>5 DEF AddFolder
  <2>2. x \in Frame /\ y \in Frame
    BY <2>1, ChildrenTyped DEF Frame
  <2>a. /\ status' = status /\ running("FOLDERS")
        /\ added'["FOLDERS"] = added["FOLDERS"] \cup {folder}
    BY <1>5 DEF AddFolder, Steps
  <2>3. frames' = <<x>> \o <<y>> \o Tail(frames) /\ frames \in Seq(Frame) /\ frames # <<>>
    BY <1>5 DEF AddFolder, InnerFolders
  <2>4. /\ \E i \in DOMAIN frames' : frames'[i] = x
        /\ \E i \in DOMAIN frames' : frames'[i] = y
        /\ \A j \in DOMAIN frames : j # 1 => \E i \in DOMAIN frames' : frames'[i] = frames[j]
    <3>1. Pushed(frames, x, y, frames')
      BY <2>2, <2>3, FramesPushed
    <3> QED
      BY <3>1 DEF Pushed
  <2>5. y.todo = frames[1].todo \ {folder}
    BY <2>1 DEF Frame
  <2>6. ASSUME NEW g \in Folders, cloud.parent[g] = folder
        PROVE  Listed(g)'
    <3>1. g \in x.todo
      BY <2>6 DEF children
    <3> QED
      BY <2>4, <3>1 DEF Listed
  <2>7. ASSUME NEW g \in Folders, Listed(g), g # folder
        PROVE  Listed(g)'
    <3>1. PICK j \in DOMAIN frames : g \in frames[j].todo
      BY <2>7 DEF Listed
    <3>2. CASE j = 1
      BY <2>4, <2>5, <2>7, <3>1, <3>2 DEF Listed
    <3>3. CASE j # 1
      BY <2>4, <3>1, <3>3 DEF Listed
    <3> QED
      BY <3>2, <3>3
  <2> QED
    BY <1>c, <1>o, <2>a, <2>6, <2>7 DEF FoldersPending, running, Started
<1> QED
  BY <1>1, <1>2, <1>3, <1>4, <1>5, FoldersLeftAlone

-----------------------------------------------------------------------------
(* The projects                                                              *)

\* The projects ORG_PROJECT_RELATIONSHIPS lists and links change in its steps
\* only.
LEMMA ProjectsLeftAlone ==
  ASSUME TypeOK, [Next]_vars
  PROVE  \/ StartOrgProjectRelationships
         \/ Finish("ORG_PROJECT_RELATIONSHIPS")
         \/ \E page \in SUBSET orgListing.rest : ReceivePage("ORG_PROJECT_RELATIONSHIPS", page)
         \/ \E project \in Projects : SkipSystemProject("ORG_PROJECT_RELATIONSHIPS", project)
         \/ \E project \in Projects : LinkProject(project)
         \/ \E folder \in Folders : ListFolder(folder)
         \/ /\ UNCHANGED <<toList, cloud>>
            /\ orgListing' = orgListing
            /\ status'["ORG_PROJECT_RELATIONSHIPS"]
                 \in {status["ORG_PROJECT_RELATIONSHIPS"], "failure"}
            /\ \A project \in Projects, source \in Folders \cup {Organization} :
                 <<source, project>> \in relationships' <=> <<source, project>> \in relationships
<1> USE DEF TypeOK, orgListing
<1> DEFINE s == "ORG_PROJECT_RELATIONSHIPS"
<1>1. ASSUME NEW folder \in Folders, AddFolder(folder)
      PROVE  /\ UNCHANGED <<toList, cloud, listing, status>>
             /\ \A project \in Projects, source \in Folders \cup {Organization} :
                  <<source, project>> \in relationships' <=> <<source, project>> \in relationships
  BY <1>1, CloudAssumption DEF AddFolder
<1>2. ASSUME NEW r \in Steps, r # s, Start(r)
      PROVE  status'[s] = status[s]
  BY <1>2 DEF Start, Steps
<1>3. ASSUME NEW r \in Steps, r # s \/ Fail(r), Finish(r) \/ Fail(r)
      PROVE  status'[s] \in {status[s], "failure"}
  BY <1>3 DEF Finish, Fail, Steps
<1>4. ASSUME NEW r \in Steps, r # s, NEW key, NEW next, addEntity(r, key, next)
      PROVE  status'[s] = status[s]
  BY <1>4 DEF addEntity, Steps
<1>5. CASE FetchProject
  BY <1>4, <1>5 DEF FetchProject, Steps
<1>6. ASSUME NEW project \in Projects, AddSkippedProject(project)
      PROVE  /\ UNCHANGED <<toList, cloud, relationships>>
             /\ listing'[s] = listing[s] /\ status'[s] = status[s]
  BY <1>4, <1>6 DEF AddSkippedProject, Take, Steps, ListingSteps
<1>7. CASE \E r \in {"ORGANIZATION", "PROJECT"} : StartFetch(r)
  BY <1>2, <1>7 DEF StartFetch, Steps, Start
<1>8. CASE StartFolders
  BY <1>2, <1>8 DEF StartFolders, Steps, Start
<1>9. CASE StartSkippedProjects
  BY <1>2, <1>9 DEF StartSkippedProjects, Steps, Start, ListingSteps
<1>10. CASE \E r \in Steps : Finish(r) \/ Fail(r)
  BY <1>3, <1>10 DEF Finish, Fail
<1>11. CASE FetchOrganization
  BY <1>11 DEF FetchOrganization, Steps
<1>12. CASE EndFolderListing \/ UNCHANGED vars
  BY <1>12 DEF EndFolderListing, vars
<1>13. ASSUME NEW r \in ListingSteps, r # s, NEW page, ReceivePage(r, page)
       PROVE  UNCHANGED <<toList, cloud, relationships, status>> /\ listing'[s] = listing[s]
  BY <1>13 DEF ReceivePage, ListingSteps
<1>14. ASSUME NEW r \in ListingSteps, r # s, NEW project, SkipSystemProject(r, project)
       PROVE  UNCHANGED <<toList, cloud, relationships, status>> /\ listing'[s] = listing[s]
  BY <1>14 DEF SkipSystemProject, ListingSteps
<1> QED
  BY <1>1, <1>5, <1>6, <1>7, <1>8, <1>9, <1>10, <1>11, <1>12, <1>13, <1>14 DEF Next

\* A project LinkProject takes is in the parent that the listing is of.
LEMMA ProjectTaken ==
  ASSUME TypeOK, KeysApart, ListingsNested, NEW project \in inListing
  PROVE  /\ project \in Projects
         /\ cloud.parent[project] = parentOf(orgListing.source)
         /\ Standing(cloud.parent[project]) = orgListing.source
         /\ hasKey(orgListing.source)
<1>1. project \in children(Projects, parentOf(orgListing.source))
  BY DEF ListingsNested
<1>2. project \in Projects /\ cloud.parent[project] = parentOf(orgListing.source)
  BY <1>1 DEF children
<1> QED
  BY <1>2, StandingOfParent DEF ListingsNested

\* The listing of SKIPPED_PROJECTS is of the organization itself.
LEMMA SkippedListingStep ==
  ASSUME TypeOK, [Next]_vars,
         listing["SKIPPED_PROJECTS"].rest \cup listing["SKIPPED_PROJECTS"].page
           \subseteq children(Projects, Organization)
  PROVE  listing'["SKIPPED_PROJECTS"].rest \cup listing'["SKIPPED_PROJECTS"].page
           \subseteq children(Projects, Organization)
<1> USE DEF TypeOK
<1> DEFINE s == "SKIPPED_PROJECTS"
<1>l. s \in ListingSteps /\ listing[s] \in Listing
  BY DEF ListingSteps
<1>1. CASE listing'[s] = listing[s]
  BY <1>1
<1>2. CASE StartSkippedProjects
  BY <1>2, <1>l DEF StartSkippedProjects, Lists
<1>3. ASSUME NEW page, ReceivePage(s, page)
      PROVE  listing'[s].rest \cup listing'[s].page \subseteq listing[s].rest \cup listing[s].page
  BY <1>3, <1>l DEF ReceivePage, nextPages, Listing
<1>4. ASSUME NEW project, SkipSystemProject(s, project)
      PROVE  listing'[s].rest \cup listing'[s].page \subseteq listing[s].rest \cup listing[s].page
  BY <1>4, <1>l DEF SkipSystemProject, Listing
<1>5. ASSUME NEW project, Take(s, project)
      PROVE  listing'[s].rest \cup listing'[s].page \subseteq listing[s].rest \cup listing[s].page
  BY <1>5, <1>l DEF Take, Listing
<1>6. ASSUME NEW r \in ListingSteps, r # s, NEW page, ReceivePage(r, page)
      PROVE  listing'[s] = listing[s]
  BY <1>6, <1>l DEF ReceivePage
<1>7. ASSUME NEW r \in ListingSteps, r # s, NEW project, SkipSystemProject(r, project)
      PROVE  listing'[s] = listing[s]
  BY <1>7, <1>l DEF SkipSystemProject
<1>8. ASSUME NEW project \in Projects, LinkProject(project)
      PROVE  listing'[s] = listing[s]
  BY <1>8, <1>l DEF LinkProject, Take
<1>9. ASSUME NEW folder \in Folders, ListFolder(folder)
      PROVE  listing'[s] = listing[s]
  BY <1>9, <1>l DEF ListFolder
<1>10. CASE StartOrgProjectRelationships
  BY <1>1, <1>10, <1>l DEF StartOrgProjectRelationships
<1>11. CASE UNCHANGED listing
  BY <1>11
<1> QED
  BY <1>1, <1>2, <1>3, <1>4, <1>5, <1>6, <1>7, <1>8, <1>9, <1>10, <1>11 DEF Next, vars,
     AddSkippedProject, StartFetch, StartFolders, Finish, Fail, FetchOrganization,
     FetchProject, AddFolder, EndFolderListing

LEMMA ListingsStep ==
  ASSUME TypeOK, KeysApart, ListingsNested, [Next]_vars
  PROVE  ListingsNested'
<1> USE DEF TypeOK
<1> DEFINE s == "ORG_PROJECT_RELATIONSHIPS"
<1>l. s \in ListingSteps /\ orgListing \in Listing
  BY DEF ListingSteps, orgListing
<1>c. /\ cloud' = cloud
      /\ added["FOLDERS"] \subseteq added'["FOLDERS"]
      /\ \A key : hasKey(key) => hasKey(key)'
  BY JobStateGrows DEF Steps
<1>d. \A source : /\ parentOf(source)' = parentOf(source)
                  /\ children(Projects, source)' = children(Projects, source)
  BY <1>c DEF parentOf, folderParent, children
<1>k. listing'["SKIPPED_PROJECTS"].rest \cup listing'["SKIPPED_PROJECTS"].page
        \subseteq children(Projects, Organization)'
  BY <1>d, SkippedListingStep DEF ListingsNested
<1>1. ASSUME orgListing'.source = orgListing.source, inListing' \subseteq inListing,
             toList' \subseteq toList
      PROVE  ListingsNested'
  BY <1>1, <1>c, <1>d, <1>k DEF ListingsNested
<1>2. CASE StartOrgProjectRelationships
  <2>1. /\ toList' = added["FOLDERS"]
        /\ orgListing'.source = Organization /\ orgListing'.page = {}
        /\ orgListing'.rest = IF hasKey(Organization)
                              THEN children(Projects, folderParent) ELSE {}
    BY <1>2, <1>l DEF StartOrgProjectRelationships, Lists, orgListing
  <2> QED
    BY <2>1, <1>c, <1>d, <1>k DEF ListingsNested, inListing, parentOf
<1>3. ASSUME NEW folder \in Folders, ListFolder(folder)
      PROVE  ListingsNested'
  <2>1. /\ toList' = toList \ {folder} /\ folder \in toList
        /\ orgListing'.source = folder /\ orgListing'.page = {}
        /\ orgListing'.rest = children(Projects, folder)
    BY <1>3, <1>l DEF ListFolder, orgListing, folderName
  <2>2. folder \in added["FOLDERS"] /\ parentOf(folder) = folder
    BY <2>1, CloudAssumption DEF ListingsNested, parentOf, Resource
  <2>3. hasKey(folder)
    BY <2>2 DEF hasKey, Steps
  <2> QED
    BY <2>1, <2>2, <2>3, <1>c, <1>d, <1>k DEF ListingsNested, inListing
<1>4. ASSUME NEW page, ReceivePage(s, page)
      PROVE  ListingsNested'
  BY <1>1, <1>4, <1>l DEF ReceivePage, nextPages, Listing, inListing, orgListing
<1>5. ASSUME NEW project, SkipSystemProject(s, project)
      PROVE  ListingsNested'
  BY <1>1, <1>5, <1>l DEF SkipSystemProject, Listing, inListing, orgListing
<1>6. ASSUME NEW project, LinkProject(project)
      PROVE  ListingsNested'
  BY <1>1, <1>6, <1>l DEF LinkProject, Take, Listing, inListing, orgListing
<1>7. CASE toList' = toList /\ orgListing' = orgListing
  BY <1>1, <1>7 DEF inListing
<1> QED
  BY <1>2, <1>3, <1>4, <1>5, <1>6, <1>7, ProjectsLeftAlone DEF Finish, orgListing

LEMMA ProjectLinksStep ==
  ASSUME TypeOK, KeysApart, ListingsNested, ProjectLinks, [Next]_vars
  PROVE  ProjectLinks'
<1>c. /\ cloud' = cloud /\ \A parent : Standing(parent)' = Standing(parent)
      /\ projectNames \subseteq projectNames'
      /\ \A key : hasKey(key) => hasKey(key)'
  BY JobStateGrows DEF Standing, folderParent
<1>1. ASSUME \A project \in Projects, source \in Folders \cup {Organization} :
               <<source, project>> \in relationships' => <<source, project>> \in relationships
      PROVE  ProjectLinks'
  BY <1>1, <1>c DEF ProjectLinks
<1>2. ASSUME NEW project \in Projects, LinkProject(project)
      PROVE  ProjectLinks'
  <2>1. /\ projectNames' = projectNames \cup {project}
        /\ relationships' = relationships \cup {<<orgListing.source, project>>}
        /\ project \in inListing /\ project \notin cloud.sys
    BY <1>2 DEF LinkProject, Take, inListing, orgListing
  <2>2. Standing(cloud.parent[project]) = orgListing.source /\ hasKey(orgListing.source)
    BY <2>1, ProjectTaken
  <2> QED
    BY <1>c, <2>1, <2>2 DEF ProjectLinks
<1>3. CASE UNCHANGED relationships
  BY <1>1, <1>3
<1> QED
  BY <1>1, <1>2, <1>3, ProjectsLeftAlone DEF StartOrgProjectRelationships, Start, Finish,
     ReceivePage, SkipSystemProject, ListFolder

LEMMA ProjectsPendingStep ==
  ASSUME TypeOK, DependenciesBehind, KeysApart, KeysApart', ListingsNested,
         ProjectsPending, [Next]_vars
  PROVE  ProjectsPending'
<1> USE DEF TypeOK
<1> DEFINE s == "ORG_PROJECT_RELATIONSHIPS"
           Pending(project) ==
             \/ Exposed(project)
             \/ <<Standing(cloud.parent[project]), project>> \in relationships
             \/ project \in inListing
             \/ cloud.parent[project] \in toList
<1>l. s \in ListingSteps /\ orgListing \in Listing /\ s \in Steps /\ "FOLDERS" \in Steps
  BY DEF ListingSteps, orgListing, Steps
<1>c. /\ cloud' = cloud /\ folderParent' = folderParent
      /\ relationships \subseteq relationships'
      /\ \A parent : Standing(parent)' = Standing(parent)
      /\ \A project : Exposed(project)' <=> Exposed(project)
  BY JobStateGrows DEF Standing, folderParent, Exposed
<1>o. Started(s)' => (hasKey(Organization)' <=> hasKey(Organization))
  BY OrganizationSettled
<1>f. Started(s)' => added'["FOLDERS"] = added["FOLDERS"]
  <2> SUFFICES ASSUME Started(s)' PROVE added'["FOLDERS"] = added["FOLDERS"]
    OBVIOUS
  <2>1. "FOLDERS" \in dependsOn(s)
    BY DEF dependsOn
  <2>2. finished("FOLDERS")
    BY <1>l, <2>1, StatusMoves DEF DependenciesBehind, Start
  <2> QED
    BY <1>l, <2>2, OnlyRunningAdds DEF finished, running
<1>1. ASSUME status'[s] \in {status[s], "failure"},
             \A project \in Projects : Pending(project) => Pending(project)',
             status'[s] = "success" => inListing' \subseteq inListing /\ toList' \subseteq toList
      PROVE  ProjectsPending'
  <2>1. status'[s] \in {"running", "success"} => Started(s)' /\ status[s] = status'[s]
    BY <1>1 DEF Started
  <2>2. ASSUME status'[s] \in {"running", "success"}, hasKey(Organization)',
               NEW project \in Projects,
               cloud'.parent[project] \in added'["FOLDERS"] \cup {folderParent'}
        PROVE  Pending(project)'
    BY <1>1, <1>c, <1>o, <1>f, <2>1, <2>2 DEF ProjectsPending
  <2>3. status'[s] = "success" => inListing' = {} /\ toList' = {}
    BY <1>1, <2>1 DEF ProjectsPending
  <2> QED
    BY <2>2, <2>3 DEF ProjectsPending
<1>2. CASE StartOrgProjectRelationships
  <2>1. /\ status'[s] = "running" /\ added' = added
        /\ toList' = added["FOLDERS"]
        /\ hasKey(Organization) => orgListing'.rest = children(Projects, folderParent)
    BY <1>2, <1>l DEF StartOrgProjectRelationships, Start, Lists, orgListing
  <2>2. hasKey(Organization)' => hasKey(Organization)
    BY <1>o, <2>1 DEF Started
  <2> QED
    BY <2>1, <2>2, <1>c DEF ProjectsPending, inListing, children
<1>3. CASE Finish(s)
  <2>1. /\ running(s) /\ UNCHANGED <<relationships, toList, added>>
        /\ inListing' = {} /\ inListing = {} /\ toList = {} /\ status'[s] = "success"
    BY <1>3, <1>l DEF Finish, inListing, orgListing
  <2> QED
    BY <2>1, <1>c, <1>o DEF ProjectsPending, running, Started
<1>4. ASSUME NEW page \in SUBSET orgListing.rest, ReceivePage(s, page)
      PROVE  ProjectsPending'
  <2>1. /\ inListing' = inListing
        /\ UNCHANGED <<relationships, toList, status>> /\ running(s)
    BY <1>4, <1>l DEF ReceivePage, nextPages, Listing, inListing, orgListing
  <2> QED
    BY <1>1, <1>c, <2>1 DEF running
<1>5. ASSUME NEW sys \in Projects, SkipSystemProject(s, sys)
      PROVE  ProjectsPending'
  <2>1. /\ inListing' = orgListing.rest /\ sys \in cloud.sys /\ sys \in orgListing.page
        /\ UNCHANGED <<relationships, toList, status>> /\ running(s)
    BY <1>5, <1>l DEF SkipSystemProject, Listing, inListing, orgListing
  <2>2. \A project \in orgListing.page : Exposed(project)
    BY <2>1, ProjectTaken DEF Exposed, inListing
  <2> QED
    BY <1>1, <1>c, <2>1, <2>2 DEF running, inListing
<1>6. ASSUME NEW project \in Projects, LinkProject(project)
      PROVE  ProjectsPending'
  <2>1. /\ inListing \subseteq inListing' \cup {project} /\ project \in inListing
        /\ relationships' = relationships \cup {<<orgListing.source, project>>}
        /\ UNCHANGED <<toList, status>> /\ running(s)
    BY <1>6, <1>l DEF LinkProject, Take, Listing, inListing, orgListing
  <2>2. Standing(cloud.parent[project]) = orgListing.source
    BY <2>1, ProjectTaken
  <2> QED
    BY <1>1, <1>c, <2>1, <2>2 DEF running
<1>7. ASSUME NEW folder \in Folders, ListFolder(folder)
      PROVE  ProjectsPending'
  <2>1. /\ inListing' = children(Projects, folder) /\ inListing = {}
        /\ toList' = toList \ {folder}
        /\ UNCHANGED <<relationships, status>> /\ running(s)
    BY <1>7, <1>l DEF ListFolder, folderName, Listing, inListing, orgListing
  <2> QED
    BY <1>1, <1>c, <2>1 DEF running, children
<1>8. CASE /\ UNCHANGED toList
           /\ orgListing' = orgListing
           /\ status'[s] \in {status[s], "failure"}
  BY <1>1, <1>8, <1>c DEF inListing
<1> QED
  BY <1>2, <1>3, <1>4, <1>5, <1>6, <1>7, <1>8, ProjectsLeftAlone

-----------------------------------------------------------------------------

LEMMA IInvStep == IInv /\ [Next]_vars => IInv'
<1> SUFFICES ASSUME IInv, [Next]_vars PROVE IInv'
  OBVIOUS
<1> USE DEF IInv, IFolders, IProjects
<1>1. KeysApart'
  BY KeysStep
<1>2. TypeOK' /\ DependenciesBehind' /\ DuplicatesExplained'
  BY TypeStep, DependenciesStep, DuplicatesStep
<1>3. IFolders'
  BY <1>1, FramesStep, FolderLinksStep, FoldersPendingStep
<1>4. IProjects'
  BY <1>1, ListingsStep, ProjectLinksStep, ProjectsPendingStep
<1> QED
  BY <1>1, <1>2, <1>3, <1>4

\* The inductive invariant, on which the theorems below rest.
THEOREM Invariance == Spec => []IInv
BY InitIInv, IInvStep, PTL DEF Spec

\* The variables keep their types.
THEOREM TypeCorrect == Spec => []TypeOK
<1>1. IInv => TypeOK
  BY DEF IInv
<1> QED
  BY <1>1, Invariance, PTL

\* When FOLDERS has succeeded it has added every folder of the scope.
LEMMA AllFoldersAdded ==
  ASSUME IInv, status["FOLDERS"] = "success", hasKey(Organization)
  PROVE  added["FOLDERS"] = Below(folderParent)
<1> USE DEF IInv, IFolders
<1>1. ~\E g \in Folders : Listed(g)
  BY DEF FoldersPending, Listed
<1>2. Closed(added["FOLDERS"], folderParent)
  BY <1>1 DEF FoldersPending, Closed
<1>3. added["FOLDERS"] \in SUBSET Folders
  BY DEF KeysApart, Below
<1>4. Below(folderParent) \subseteq added["FOLDERS"]
  BY <1>2, <1>3, BelowSmallest
<1> QED
  BY <1>4 DEF KeysApart

\* getAllInnerFolders reaches folders of the scope only, links each to the
\* folder it is in, and all of them when the step succeeds.
THEOREM FoldersAreComplete == Spec => []FoldersComplete
<1>1. IInv => FoldersComplete
  <2> SUFFICES ASSUME IInv PROVE FoldersComplete
    OBVIOUS
  <2>1. \A f \in added["FOLDERS"] : f \in Folders
    BY DEF IInv, KeysApart, Below
  <2> QED
    BY <2>1, AllFoldersAdded DEF IInv, IFolders, KeysApart, FolderLinks, FoldersComplete
<1> QED
  BY <1>1, Invariance, PTL

\* A project is linked to its own parent only, which is in the job state; no
\* system project is; and when the steps succeed every project of the scope is
\* linked, but for those whose page a system project cuts short.
THEOREM ProjectsAreLinked == Spec => []ProjectsLinked
<1>1. IInv => ProjectsLinked
  <2> SUFFICES ASSUME IInv PROVE ProjectsLinked
    OBVIOUS
  <2> USE DEF IInv, IProjects
  <2>1. \A project \in added["SKIPPED_PROJECTS"] :
          cloud.parent[project] = Organization /\ project \in cloud.skip
    BY DEF KeysApart, children
  <2>2. \A link \in relationships : link[2] \in Projects =>
          /\ link[1] = Standing(cloud.parent[link[2]])
          /\ hasKey(link[1])
          /\ link[2] \in projectNames \ cloud.sys
    <3> SUFFICES ASSUME NEW link \in relationships, link[2] \in Projects
                 PROVE  /\ link[1] = Standing(cloud.parent[link[2]])
                        /\ hasKey(link[1])
                        /\ link[2] \in projectNames \ cloud.sys
      OBVIOUS
    <3>1. link = <<link[1], link[2]>> /\ link[1] \in Folders \cup {Organization}
      BY DEF TypeOK
    <3> QED
      BY <3>1 DEF ProjectLinks
  <2>3. ASSUME status["ORG_PROJECT_RELATIONSHIPS"] = "success",
               status["FOLDERS"] = "success", hasKey(Organization),
               NEW project \in Projects,
               cloud.parent[project] \in Below(folderParent) \cup {folderParent}
        PROVE  Exposed(project) \/ <<Standing(cloud.parent[project]), project>>
                                     \in relationships
    BY <2>3, AllFoldersAdded DEF ProjectsPending
  <2> QED
    BY <2>1, <2>2, <2>3 DEF ProjectsLinked
<1> QED
  BY <1>1, Invariance, PTL

\* addEntity throws on a key the job state has in one case only: FetchProject,
\* after SKIPPED_PROJECTS added the instance's own project.
THEOREM DuplicatesAreExplained == Spec => []DuplicatesExplained
<1>1. IInv => DuplicatesExplained
  BY DEF IInv
<1> QED
  BY <1>1, Invariance, PTL

-----------------------------------------------------------------------------
(* The steps as the executor of StepGraph sees them                          *)

\* The handlers wait for what the catalog says, and each of them writes.
LEMMA RecordOfStep ==
  ASSUME NEW s \in Steps
  PROVE  /\ record(s) \in Catalog!resourceManagerSteps
         /\ record(s).id = idOf[s]
<1>1. \E r \in Catalog!resourceManagerSteps : r.id = idOf[s]
  BY DEF Steps, idOf, Catalog!resourceManagerSteps, Catalog!Step, Catalog!StepOf
<1> QED
  BY <1>1 DEF record

LEMMA RecordFields ==
  ASSUME NEW s \in Steps
  PROVE  /\ record(s).writes # {}
         /\ record(s).dependsOn = {idOf[d] : d \in dependsOn(s)}
<1> USE RecordOfStep DEF Steps, idOf, dependsOn, Catalog!resourceManagerSteps, Catalog!Step,
        Catalog!StepOf, Catalog!Handler, Catalog!fetchResourceManagerOrganization,
        Catalog!fetchResourceManagerFolders, Catalog!buildOrgFolderProjectMappedRelationships,
        Catalog!fetchResourceManagerProject, Catalog!fetchResourceManagerSkippedProjects,
        Catalog!fetchIamPolicyAuditConfig
<1>1. CASE s = "ORGANIZATION"
  BY <1>1
<1>2. CASE s = "FOLDERS"
  BY <1>2
<1>3. CASE s = "ORG_PROJECT_RELATIONSHIPS"
  BY <1>3
<1>4. CASE s = "PROJECT"
  BY <1>4
<1>5. CASE s = "SKIPPED_PROJECTS"
  BY <1>5
<1> QED
  BY <1>1, <1>2, <1>3, <1>4, <1>5

LEMMA DependenciesOfRecords ==
  ASSUME NEW s \in Steps
  PROVE  dependencies[s] = dependsOn(s)
<1>1. dependsOn(s) \subseteq Steps
  BY DEF dependsOn, Steps
<1>2. \A d, e \in Steps : idOf[d] = idOf[e] => d = e
  BY DEF idOf, Steps
<1> QED
  BY <1>1, <1>2, RecordFields DEF dependencies

\* What the executor can see of a step of the handlers: one step starts, adds,
\* succeeds or fails, and the others stay as they are.
OthersAlone(s) ==
  \A t \in Steps : t # s => status'[t] = status[t] /\ ingested(t)' = ingested(t)

Shape(s) ==
  /\ OthersAlone(s)
  /\ \/ Start(s) /\ ingested(s)' = ingested(s)
     \/ running(s) /\ status'[s] = "running" /\ ingested(s)' \in {ingested(s), "some"}
     \/ running(s) /\ status'[s] = "success" /\ ingested(s)' = "all"
     \/ running(s) /\ status'[s] = "failure" /\ ingested(s)' = ingested(s)

\* What a step has ingested is read off its status, what it added, and, for
\* ORG_PROJECT_RELATIONSHIPS, the links to projects.
LEMMA IngestedKept ==
  ASSUME NEW t \in Steps, added'[t] = added[t],
         linksProjects' <=> linksProjects,
         status'[t] = "success" <=> status[t] = "success"
  PROVE  ingested(t)' = ingested(t)
BY DEF ingested

LEMMA HandlerStep ==
  ASSUME TypeOK, KeysApart, [Next]_vars
  PROVE  UNCHANGED vars \/ \E s \in Steps : Shape(s)
<1> USE DEF TypeOK
<1>a. /\ "ORGANIZATION" \in Steps /\ "FOLDERS" \in Steps /\ "PROJECT" \in Steps
      /\ "SKIPPED_PROJECTS" \in Steps /\ "ORG_PROJECT_RELATIONSHIPS" \in Steps
  BY DEF Steps
\* Only what the acting step has in the job state changes.
<1>1. ASSUME NEW s \in Steps, \A t \in Steps : t # s => added'[t] = added[t] /\ status'[t] = status[t],
             linksProjects' <=> linksProjects
      PROVE  OthersAlone(s)
  BY <1>1, IngestedKept DEF OthersAlone
<1>2. ASSUME NEW s \in Steps, Start(s), linksProjects' <=> linksProjects
      PROVE  Shape(s)
  <2>1. added' = added /\ status' = [status EXCEPT ![s] = "running"] /\ status[s] = "pending"
    BY <1>2 DEF Start
  <2> QED
    BY <1>1, <1>2, <2>1, IngestedKept DEF Shape
<1>3. ASSUME NEW s \in Steps, Finish(s) \/ Fail(s), linksProjects' <=> linksProjects
      PROVE  Shape(s)
  <2>1. /\ added' = added /\ status[s] = "running"
        /\ \/ status' = [status EXCEPT ![s] = "success"]
           \/ status' = [status EXCEPT ![s] = "failure"]
    BY <1>3 DEF Finish, Fail, running
  <2>2. status'[s] = "success" => ingested(s)' = "all"
    BY DEF ingested
  <2> QED
    BY <1>1, <1>3, <2>1, <2>2, IngestedKept DEF Shape, running
<1>4. ASSUME NEW s \in Steps, running(s), NEW key, NEW next \in {"running", "success"},
             addEntity(s, key, next), linksProjects' <=> linksProjects
      PROVE  Shape(s)
  <2>1. status[s] = "running"
    BY <1>4 DEF running
  <2>2. CASE hasKey(key)
    <3>1. added' = added /\ status' = [status EXCEPT ![s] = "failure"]
      BY <1>4, <2>2 DEF addEntity
    <3> QED
      BY <1>1, <1>4, <2>1, <3>1, IngestedKept DEF Shape
  <2>3. CASE ~hasKey(key)
    <3>1. /\ added' = [added EXCEPT ![s] = @ \cup {key}]
          /\ status' = [status EXCEPT ![s] = next]
      BY <1>4, <2>3 DEF addEntity
    <3>2. added'[s] # {} /\ status'[s] = next
      BY <3>1
    <3>3. ingested(s)' = IF next = "success" THEN "all" ELSE "some"
      BY <3>2 DEF ingested
    <3> QED
      BY <1>1, <1>4, <2>1, <3>1, <3>2, <3>3 DEF Shape
  <2> QED
    BY <2>2, <2>3
<1>5. ASSUME NEW s \in Steps, running(s), UNCHANGED <<status, added>>,
             linksProjects' <=> linksProjects
      PROVE  Shape(s)
  BY <1>1, <1>5, IngestedKept DEF Shape, running
<1>6. CASE FetchOrganization
  <2> DEFINE s == "ORGANIZATION"
  <2>a. /\ added' = [added EXCEPT ![s] = {Organization}]
        /\ status' = [status EXCEPT ![s] = "success"] /\ running(s)
    BY <1>6 DEF FetchOrganization
  <2>1. /\ \A t \in Steps : t # s => added'[t] = added[t] /\ status'[t] = status[t]
        /\ status'[s] = "success" /\ running(s)
    BY <1>a, <2>a
  <2>2. linksProjects' <=> linksProjects
    BY <1>6 DEF FetchOrganization, linksProjects
  <2>3. ingested(s)' = "all"
    BY <2>1 DEF ingested
  <2> QED
    BY <1>1, <1>a, <2>1, <2>2, <2>3 DEF Shape
<1>7. CASE FetchProject
  <2>1. linksProjects' <=> linksProjects
    BY <1>7 DEF FetchProject, linksProjects
  <2> QED
    BY <1>4, <1>7, <1>a, <2>1 DEF FetchProject
<1>8. ASSUME NEW folder \in Folders, AddFolder(folder)
      PROVE  Shape("FOLDERS")
  <2> DEFINE s == "FOLDERS"
  <2>1. /\ added' = [added EXCEPT ![s] = @ \cup {folder}] /\ status' = status
        /\ running(s)
    BY <1>8 DEF AddFolder
  <2>2. linksProjects' <=> linksProjects
    <3>1. relationships' = relationships \cup {<<Head(frames).source, folder>>}
      BY <1>8 DEF AddFolder
    <3>2. folder \notin Projects
      BY CloudAssumption
    <3> QED
      BY <3>1, <3>2 DEF linksProjects
  <2>a. added'[s] # {} /\ status'[s] = "running"
    BY <1>a, <2>1 DEF running
  <2>3. ingested(s)' = "some"
    BY <2>a DEF ingested
  <2> QED
    BY <1>1, <1>a, <2>1, <2>2, <2>3 DEF Shape, running
<1>9. ASSUME NEW project \in Projects, LinkProject(project)
      PROVE  Shape("ORG_PROJECT_RELATIONSHIPS")
  <2> DEFINE s == "ORG_PROJECT_RELATIONSHIPS"
  <2>1. /\ UNCHANGED <<added, status>> /\ running(s)
        /\ relationships' = relationships \cup {<<listing[s].source, project>>}
    BY <1>9 DEF LinkProject, Take
  <2>a. <<listing[s].source, project>> \in relationships' /\ project \in Projects
    BY <2>1
  <2>2. linksProjects'
    BY <2>a DEF linksProjects
  <2>3. ingested(s)' = "some"
    BY <2>1, <2>2 DEF ingested, running
  <2>4. OthersAlone(s)
    <3> SUFFICES ASSUME NEW t \in Steps, t # s
                 PROVE  status'[t] = status[t] /\ ingested(t)' = ingested(t)
      BY DEF OthersAlone
    <3>1. status'[t] = status[t] /\ added'[t] = added[t]
      BY <2>1
    <3> QED
      BY <3>1 DEF ingested
  <2> QED
    BY <1>a, <2>1, <2>3, <2>4 DEF Shape, running
<1>10. ASSUME NEW project \in Projects, AddSkippedProject(project)
       PROVE  Shape("SKIPPED_PROJECTS")
  <2>1. linksProjects' <=> linksProjects
    BY <1>10 DEF AddSkippedProject, linksProjects
  <2> QED
    BY <1>4, <1>5, <1>10, <1>a, <2>1 DEF AddSkippedProject, Take
<1>11. CASE EndFolderListing
  BY <1>5, <1>11, <1>a DEF EndFolderListing, linksProjects
<1>12. ASSUME NEW folder \in Folders, ListFolder(folder)
       PROVE  Shape("ORG_PROJECT_RELATIONSHIPS")
  BY <1>5, <1>12, <1>a DEF ListFolder, linksProjects
<1>13. ASSUME NEW s \in ListingSteps, NEW page, ReceivePage(s, page)
       PROVE  Shape(s)
  BY <1>5, <1>13, <1>a DEF ReceivePage, linksProjects, ListingSteps
<1>14. ASSUME NEW s \in ListingSteps, NEW project, SkipSystemProject(s, project)
       PROVE  Shape(s)
  BY <1>5, <1>14, <1>a DEF SkipSystemProject, linksProjects, ListingSteps
<1>15. ASSUME NEW s \in Steps, Start(s) \/ Finish(s) \/ Fail(s)
       PROVE  Shape(s)
  <2>1. linksProjects' <=> linksProjects
    BY <1>15 DEF Start, Finish, Fail, linksProjects
  <2> QED
    BY <1>2, <1>3, <1>15, <2>1
<1>16. ListingSteps \subseteq Steps
  BY DEF ListingSteps, Steps
<1>17. CASE \E s \in {"ORGANIZATION", "PROJECT"} : StartFetch(s)
  BY <1>15, <1>17, <1>a DEF StartFetch
<1>18. CASE StartFolders \/ StartOrgProjectRelationships \/ StartSkippedProjects
  BY <1>15, <1>18, <1>a DEF StartFolders, StartOrgProjectRelationships, StartSkippedProjects
<1> QED
  BY <1>6, <1>7, <1>8, <1>9, <1>10, <1>11, <1>12, <1>13, <1>14, <1>15, <1>16, <1>17, <1>18,
     <1>a DEF Next

\* An initial state is one of the executor, where no step has added anything.
LEMMA ExecutorInit == Init => Executor!Init
<1> SUFFICES ASSUME Init PROVE Executor!Init
  OBVIOUS
<1>1. \A s \in Steps : ingested(s) = "none"
  BY DEF Init, ingested, linksProjects, Steps
<1> QED
  BY <1>1 DEF Init, Executor!Init

\* A step of the handlers is a step of the executor, or one it does not see.
LEMMA ExecutorStep == IInv /\ [Next]_vars => [Executor!Next]_(Executor!vars)
<1> SUFFICES ASSUME IInv, [Next]_vars
             PROVE  [Executor!Next]_(Executor!vars)
  OBVIOUS
<1> USE DEF IInv
<1>1. CASE UNCHANGED vars
  <2>1. \A s \in Steps : ingested(s)' = ingested(s)
    BY <1>1 DEF ingested, linksProjects, vars
  <2> QED
    BY <1>1, <2>1 DEF vars, Executor!vars
<1>2. ASSUME NEW s \in Steps, Shape(s)
      PROVE  [Executor!Next]_(Executor!vars)
  <2> DEFINE seen == [t \in Steps |-> ingested(t)]
  <2>a. /\ status \in [Steps -> {"disabled", "pending", "running", "success", "failure"}]
        /\ status' \in [Steps -> {"disabled", "pending", "running", "success", "failure"}]
    BY IInvStep DEF TypeOK
  <2>b. status' = [status EXCEPT ![s] = status'[s]]
    BY <1>2, <2>a DEF Shape, OthersAlone
  <2>c. seen' = [seen EXCEPT ![s] = ingested(s)']
    BY <1>2 DEF Shape, OthersAlone
  <2>d. ingested(s)' = ingested(s) => seen' = seen
    BY <1>2 DEF Shape, OthersAlone
  <2>1. CASE Start(s) /\ ingested(s)' = ingested(s)
    <3>1. Executor!Ready(s)
      BY <2>1, DependenciesOfRecords DEF Start, finished, Executor!Ready,
         Executor!GraphOf, Executor!DependenciesFinished, Executor!Finished
    <3>2. Executor!StartStep(s)
      BY <2>1, <2>d, <3>1 DEF Start, Executor!StartStep
    <3> QED
      BY <3>2 DEF Executor!Next, Executor!StepActions
  <2>2. CASE running(s) /\ status'[s] = "running" /\ ingested(s)' \in {ingested(s), "some"}
    <3>1. status' = status
      BY <2>2, <2>a, <2>b DEF running
    <3>2. CASE ingested(s)' = ingested(s)
      BY <2>d, <3>1, <3>2 DEF Executor!vars
    <3>3. CASE ingested(s)' = "some" /\ ingested(s) # "some"
      <4>1. ingested(s) = "none"
        BY <2>2, <3>3 DEF running, ingested
      <4>2. record(s).writes # {}
        BY RecordFields
      <4>3. Executor!AddEntity(s)
        BY <2>2, <2>c, <3>1, <3>3, <4>1, <4>2 DEF running, Executor!AddEntity
      <4> QED
        BY <4>3 DEF Executor!Next, Executor!StepActions
    <3> QED
      BY <2>2, <3>2, <3>3
  <2>3. CASE running(s) /\ status'[s] = "success" /\ ingested(s)' = "all"
    <3>1. Executor!FinishStep(s)
      BY <2>3, <2>b, <2>c DEF running, Executor!FinishStep
    <3> QED
      BY <3>1 DEF Executor!Next, Executor!StepActions
  <2>4. CASE running(s) /\ status'[s] = "failure" /\ ingested(s)' = ingested(s)
    <3>1. Executor!FailStep(s)
      BY <2>4, <2>b, <2>d DEF running, Executor!FailStep
    <3> QED
      BY <3>1 DEF Executor!Next, Executor!StepActions
  <2> QED
    BY <1>2, <2>1, <2>2, <2>3, <2>4 DEF Shape
<1> QED
  BY <1>1, <1>2, HandlerStep

\* The five handlers implement the executor: they wait for what their records
\* depend on, and start, add, succeed and fail as its steps do.
THEOREM HandlersImplementExecutor == Spec => ImplementsExecutor
BY Invariance, ExecutorInit, ExecutorStep, PTL DEF Spec, ImplementsExecutor

===============================================================================
