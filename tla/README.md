# graph-google-cloud in TLA+

A verification project for the JupiterOne integration `graph-google-cloud` (the
repository in `src/`; paths below are relative to `src/src/` unless they start
with `src/`). The integration is a batch program: for one configured instance it
decides which of its steps to run, runs them as a dependency graph, and each
step lists resources of Google Cloud, converts them and adds entities and
relationships to a shared job state. The program has no state of its own on disk;
what makes it hard is asynchronous code on one event loop, partial failure, and
the order in which many steps read and write the shared job state.

Contents

1. The system: inventory
2. Modules, and how they correspond to the code
3. What is assumed about the outside
4. Runs: what each checks, its bounds
5. Fairness
6. Proofs
7. Disagreements between the code and what is said of it
8. Not modelled
9. Plan

## 1. The system: inventory

| Component | Where | State | Operations | Interacts through |
|---|---|---|---|---|
| API client | `google-cloud/client.ts`, `errors.ts` | cached auth client, `permissionsWarnLogs` | authenticate, `withErrorHandling` (attempts, delay, timeout), `iterateApi` / `forEachPage`, `executeConcurrently` | every step's calls; publishes `warn` events |
| Step start states | `getStepStartStates.ts`, `steps/enablement.ts`, `config.ts` | none that lasts; the lists of enabled services | `validateInvocation`, `getStepStartStates` (two ways), `createStepStartState*` | API client; its result enables steps |
| Step catalog | `steps/steps.ts`, `steps/*/index.ts`, `steps/compute/steps/*.ts` | none | 131 steps with `dependsOn`, `dependencyGraphId`, what they look up and add | executor, job state |
| Step executor | the SDK; `index.ts` (`dependencyGraphOrder`), `createWrappedStepExecutionHandler` in `steps/steps.ts` | status of each step, the graph under way | start, finish, fail, abort, next graph | start states, catalog |
| Resource Manager | `steps/resource-manager` | entities of the organization, folders, projects; cached project names | five steps: organization, folders (recursive), project relationships, own project, skipped projects; audit config | job state; the cached names are read by Cloud Asset |
| Cloud Asset | `steps/cloud-asset`, `utils/iam.ts`, `utils/iamBindings` | binding and basic-role entities, `bindingGraphKeySet`, `projectToResourceTracker` | six steps of graph `last` | job state left by everything else |
| Resource identifiers and keys | `utils/iamBindings`, the converters of each step | none | format, kind, type, key of an identifier; type and key of a converted entity | Cloud Asset finds entities of all services by it |
| IAM, Service Usage | `steps/iam`, `steps/service-usage`, audit config of `steps/resource-manager` | managed roles as job-state data, custom roles, service entities, the seen-map of a step | roles, service accounts and keys, services with what may use them, audit configs | start states; fatal `getIamManagedRoleData`; the project of Resource Manager |
| Compute | `steps/compute` | entities of many kinds, three pieces of data, the inventory flag | 36 steps | job state, many look-ups across steps |
| Cloud Storage, Org policy | `steps/storage`, `steps/orgpolicy` | the policy of the organization, read once per step; the buckets whose policy was not read | buckets and their public state, concurrently | API client |
| Other services | `steps/*` | entities; the project's entity and the cached project names as data | 57 listings, by project, by place or for each entity of a kind; their handlers add, look up and relate | job state; a few calls per resource |
| Utilities, data, scripts | `utils`, `ingestSources.ts`, `steps/iam/basic-permissions`, `src/src/commands` | - | formatting, parsing, tables | - |

What is hard here, and would hardly be met by a unit test (the list, line by
line, is `hazards` in `PROJECT.json`):

- **Retries, timeouts and swallowed errors** of many concurrent calls through one
  client: an error of one kind is retried, of another swallowed after a warning,
  of a third fails the step, and the timeout is none of these. A listing must not
  be silently short.
- **Order of steps.** Two steps talk only through the job state. If `dependsOn`
  (or graph `last`) does not order a look-up after the step that adds what it looks
  for, the result depends on the schedule. Each step has unit tests; the order of
  131 of them has none.
- **Partial failure.** A step that fails leaves what it has added; what depends on
  it runs all the same. A step disabled by the start states never finishes, and what
  depends on it never starts.
- **Start states computed from a listing that may be refused**, in two projects whose
  services are combined.
- **Keys.** Adding a key twice throws and fails a step: two steps that add the same
  project, two resources that have one generated key, the same binding found at
  three scopes.
- **One key, built twice.** An entity's key is made by the converter of its service from
  what the API returns; a policy knows the resource by its identifier, from which another
  module builds the key again. Where the two differ nothing fails: the relationship is
  mapped to a key that nothing has.
- **Recursion and paging** over a tree of folders and projects while the job state
  the loop reads is being written.

Properties that make each component correct:

- API client: it settles; it gives up late and swallows only missing permissions;
  partial data is published; callbacks of a page stay within the limit and before
  the next page; a failure starts nothing more.
- Executor and catalog: while a step runs, what it looks up is settled and stable;
  nothing enabled is left out but for what a disabled step holds back; a run is aborted
  for a reason; a run ends; and the catalog orders every look-up, with exceptions named.
- Start states: no step without a usable service; a short listing only disables;
  no ingesting step is stranded behind a disabled one, with exceptions named.
- Resource Manager: the folders of the job state are the tree; each project hangs
  on its parent; duplicates are explained.
- Cloud Asset: a binding for each key; a binding uses one role and it is the entity
  that was made for it, by a step or by the mapper and never by both; duplicates are
  explained.
- Resource keys: an identifier is of one kind; its key is that of the entity of the same
  resource, and of no other, with exceptions named.
- Storage: what an entity says of a bucket's publicity is right, or the call it lacked is
  published; no bucket is dropped.
- Compute: a relationship says what a field of a resource says; each reference whose two
  ends are there is related, with exceptions named; a refused call costs one listing.
- Other services: the same as for Compute; and a key that is not ingested is mapped, one that is
  is not.
- IAM and Service Usage: a custom role is related to the services whose permissions it
  includes, an audit config to its service and its exempted members; what is missing was
  refused.

## 2. Modules, and how they correspond to the code

| Module | Models | Extends / instances |
|---|---|---|
| `ApiErrors` | how errors are classified (`isQuotaLimitError`, `isBillingError`, the authorization test, what `handleApiClientError` marks retryable) | |
| `ApiClient` | one listing and its concurrent callbacks through one client | `ApiErrors` |
| `ApiClient_proofs`, `MCApiClient` | proofs; instance for TLC | `ApiClient` |
| `StepRecords` | what a step record of the catalog is | |
| `ComputeSteps`, `AccountSteps`, `ServiceSteps`, `StepCatalog` | all steps: Compute; IAM, Resource Manager, Service Usage, billing and policies; the other services; graph `last` and the whole | `StepRecords` |
| `StepGraph` | the executor, for any catalog | |
| `StepGraph_proofs`, `MCStepGraph` | proofs; the executor over the catalog | `StepGraph`; + `StepCatalog` |
| `StepStartStates` | validation, listing of services, start states | `StepCatalog` |
| `StepStartStates_proofs`, `MCStepStartStates` | proofs; instance | `StepStartStates` |
| `ResourceManager`, `ResourceManager_proofs`, `MCResourceManager` | five handlers over one job state | instances `StepGraph`, `AccountSteps` |
| `ResourceFormats` | the 154 formats of identifiers and how one is matched | |
| `ResourceKeys`, `MCResourceKeys` | type and key of an identifier, against those of the entity | `ResourceFormats` |
| `CloudAsset`, `CloudAsset_proofs`, `MCCloudAsset` | six handlers of graph `last` over one job state | instances `StepGraph`, `StepCatalog` |
| `StorageBuckets`, `StorageBuckets_proofs`, `MCStorageBuckets` | one step: buckets, their policies, concurrently, and the organization's policy | `ApiErrors` |
| `ComputeClient` | which places each listing of Compute goes through | |
| `ComputeHandlers`, `ComputeHandlers_proofs`, `MCComputeHandlers` | the handlers of Compute over one job state | `ComputeClient`, `StepCatalog` |
| `ServiceClients` | what the listings of all other clients go through, and what a refused call costs | |
| `ServiceHandlers`, `MCServiceHandlers` | the handlers of the other 26 services over one job state | `ServiceClients`, `StepCatalog` |
| `IamServices`, `IamServices_proofs`, `MCIamServices` | seven handlers of IAM, Service Usage and Resource Manager over one job state | `StepCatalog` |

### ApiClient

`call` holds the state of every API call: the listing's own (`Listing`, which first
authenticates, then lists page after page) and one for each listed item's nested call.
A call is *sending* (an attempt is in flight), *waiting* (the delay before the next one),
or settled: *ok*, *missing* (`withErrorHandling` returned `undefined`: the error was
swallowed) or *error*. `stage` is where the listing's promise is.

| Action | Code |
|---|---|
| `Respond`, `Reject`, `TimeOut`, `Retry` | an attempt of `withErrorHandling`'s `retry(...)`: its result; `handleError` with `interceptAuthorizationError` and `handleApiClientError`; the 182 s timeout; the delay |
| `RequestAccessToken`, `Authenticated` | `getAuthenticatedServiceClient` |
| `ReceivePage`, `StopListing`, `FailListing`, `NextPage` | `iterateApi` with `forEachPage`: the callback gets a page; `if (!response) return`; a rejection; the next token |
| `StartItem`, `StoreItem`, `FailCallback` | `executeConcurrently` (`pMap`): take the next item below the limit; a mapper resumes and adds its entity; the first rejection rejects all |

An action is what runs between two awaits. `Reject` contains everything `handleError`
does, the warning included, since nothing in it awaits.

### Step catalog and StepGraph

A catalog record has the step's `id`, `dependsOn`, `dependencyGraphId` as they are in the
code, and its footprint: the kinds of entities (and job-state data keys) its handler looks
up (`findEntity`, `hasKey`, `iterateEntities`, `getData`) and those it adds. Footprints
were read from each handler; relationships are left out because no handler reads one.
`StepGraph` executes any such catalog: `StartStep` when every dependency has finished,
`AddEntity` for a handler half way, `FinishStep`, `FailStep` (the wrapper rethrows),
`AddEntityLate` (of the steps in `AddsConcurrently`, whose callbacks `executeConcurrently` runs:
one has failed the step, another is in flight and adds its entity all the same), `AbortRun` (`getIamManagedRoleData`'s `fatal` error), `NextGraph`. `entities` says how
much of what a step adds is there.

### StepStartStates

`ValidateInvocation`, then either `GetDefaultStepStartStates`, or the listing of the
services of the main project and, if the target is another one, of the target, page by
page (`ListPage`, `RefusePage` where `iterateApi` swallows a 403/404, `FailListing`), and
`GetStepStartStatesUsingServiceEnablements`. The start states are a function of the
configuration and of the lists: `enabledSteps`, made of `configured` (organization,
master and single-project instances, billing) and `serviceEnabled` (both projects, or
the service account's project alone, or unconditional).

### ResourceManager

`added[s]` are the keys step `s` has added; `hasKey` asks the job state, so the union.
`frames` is the stack of listings `getAllInnerFolders` is nested in: `AddFolder` adds a
folder and its relationship and enters it before the next sibling is taken.
`listing[s]` is the page and the rest of `iterateProjects` for each of its two callers;
`SkipSystemProject` is the `return` in that loop, which drops the rest of the page.
`FetchProject` caches the project's name and id and adds the project;
`AddSkippedProject` looks first. Any API error fails the step
(`throwMissingAuthPermissionError`), and nothing is rolled back.

### CloudAsset

`fetchIamBindings` lists the policies of the project, of each folder, of the organization
(`scope`, `results`); a binding whose key is known is passed over, and the permissions are
looked up (`HandleBinding`). The others iterate over the bindings (`at[s]`): basic roles,
principals (with the convenience members `projectEditor` etc., and `parseIamMember`'s
throw), roles, resources, and services (with `projectToResourceTracker`). What the default
graph has left is the constant `JobStates`; how an identifier is parsed into a type and a
key is the constant `ResourceOf`, except the translation of a project id into its cached
name, which is modelled.

### ResourceFormats and ResourceKeys

An identifier, a format and a key are sequences of segments. `ResourceFormats` is the table
of `findResourceKindFromCloudResourceIdentifier.ts`, written by collection where formats
share a parent, with the variables of a format (its upper-case segments) reduced to
`PROJECT` and `NAME`; two formats of a project that differ only in the variable's
name coincide.

`ResourceKeys` has the two ways to a key. `apiData` is what an API says of a resource
(external); one operator for each file of converters, or group of them, gives the type and
the key of the entity for each kind a policy may be bound to. The other way is
`getTypeAndKeyFromResourceIdentifier` in its steps: `FindKind` (the table), `FindType`
(`resourceKindToTypeMap.ts`), `GenerateKey` (`typeToKeyGeneratorMap.ts`), each with its
early return; `AddRelationship` is what `createBindingToAnyResourceRelationships` does with
the result: a direct relationship to the entity found, or a mapped one. `world` says what
the integration has seen: whether the policy and the API name the project by id or by
number, whether the entity was ingested, whether the labels a key is made of are there,
whether the project's name is cached. `CloudAsset` has all of this as the constant
`ResourceOf`.

### StorageBuckets

The step reads the policy of the organization (`ReceivePreventionPolicy`,
`RefusePreventionPolicy`), lists the buckets page by page, and asks for the policy of each
(`getPolicy`, `ReceivePolicy`, `RefusePolicy`, `FailPolicy`) while other callbacks of the page
run. What the client does to an error before the step's `catch` sees it is `messageThrown`
(the client replaces the message of what it does not know); `swallowed` is
`withErrorHandling`'s test. `accessOf` and `isPublic` are the two computations of `getPublicState`.

### ComputeClient and ComputeHandlers

A listing of the client goes through zones, regions, or one place (`placesOf`), one after
the other; a refused call ends the listing of its place (`endsListing`). A resource has a kind,
a project, a place and a name, and refers to others by its fields (`cloud.references`).
`keyOf` is the `_key` the converter gives it, `keyLookedUp` the one a handler makes of a
field's value: where these differ is where relationships are lost. `fieldsOf` are the fields of a kind
that a handler reads, `relater` is the step that does, and `subject` and `lookedUp` the two ends as that step sees them. The operators named
after the handlers give the relationships of one resource; `Process` is the callback that adds the
entity and these. Handlers with control of their own are actions of their own:
`FetchComputeImage` and `RefuseImagePolicy` (a policy per image), `FetchComputeInstance` (the
inventory call, and the flag that turns it off), `BuildDiskImageRelationships` (a public
image is fetched), `BuildComputeNetworkPeeringRelationships` (the `return` in the loop).
`dataAfter` is what is stored after the listing.

### ServiceClients and ServiceHandlers

A listing of `ServiceClients` is named after the client's method: it is made for the project, for
the places of a table, or for each entity of a kind (`OfEach`), in pages or as the response of one
call (`AtOnce`). Where the handler or the client asks for more about each resource (a policy, the dataset itself),
the definition of that call is what its refusal costs: nothing, the resource, or the
step. `getApiPolicy` is the one call made outside the client's error handling; `iterateBuildsGheConfigs`
the one listing nothing comes out of, whatever fails (`catchesAll`).

The handlers are as in `ComputeHandlers`: resources with a kind and a name, listed `in` something,
that refer to others by a field; `keyOf` is the `_key` of the converter (the instances of Spanner and
Bigtable share one collection), `relationshipKey` that of a relationship, and `keyLookedUp` where the key a handler makes is not the one
of the entity. A relationship says which of its ends its handler takes for an entity of the job state
(`inJobState`): both if direct, one if mapped. `usesKmsKey` is the fallback many handlers share: a direct
relationship to the key, or a mapped one if it is not there.

| Action | Code |
|---|---|
| `Start`, `Finish`, `Fail` | the executor, with an error no handler knows |
| `Process` | one turn of a callback: `addEntity`, the parts (`partsOf`: node pools, the nodes of Memcached, the policies of a perimeter with their operations and methods), the relationships of `relationshipsOf` |
| `ProcessInFlight` | a callback of `executeConcurrently` that was in flight when another one failed the step |
| `ProcessDuplicate` | `addEntity` throws on a key the job state has |
| `ProcessDuplicateRelationship` | `addRelationship` does, after the entity and the relationship before it were added |
| `RefusePage` | a swallowed permission error, or one the handler knows (no application, no such dataset, no workspace): the list ends, the next one is made |
| `RefuseCall` | a call for one resource is refused |

`current` keeps the order of nested loops: a list is not left before its end, and places come in
the order of their table.

### IamServices

Permissions are told apart by the short name of their service, with the table of services
that are called otherwise (`serviceOf`). `FetchManagedRole` and `StoreManagedRoles` (the data
is stored after the listing), `CollectAuditableServices`, `FetchApiService`
(`LeaveOutServices` without a project, `AbortWithoutManagedRoles`), `FetchCustomRole`,
`BuildCustomRoleServices` with `serviceApiEntityKeySeenMap`, `FetchServiceAccount` with its keys,
`FetchAuditConfig` with its members. `projectId` is what the configuration gives, which some
of these use, and `Own` the client's, which others do.

### Composition

`ResourceManager` and `CloudAsset` are detailed specifications of some steps that
`StepGraph` treats abstractly. Both instance `StepGraph` with a refinement mapping
(statuses as they are; `entities[s]` from what the handler has added; the catalog's own
records for `dependsOn`, `Reads`, `Writes`, `Needs`), and `ImplementsExecutor` states that
they implement it. So a handler that finished early, started before what it depends on, or
aborted the run for data its record does not list, would not be a step of the
executor, and the theorems about `StepGraph` hold of these steps. `StepStartStates` and
`MCStepGraph` extend the same catalog: what one enables is what the other runs.
`ComputeHandlers`, `ServiceHandlers` and `IamServices` take from it what a step is ordered after
and what it adds; the races that `MCStepGraph` names are those that `LossExplained` of
`ComputeHandlers` and of `ServiceHandlers` except.

## 3. What is assumed about the outside

The SDK and the libraries are not in the repository; they are modelled from how the code
uses them, and the map marks them external.

- Executor (`@jupiterone/integration-sdk-core`): steps without a
  `dependencyGraphId` form the first graph, those of `last` run after it is over; ready
  steps run concurrently; a step is ready when all of its dependencies have completed, in
  success or failure; a disabled step never completes; an error with `fatal` ends the run.
- Job state: `addEntity` and `addRelationship` throw on a `_key` they have; what a step
  has added stays when it fails.
- `@lifeomic/attempt`: `handleError` runs on every rejection, before the attempts are
  counted; what it throws rejects the call at once; after the last attempt the raw error
  is rethrown; the timeout rejects without `handleError`.
- `p-map`: items start in order; the first rejection rejects the whole, no further item
  is started, and what is in flight goes on.
- Names of Google Cloud: an identifier has the format its documentation gives it (the
  table's own source); a selfLink is the address of the API with its version, and the path
  of the identifier; the `name` in a response is the path of the resource, with the id or the
  number of its project; where a generator takes a name and the converter an id, the two
  differ, but for buckets, service accounts (an email or a unique id), and the zones
  and policies of the DNS.
- Resources of Compute: no two have one selfLink, or one place and name if they are disks; networks alone are
  peers of each other; an instance is created by a group of its own project; the ranges of a
  firewall are no resources of the project (`KeysAssumption`, `ReferencesAssumption`).
- Google APIs: any call may be refused, fail with any status, or not answer; a listing
  returns each item once, in any order and paging; a permission may be lost between pages.

## 4. Runs: what each checks, its bounds

### `api_client` (MCApiClient, 107,208 states)

Two pages of up to three items, two concurrent callbacks, two attempts per call, and one
error of each kind the client tells apart (denied, quota as 403, 404, billing, 503, an
error without a response). Two pages show what the barrier and a refusal on a later page
do; three items with two at a time leave one queued while others fail; two attempts are a
first and a last one. More attempts only lengthen a chain in which nothing but the last
differs; the proofs hold for any number.

- `InFlightBound`, `PageBarrier`: the two limits of `executeConcurrently` within
  `iterateApi`.
- `WarnOnce`, `NoSilentLoss`, `GivesUpLate`: what happens to errors.
- `Settles` (liveness): every listing and all it started settle though the API may never
  answer.

### `step_graph` (MCStepGraph, 51,319 states)

The executor over the real catalog. A run enables one step with all it depends on (a
*cone*), or a cone without a step in its middle, or one step alone, or
the bindings with and without the managed roles. Steps that have nothing to do with each
other commute, so that their interleavings show nothing; cones hold all interleavings
of steps that depend on each other. `MaxCone` is 7: three larger cones (of
`fetch-compute-addresses`, `-global-forwarding-rules`, `-ssl-policies`, 13, 10 and 8 steps)
are too large to execute, while their look-ups are still covered: `OnlyKnownRaces` looks at
each enabled step against all producers of the catalog, and each step is enabled in
some run; the theorems of section 6 cover their execution.

- `ReadsSettled`, `StableInputs`: what a step looks up, and the catalog orders, is settled
  and does not change while it runs, but by the callbacks a failed step has left in flight.
- `NothingSkipped`, `AbortHasCause`, `RunEnds`: who runs, why a run is aborted, that it ends.
- `OnlyKnownRaces`: every other look-up is one of nine. Eight are places where the result of
  an ingestion depends on the schedule; the second has no effect, as the disks of regions are
  ingested without the image that the step looks for:

| Step | looks up what this one adds, unordered |
|---|---|
| `fetch-bigtable-clusters` | `fetch-kms-keys` |
| `build-compute-disk-image-relationships` | `fetch-compute-region-disks` |
| `fetch-compute-backend-services` | `fetch-compute-region-instance-groups` |
| `fetch-compute-region_backend-services` | `fetch-compute-instance-groups`, `fetch-compute-health-checks` |
| `fetch-compute-global-forwarding-rules` | `fetch-compute-target-ssl-proxies` |
| `fetch-compute-ssl-policies` | `fetch-compute-region-target-https-proxies` |
| `fetch-resource-manager-skipped-projects` | `fetch-resource-manager-project` |
| `fetch-access-context-manager-service-perimeters` | `fetch-resource-manager-project` |

### `start_states` (MCStepStartStates, 265,020 states)

Every configuration of an instance (24), and every pair of projects each of which lacks
at most one service, listed in two pages either of which may be refused. One missing
service is what makes a step depend on it; the start states are monotone in the lists
(`FewerServices`, proved), so further ones only disable more.

- `OnlyUsableServices`, `DegradesSafely`: proved too.
- `SkippedExplained`: the steps a `step_skip` warning calls disabled ("As a result, the
  following steps are disabled") and that run all the same are those that are
  unconditional, follow the main project only, or have the choice of several services.
- `OnlyKnownStranded`: a step that ingests is enabled only if all it depends on are, with
  the 13 exceptions of `KnownStranded`: steps that silently never run, e.g.
  `fetch-bigtable-backups` when KMS is not enabled, or
  `fetch-resource-manager-skipped-projects` outside an organization's master instance.
  The changelog fixes this fault one step at a time ("Decoupled ...").

### `resource_manager` (MCResourceManager, 529,075 states)

Three folders in two levels, three projects: the own one under the organization, one in a
folder, one in any of three places; with and without a system project, labels that
say skip, and a `folderId`; every order and paging of each listing, failure at every point,
an organization's own instance and one that leaves the organization to another. Two
levels exercise the recursion and its return to a parent that has a sibling left; three
projects put two of them on one page.

- `FoldersComplete`, `ProjectsLinked`, `DuplicatesExplained`: what the five steps leave,
  whatever failed and in whatever order they ran.
- `ImplementsExecutor` (refinement), `StepsEnd` (liveness).

### `cloud_asset` (MCCloudAsset, 1,271,990 states)

Six bindings at two scopes: a basic role on the project and on a folder, a custom role on
two disks of one name in two zones, two that differ from another only in what
its key leaves out, one of these with a malformed member; members of every kind, including
convenience ones, and a deleted one beside the one it was; three job states (all ingested, the project and the roles missing, no
managed roles). Every pair of these that can collide in a key does.

- `BindingsComplete`: one binding for each key, with the members and the role of a binding
  that has that key.
- `PrincipalsComplete`: the step of the principals fails if and only if some member's format is
  unknown to `parseIamMember`; what that costs is the principals of the bindings added after it,
  and some of its own binding; those before have all of theirs, and none has another's.
- `RolesAgree`: a binding uses one role, the entity or the mapped one, and no role is both.
- `DuplicatesExplained`, `ImplementsExecutor`.

### `resource_keys` (MCResourceKeys, 12,188 states)

All formats of the table, each with one project and two names at each place of a name
that matters (in what it is, and in what it is called), and six formats the table lacks
(regional resources of compute, node pools of regional clusters): 524 resources, every
world of each. Two names are what it takes to be mistaken for another; the job state holds
the entities of all resources at once, so that any collision of keys between services shows.

- `KindUnambiguous`: no identifier matches formats of two kinds, so the order of
  the table (`Object.keys(...).find`) does not matter.
- `EntityFound`: a binding finds its resource's entity if and only if the resource is
  `reachable`. This is the exact list of what is not: whatever is keyed by a selfLink (the
  `self_link` violation below), by an id (disks, snapshots, clusters), by a prefix and
  the whole path (Redis, Memcached), alert policies, roles, the kinds marked
  `NONE`, formats that are missing.
- `NoOtherEntity`: nor does it find another's, but for log sinks of folders
  and organizations, which have the key of a project's sink of that name, and
  instances of Spanner and Bigtable, which share a key.
- `TypeOfTheEntity`: the table of types agrees with the converters, but for seven
  kinds that are ingested and still `NO_DIRECT_J1_RESOURCE_YET`: regional disks, both
  kinds of addresses, forwarding rules, CA pools, secrets and their versions.

`typeToKeyGeneratorMap.test.ts`, which looks like a test of all this, looks up each step by
its name in a map from ids, and so compares nothing.

### `storage_buckets` (MCStorageBuckets, 3,017 states)

Two pages; five buckets, of every configuration `getPublicState` tells apart; one
error of each kind (denied, over quota, requester pays); the policy of the organization
without rules, with one that enforces and with one that does not.

- `ClaimsSound`: what is said of a bucket is so, or what was not read is published; and the two
  fields that say it contradict each other in one named case only (`FieldsAgree`).
- `NoBucketDropped`.

### `compute_handlers` (MCComputeHandlers, 415,583 states)

Ten small projects, one for each group of steps that look each other's entities up: what is
zonal, regional and global, in two zones, one region, and a zone the table of the client lacks; in
another project; with and without a configured project. Two calls of a run may fail: one can
only cut a listing, a second can be in another place of it, or fail the step that
runs after. Steps of different groups share nothing, so their interleavings show nothing.

- `RelationshipsTrue`: a relationship is what a field says, and is direct if and only if both
  ends are ingested; but for an image made of an image, which is related to itself.
- `LossExplained`: a reference whose two ends are there is related, unless it is `neverRelated`
  (five kinds that the handlers do not find), `racing` (five of the races above; the sixth of these
  steps is the one without an effect), or `lostWithAnother`.
- `LossBounded`: a refused call costs one place's listing or one image.

### `service_handlers` (MCServiceHandlers, 238,788 states)

26 small projects, one for each service or for two that share nothing, with the entities of Storage, KMS,
IAM, Compute and Resource Manager that they look up; two calls of a run may fail, as above. Each has what its
handlers tell apart: a key that is ingested and one that is another project's, two parents so that a list is
left for the next, a place that is in no table, a perimeter with an enforced configuration and a dry run, and one whose dry run lists nothing,
a pool with one authority and with two, an application with one bucket in both of its fields, an
instance name that is both Spanner's and Bigtable's, budgets with and without projects.

- `RelationshipsTrue`: a relationship is what a field says, or where a resource is listed, its
  ends are there, and a key is mapped to if and only if it is not ingested; but for a certificate, which any
  authority of its pool may be said to have created; a metric, which has the policies on any metric whose name
  contains its own; and the budgets of another project of the account.
- `LossExplained`: when a step has succeeded, what it relates is related and what it lists is
  there, but for what each refused call costs (the rest of one list, or one resource), and
  for what is `neverRelated` (a backup's table, a function's repository at a revision, and of the
  two configurations of a perimeter one for its policies and the other for its projects),
  the key of a Bigtable cluster, which is a race and has no mapped relationship, what is
  `lostWithAnother`, and what a failed step has added `late`. What fails a step, but for
  errors no handler knows, is one of four things (`FailuresNamed`): a refused policy of an API, a pool whose
  certificates are listed for a second authority, the second of the two steps that meet one name
  of an instance of Spanner and of Bigtable, and one bucket related to an application twice.

### `iam_services` (MCIamServices, 437,852 states)

Three instances (configured project or not, organization or not, basic and other roles), two
enabled services and one that is not, permissions that are and are not named after their
service, audit configs of one service, of all and of one that is not enabled, an account that is
exempted with a deleted one of its name; two calls of a run may fail.

- `CustomRolesRelated`: if and only if; but for the service account's own project, which is
  looked up as `undefined`.
- `AuditConfigsRelated`: the config of all services is related to none.
- `LossExplained`: what is missing or wrong was refused, and a failure has its error.

### Violations

`self_link` and `requester_pays` each check one statement a document, comment or
test makes, and find it violated; see section 7. They use the same instances as the
runs above.

`CHECK_DEADLOCK FALSE` is used where the program ends (a run, the start states, steps);
`ApiClient` has an explicit `Terminated` step instead, so that TLC looks for deadlocks there.

Each property of a passing run has a mutant in `PROJECT.json`: a definition that models
code, changed the way a plausible bug would, which makes TLC report that property.

## 5. Fairness

- `ApiClient`: the API owes nothing. Fair are the process's own timers (`TimeOut`, which
  every attempt has, and `Retry`, the delay) and the continuations of settled promises
  (the listing's, a queued item `pMap` has room for, a mapper's, a rejection's). `Respond`
  and `Reject` have no fairness.
- `StepGraph`: `WF` of starting, finishing or failing steps and of changing graphs. That a
  running handler ends is what `Settles` of `ApiClient` gives: handlers await only API
  calls and the job state. No handler owes an entity, so neither `AddEntity`
  nor `AddEntityLate` is in it. Steps
  only advance, so one `WF` over all of them gives each its turn.
- `ResourceManager`: `WF_vars(Next)`, for the same reason: every call settles and every
  continuation of the event loop runs. Each step there consumes something finite (a page, a
  folder), and that it does is what `StepsEnd` checks: the mutant that takes the same page
  again violates it.
- All other modules have safety properties only and state no fairness.

## 6. Proofs

Checked by TLAPS for every value of the constants that satisfies the `ASSUME`s. Each
module proves that `IInv` is inductive (`Invariance`: `InitIInv`, a lemma for each part of
the invariant with a step for each action, and `IInvStep`), and its theorems from that. TLC was
asked of every `IInv`, on the instance of the component's run, before it was proved.

| Module | From | Theorems, with the property of a run they state |
|---|---|---|
| `ApiClient_proofs` | any number of attempts, pages, items, any limit, any errors | `InFlightBound`, `PageBarrier`, `WarnOnce`, `NoSilentLoss`, `GivesUpLate` |
| `StepGraph_proofs` | any catalog without a cycle, any start states | `ReadsSettled`, `StableInputs`, `AbortHasCause`, `NothingSkipped` |
| `StepStartStates_proofs` | any configurations, services and paging | `OnlyUsableServices`, `DegradesSafely`, `SkippedExplained` |
| `StorageBuckets_proofs` | any buckets, pages, messages, number of callbacks | `ClaimsSound`, `NoBucketDropped` |
| `ResourceManager_proofs` | any tree of folders and projects, of any depth | `FoldersComplete`, `ProjectsLinked`, `DuplicatesExplained`, `ImplementsExecutor` |
| `CloudAsset_proofs` | any bindings, scopes, job states | `BindingsComplete`, `PrincipalsComplete`, `RolesAgree`, `DuplicatesExplained`, `ImplementsExecutor` |
| `IamServices_proofs` | any services, roles, accounts and audit configs, any number of refused and failed calls | `CustomRolesRelated`, `AuditConfigsRelated`, `LossExplained` |
| `ComputeHandlers_proofs` | any resources and references of the code's kind, any table of zones and regions, any number of refused and failed calls | `RelationshipsTrue`, `LossExplained`, `LossBounded` |

The type invariant of each of the eight is proved (`TypeCorrect`), and is in no run.

### ApiClient_proofs

From `BoundsAssumption`, `ErrorsAssumption` and `ApiErrorAssumption`. `IInv` adds to the
type and the properties where the items of each page stand (`PagesInOrder`: those behind are stored, those ahead
unlisted), what the listing's call says at each stage (`ListingCall`: in particular
that an error is only swallowed after the warning was published), and that a call
that waits has an attempt left (`AttemptLeft`). None of these follows from the
properties: that a listing ends complete needs to know what its earlier pages were.
`ConcurrencyLimited` is an induction of its own (items join the calls in flight one at a time,
and below the limit, with facts on cardinality).

### StepGraph_proofs

From `CatalogAssumption`, `GraphAssumption`, `ClosureAssumption`, `NeedsAssumption` and
`AcyclicAssumption`, which TLC evaluates for the integration's catalog in the run `step_graph`.

- `AncestorsFinished` (a step that started has all its ancestors behind it; by the closure,
  for `DependsOn` alone is not inductive) and `LastIsLast` (no step of the default graph runs
  once `last` has begun) give `LookupsSettled` and `InputsStable`, the promise of the executor
  to every handler, by `OrderedIsSettled`, and its one exception: a failed step that adds concurrently. `AbortedForCause` needs `NeedsAssumption`: nobody
  can provide afterwards what a step aborted for.
- `NothingIsSkipped` adds `WaitingForever`: what is pending in a graph that is over has a
  dependency that never finishes. Why this is always a disabled one is an argument on the whole
  graph: of the steps that are left out with no disabled ancestor one depends on none of the others
  (`FirstOfAny`: of steps with an acyclic, finite graph one has the fewest ancestors, by the
  well-foundedness of strict subsets), and what that one waits for cannot be left out.

### StepStartStates_proofs

`FewerServices` (monotone), then `UsableServices` and `SafeDegradation` from the invariant that
what was listed is part of what is enabled and the start states, and the warnings, are what the lists
give (`Computed`, `OnlyInCompute`). `SkippedIsExplained` rests on `OneServiceAssumption`, that no
step belongs to two services in `apiServiceToStepIdsMap`: a fact of the catalog, which TLC evaluates.

### StorageBuckets_proofs

From `StorageAssumption`. `ClaimTrue` is about the two computations of `getPublicState` alone: which conditions
on the organization's policy, the bucket's configuration and its policy make them contradict each other or the
truth. The invariant then says that the organization's policy is settled before any bucket is listed
(`PolicyFirst`), whose callbacks run (`CallbacksListed`) and that the buckets of the pages behind are all added,
refused, or in flight (`PagesBehind`), whatever order the callbacks resume in.

### ResourceManager_proofs

From `CloudAssumption` and `TreeAssumption` (every set of folders has one whose parent is outside of it: the API
returns a tree).

- The recursion of `getAllInnerFolders` is a stack of listings, each of a folder that was added or of
  the root (`FramesNested`). `FoldersPending` says where what is still missing is: a folder whose parent
  was added is added as well, or some listing on the stack has yet to give it; so when the stack is
  empty what was added is closed. `Below` is a smallest closed set, of which the proof needs two facts:
  it is closed (`BelowClosed`), and part of every closed set (`BelowSmallest`). These, and not an
  induction on the depth, give completeness; `RootNotBelow` is where the tree is needed.
- `ListingsNested`, `ProjectLinks` and `ProjectsPending` are the same for `iterateProjects`, for both of its callers and
  with the pages a system project cuts short; what the organization's steps read is settled by what they depend on
  (`DependenciesBehind`).
- `HandlersImplementExecutor`: the initial states map to one of `StepGraph`, and each action to the step of the
  executor its name says, or to one that only adds (`AddEntity`), or to none.

### CloudAsset_proofs

From `CloudAssetAssumption` (the constants are functions on the bindings, the scopes a sequence).

- `IBindings`: a listing is of a scope that was not listed before, no two bindings have one key, and each binding of
  the scopes that are behind has its key in the job state, unless the listing was cut short. It is the second that
  lets the third be kept: a binding is passed over because another has its key, and not otherwise.
- `IRoles`: what `BASIC_ROLES` has added is the roles of the bindings it is past; each binding `BINDING_ROLE` is past
  has exactly its relationship, and what is mapped is no basic role. That this is still so when the run ends needs `StepsInOrder`: the
  bindings and the basic roles no longer change once they are looked up (`InputsSettled`).
- `PrincipalsRelated`: the bindings `BINDING_PRINCIPAL` is past are related to all of their principals (`MemberPrincipals`
  says which those of a member are), and if it has failed, the last of them is the only one with a member it does not know.
- `ServicesTracked` says of `projectToResourceTracker` that it knows every resource that was related; a duplicate key is
  therefore never that of one resource met twice.
- `HandlersImplementExecutor`, as above, with the catalog's own records; the step that aborts does so for data that its record
  lists (`Aborting`).

### IamServices_proofs

From `IamAssumption`. Beside the types it says what the keys of the handlers rest on: the API gives a
custom role a name that is its own under its parent, no service is called `allServices`, and the marks
of absence (`undefined` in the code) are no project and no set of roles. Without the first, two roles of one key make
`LossExplained` false; TLC evaluates it for the instances of the run.

- `Dependencies` computes from the records of the catalog which steps come before which: that three of the seven wait
  for others, and for which, is a lemma here and no assumption. A catalog that drops one of these
  dependencies no longer has a proof.
- `EntitiesListed` and `FoundListed`: a key is found if, and only if, the step it belongs to has listed what it
  is the key of (`KeysApart`: no two steps give one key). With `StepsInOrder` this makes `FoundSettled`: what a handler
  finds is no longer changed by another step once it has started, so a relationship that was right, or rightly left out,
  when it was decided is so when the run ends (`Related`). For the roles this needs that
  `serviceApiEntityKeySeenMap`, which is never asked twice, was not filled too early (`SeenRight`).
- `DataHanded` ties the data the steps hand on (`managedRoles`, `auditableServices`) to what was listed, and
  `ServicesTrue` the flags of each service to that data at the time of its entity.
- `CustomRolesAreRelated` and `AuditConfigsAreRelated` are equivalences: each direction reads the keys of
  a relationship back to its handler (`RoleLinksTold`, `AuditLinksTold`). `LossIsExplained`: what a successful step has
  not listed is what a refused call would have returned (`MissingExplained`).

### ComputeHandlers_proofs

From `CloudAssumption`, `KeysAssumption` (no two resources have one key, and no two disks, zonal or regional, one place and
name) and `ReferencesAssumption` (what the API's fields refer to: only networks are peers of each other, the range of a firewall
is not a resource of the project, a KMS key name is one of a KMS key), and `FieldsAssumption`: a resource has the fields
its handlers read (`fieldsOf`), each refers to a kind that the catalog records its handler to look up (`reads`), and a disk
has one source image, a resource one key. TLC evaluates them for the projects of the run. `findEntity` takes any key, so what
the API put into a field beyond these kinds would be found or not by chance; nothing is proved of that.

- `ListsAre` and `Catalog` compute from the client and from the records of the catalog which steps list, which step alone adds the KMS keys,
  and that the two KMS builders come after it; nothing of that is assumed.
- `RelationshipsMade` goes once through the table of the handlers, and says of each relationship what it rests on (`Made`); after
  it the proof of `RelationshipsTrue` looks at no single handler again. `FoundReferred` is the lemma on keys: whichever key a handler makes of
  a field, what it finds is what the field refers to. It is not obvious of those it makes of other data: a disk's
  identifier, the group named in `created-by`, and the image's own key, with which an image finds itself.
- That a relationship stays true is a matter of the mapped ones: what was not found must not be added later.
  `MappedSettled` says why: it is outside the project (`EntitiesOwn`), or a KMS key, and the step of the keys is over
  (`StepsInOrder`, `DoneAdded`). A catalog without that dependency has no proof.
- `FaultsCounted`: each listing cut short and each refused image has cost a fault of its own. A resource a
  successful step has lost is then refused itself, or at a place whose listing was cut short (`LostByFaults`).
- `QuotaRemembered` gives the second part of `LossExplained`, of the inventory (`OnlyQuotaStopsInventory`).
- The first part, of the references, is two facts that hold at different times. While the steps run, `Handled`: once its `subject`
  is processed, a reference is related, or lost with something that has a name, or what it looks for is not there. When a
  step has succeeded, `SubjectProcessed`: its subjects are processed, by a listing (`EntitiesListed`), from the data
  a listing stored (`DataStored`), or by iterating over entities, of which none is left
  but the regional disks (`NothingLeft`), which refer to no image.
- `Handled` is inductive only because what a handler did not find is not added later (`TargetSettled`). That is the order of the
  catalog: `Waits` computes, from the records of all the steps concerned, that each kind a step reads or
  iterates over has one listing that it depends on, or none among the steps modelled, except for six pairs (`Races`), and `RaceNamed` that the references
  of these are what the property calls `racing` (there are none of the pair of regional disks, by `FieldsAssumption`). So the exceptions of the property are complete, for every project: a dependency dropped from a
  record, or a look-up added without one, leaves `OrdersOf` without a proof.
- `FoundRelated` goes through the handlers a second time, in the other direction: what a field finds is related by the handler that
  reads the field. `LookedUpFound` is the converse of `FoundReferred`: the key that is made finds the entity, but for
  the references of `neverRelated`.
- The losses stay losses (`LostKept`): a firewall does not get its network later, nor a peered network its missing peer, and the
  data of a step is stored before any step that waits for it starts (`DataSettled`).

### What stays with TLC

- Liveness (`Settles`, `RunEnds`, `StepsEnd`): out of the prover's reach, with `ENABLED`.
- `OnlyKnownRaces` and `OnlyKnownStranded` name steps of the one concrete catalog; there is nothing
  to generalise, and TLC evaluates them for all of it.
- `KindUnambiguous`, `EntityFound`, `NoOtherEntity`, `TypeOfTheEntity` of `ResourceKeys` are about a table of 154 formats and
  the keys of each kind, which TLC goes through one by one; the module uses folds over sequences, an induction over data.
- `RelationshipsTrue` and `LossExplained` of `ServiceHandlers`: they rest on the order of 26 services' steps as those of
  Compute do, and on tables three times as long (which key is made of which field, which step adds what); the same argument
  (`Waits`, `KindSettled`, `Handled`) would carry them.

## 7. Disagreements between the code and what is said of it

| Run | What the code does | What is said |
|---|---|---|
| `self_link` | the key generated for compute resources, node pools and databases lacks the version of the API, and is the key of no entity | "ex: https://www.googleapis.com/compute/v1/projects/..." (`utils/iamBindings/typeToKeyGeneratorMap.ts:196`) |
| `requester_pays` | the message of an error is compared after the client has replaced it, so a requester-pays bucket fails the step | "Being unable to process "requestor pays" buckets is a non-fatal error, and should _not_ cause dependent steps from running" (`steps/storage/index.ts`) |

Others are exceptions that a passing property names:

- the step of the own project adds it without a look at the job state and fails if the step of skipped
  projects was first, though a check was added ("add key check to skipped projects step",
  `src/CHANGELOG.md:56`; `DuplicatesExplained`);

- a refused listing of the main project's services is swallowed, and the run goes on with
  almost every step disabled, where `getStepStartStates.ts:518-520` says that the
  "Ability to list services is required" (`DegradesSafely`);
- one `sys-` project on a page drops the rest of the page, and skipped projects outside
  the configured folder are added though "only ingest projects in a specific folder"
  (`src/docs/jupiterone.md:312`) (`ProjectsLinked`);
- a basic role of a project identified by number hangs on a key that no entity has, though
  "all Basic roles are for hierarchy members that we have ingested"
  (`steps/cloud-asset/index.test.ts:799`) (`EntityFound`);
- the audit config of all services is related to none: `isAuditable` is read where `auditable`
  was written (`AuditConfigsRelated`);
- a perimeter's policies are those of its dry run when it has one (`LossExplained` of `ServiceHandlers`);
- one inventory call over its quota turns the inventory off for all instances that follow
  (`steps/compute/steps/fetch-compute-instances.ts:137-139`; `LossExplained` of
  `ComputeHandlers`).

## 8. Not modelled

- The properties converters give to entities beyond `_type` and `_key`, the utilities for formatting, the tables of basic
  permissions: they carry no control that a property tells apart.
- The order of several relationships within one callback, which nothing can come between; a database
  of an unknown version, which is passed over.
- The content of the role table (permissions as data), events other than the two warnings,
  progress logs, the cached authentication client (a listing authenticates once here).
- In `ComputeHandlers` a failed step adds nothing more. One of its steps adds concurrently, that of the buckets; if it
  fails, one in flight may be added after the step of the backend buckets has looked for it, and that
  relationship is lost, as in `ServiceHandlers` (`late`). `StepGraph`, `StorageBuckets` and `ServiceHandlers` have these callbacks.
- An instance of Compute without a zone, for which no inventory is asked: the API gives every instance one.
- Scripts, commands, Terraform, documents.

## 9. Plan

In the order of what matters most; the models are done.

| Order | Modules | Status |
|---|---|---|
| 1 | `ApiErrors`, `ApiClient`, proofs | done |
| 2 | `StepRecords`, catalog modules, `StepGraph`, proofs | done |
| 3 | `StepStartStates`, proofs | done |
| 4 | `ResourceManager`, refining `StepGraph`, proofs | done |
| 5 | `CloudAsset`, refining `StepGraph`, proofs | done |
| 6 | `ResourceFormats`, `ResourceKeys` | done; composition with `CloudAsset` in place of `ResourceOf` possible |
| 7 | `StorageBuckets`, proofs | done |
| 8 | `IamServices`, proofs | done |
| 9 | `ComputeClient`, `ComputeHandlers`, proofs | done |
| 10 | `ServiceClients`, `ServiceHandlers` | model done; proofs possible, along the lines of 9 |
