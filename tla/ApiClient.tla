----------------------------- MODULE ApiClient -----------------------------
(***************************************************************************)
(* One paged listing made through one instance of the Google Cloud client: *)
(* getAuthenticatedServiceClient, then iterateApi, whose page callback     *)
(* runs one nested call per listed item with executeConcurrently.  It is   *)
(* the shape of iterateCloudStorageBuckets and iterateBigQueryTables.      *)
(*                                                                         *)
(* Every call, of the listing or of an item, goes through                  *)
(* withErrorHandling: attempts, handleError, delays, a timeout per attempt.*)
(* The interleaving is that of promises on one event loop: an action is    *)
(* what runs between two awaits.                                           *)
(***************************************************************************)
EXTENDS ApiErrors, FiniteSets

CONSTANTS
  MaxAttempts,     \* retry's maxAttempts (6 in the code)
  Concurrency,     \* executeConcurrently's limit (5 in the code)
  MaxPages,        \* bound: pages the server may return
  PageSize,        \* bound: items on a page
  NoError,         \* no error recorded
  AttemptTimeout   \* the error retry raises when an attempt times out

ASSUME BoundsAssumption ==
  /\ MaxAttempts \in Nat \ {0}
  /\ Concurrency \in Nat \ {0}
  /\ MaxPages \in Nat \ {0}
  /\ PageSize \in Nat \ {0}

ASSUME ErrorsAssumption ==
  /\ NoError \notin ApiError
  /\ AttemptTimeout \notin ApiError
  /\ NoError # AttemptTimeout

VARIABLES
  stage,                \* where the listing is
  page,                 \* the page being listed; 0 before the first
  more,                 \* the last page had a nextPageToken
  options,              \* PermissionErrorHandlingOptions of the listing
  call,                 \* the state of every call
  permissionsWarnLogs,  \* the warnings the client has published
  published             \* how many times publishWarnEvent ran

vars == <<stage, page, more, options, call, permissionsWarnLogs, published>>

Item == (1..MaxPages) \X (1..PageSize)
Listing == <<0, 0>>              \* the call that authenticates, then lists
CallId == Item \cup {Listing}

Phase == {"unlisted",            \* an item no page has returned yet
          "queued",              \* an item pMap has not started
          "sending",             \* an attempt is in flight
          "waiting",             \* retry sleeps before the next attempt
          "ok",                  \* settled with a response
          "missing",             \* settled with undefined: error swallowed
          "error",               \* settled with an error
          "stored"}              \* an item whose entity was added

CallState == [phase   : Phase,
              attempt : 1..MaxAttempts,
              error   : ApiError \cup {NoError, AttemptTimeout}]

Stage == {"getClient", "getAccessToken", "list", "callback", "done", "failed"}

-----------------------------------------------------------------------------
(* withErrorHandling                                                       *)

\* The message of a step's warning: its id and the permissions it suggests.
WarnLog == "warnLog"

\* The combinations of options the code's calls use.
SilentOptions == [throwMissing |-> FALSE, publish |-> FALSE]     \* mutant
DefaultOptions == [throwMissing |-> FALSE, publish |-> TRUE]
ThrowOptions == [throwMissing |-> TRUE, publish |-> FALSE]

Fresh(phase) == [phase |-> phase, attempt |-> 1, error |-> NoError]

OptionsOf(c) ==
  IF c # Listing THEN DefaultOptions
  ELSE IF stage = "list" THEN options ELSE ThrowOptions

AttemptToSpare(c) == call[c].attempt < MaxAttempts - 1           \* mutant
AttemptsRemain(c) == call[c].attempt < MaxAttempts

(***************************************************************************)
(* The call after its attempt rejected with e: handleError throws on what  *)
(* is not retryable, and its AuthorizationError is swallowed; retry gives  *)
(* up when no attempt remains.                                             *)
(***************************************************************************)
AfterRejection(c, e) ==
  LET settled(phase) == [call[c] EXCEPT !.phase = phase, !.error = e]
  IN IF Retryable(e)
     THEN IF AttemptsRemain(c)
          THEN [call[c] EXCEPT !.phase = "waiting"]
          ELSE settled("error")
     ELSE IF IsAuthorizationError(e) /\ ~OptionsOf(c).throwMissing
          THEN settled("missing")
          ELSE settled("error")

WarnAgain == TRUE                                                \* mutant
NotYetWarned == WarnLog \notin permissionsWarnLogs

(***************************************************************************)
(* interceptAuthorizationError's warning, once per message and client; the *)
(* calls of a listing and of its items name the same step and permissions. *)
(***************************************************************************)
WarnMissingPermission(c, e) ==
  IF /\ IsAuthorizationError(e)
     /\ OptionsOf(c).publish
     /\ NotYetWarned
  THEN /\ published' = published + 1
       /\ permissionsWarnLogs' = permissionsWarnLogs \cup {WarnLog}
  ELSE UNCHANGED <<permissionsWarnLogs, published>>

Respond(c) ==
  /\ call[c].phase = "sending"
  /\ call' = [call EXCEPT ![c] = Fresh("ok")]
  /\ UNCHANGED <<stage, page, more, options, permissionsWarnLogs, published>>

Reject(c, e) ==
  /\ call[c].phase = "sending"
  /\ WarnMissingPermission(c, e)
  /\ call' = [call EXCEPT ![c] = AfterRejection(c, e)]
  /\ UNCHANGED <<stage, page, more, options>>

TimeOutNever(c) == FALSE                                         \* mutant
TimeOutDue(c) == call[c].phase = "sending"

\* The 182 s timeout of an attempt: no handleError, no further attempt.
TimeOut(c) ==
  /\ TimeOutDue(c)
  /\ call' = [call EXCEPT ![c].phase = "error", ![c].error = AttemptTimeout]
  /\ UNCHANGED <<stage, page, more, options, permissionsWarnLogs, published>>

\* The delay is over: the next attempt starts.
Retry(c) ==
  /\ call[c].phase = "waiting"
  /\ call' = [call EXCEPT ![c].phase = "sending", ![c].attempt = @ + 1]
  /\ UNCHANGED <<stage, page, more, options, permissionsWarnLogs, published>>

-----------------------------------------------------------------------------
(* getAuthenticatedServiceClient                                           *)

RequestAccessToken ==
  /\ stage = "getClient"
  /\ call[Listing].phase = "ok"
  /\ stage' = "getAccessToken"
  /\ call' = [call EXCEPT ![Listing] = Fresh("sending")]
  /\ UNCHANGED <<page, more, options, permissionsWarnLogs, published>>

Authenticated ==
  /\ stage = "getAccessToken"
  /\ call[Listing].phase = "ok"
  /\ stage' = "list"
  /\ page' = 1
  /\ call' = [call EXCEPT ![Listing] = Fresh("sending")]
  /\ UNCHANGED <<more, options, permissionsWarnLogs, published>>

-----------------------------------------------------------------------------
(* iterateApi and forEachPage                                              *)

\* A page of n items arrives; the callback hands them to pMap.
ReceivePage(n, token) ==
  /\ stage = "list"
  /\ call[Listing].phase = "ok"
  /\ token => page < MaxPages
  /\ stage' = "callback"
  /\ more' = token
  /\ call' = [c \in CallId |->
                IF c \in {page} \X (1..n) THEN Fresh("queued") ELSE call[c]]
  /\ UNCHANGED <<page, options, permissionsWarnLogs, published>>

\* A swallowed authorization error ends the loop: `if (!response) return`.
StopListing ==
  /\ stage = "list"
  /\ call[Listing].phase = "missing"
  /\ stage' = "done"
  /\ UNCHANGED <<page, more, options, call, permissionsWarnLogs, published>>

FailListing ==
  /\ stage \in {"getClient", "getAccessToken", "list"}
  /\ call[Listing].phase = "error"
  /\ stage' = "failed"
  /\ UNCHANGED <<page, more, options, call, permissionsWarnLogs, published>>

PageItems == {c \in {page} \X (1..PageSize) : call[c].phase # "unlisted"}

NoBarrier == TRUE                                                \* mutant
PageStored == \A c \in PageItems : call[c].phase = "stored"

NextPage ==
  /\ stage = "callback"
  /\ PageStored
  /\ IF more
     THEN /\ stage' = "list"
          /\ page' = page + 1
          /\ call' = [call EXCEPT ![Listing] = Fresh("sending")]
     ELSE /\ stage' = "done"
          /\ UNCHANGED <<page, call>>
  /\ UNCHANGED <<more, options, permissionsWarnLogs, published>>

-----------------------------------------------------------------------------
(* executeConcurrently                                                     *)

InFlight == {c \in Item : call[c].phase \in {"sending", "waiting", "ok", "missing"}}

RoomForOneMore == Cardinality(InFlight) <= Concurrency           \* mutant
HasRoom == Cardinality(InFlight) < Concurrency

NotRejected == stage = "callback"

\* pMap takes the items in order, as long as none has rejected.
StartItem(c) ==
  /\ NotRejected
  /\ call[c].phase = "queued"
  /\ \A d \in PageItems : d[2] < c[2] => call[d].phase # "queued"
  /\ HasRoom
  /\ call' = [call EXCEPT ![c].phase = "sending"]
  /\ UNCHANGED <<stage, page, more, options, permissionsWarnLogs, published>>

\* The mapper resumes after its nested call and adds the entity, also when
\* the call returned undefined, also when pMap has rejected meanwhile.
StoreItem(c) ==
  /\ call[c].phase \in {"ok", "missing"}
  /\ call' = [call EXCEPT ![c] = Fresh("stored")]
  /\ UNCHANGED <<stage, page, more, options, permissionsWarnLogs, published>>

\* The first mapper to reject rejects pMap, iterateApi and the step.
FailCallback(c) ==
  /\ stage = "callback"
  /\ call[c].phase = "error"
  /\ stage' = "failed"
  /\ UNCHANGED <<page, more, options, call, permissionsWarnLogs, published>>

-----------------------------------------------------------------------------

Init ==
  /\ stage = "getClient"
  /\ page = 0
  /\ more = FALSE
  /\ options \in {DefaultOptions, ThrowOptions}
  /\ call = [c \in CallId |-> Fresh(IF c = Listing THEN "sending" ELSE "unlisted")]
  /\ permissionsWarnLogs = {}
  /\ published = 0

Ended == stage \in {"done", "failed"} /\ InFlight = {}

\* The listing has settled and nothing is left in flight.
Terminated == Ended /\ UNCHANGED vars

Calls == \E c \in CallId :
           \/ Respond(c)
           \/ \E e \in ApiError : Reject(c, e)
           \/ TimeOut(c)
           \/ Retry(c)

Listings == \/ RequestAccessToken
            \/ Authenticated
            \/ \E n \in 0..PageSize, token \in BOOLEAN : ReceivePage(n, token)
            \/ StopListing
            \/ FailListing
            \/ NextPage

Items == \E c \in Item : StartItem(c) \/ StoreItem(c) \/ FailCallback(c)

Next == Calls \/ Listings \/ Items \/ Terminated

(***************************************************************************)
(* The API owes no answer; only what the process itself runs is fair: its  *)
(* timers (delay and timeout) and the continuations of settled promises.   *)
(***************************************************************************)
Fairness ==
  /\ \A c \in CallId : WF_vars(TimeOut(c)) /\ WF_vars(Retry(c))
  /\ WF_vars(Listings)
  /\ \A c \in Item : WF_vars(StartItem(c)) /\ WF_vars(StoreItem(c))
  /\ WF_vars(\E c \in Item : FailCallback(c))

Spec == Init /\ [][Next]_vars /\ Fairness

-----------------------------------------------------------------------------
(* Properties                                                              *)

TypeOK ==
  /\ stage \in Stage
  /\ page \in 0..MaxPages
  /\ more \in BOOLEAN
  /\ options \in {DefaultOptions, ThrowOptions}
  /\ call \in [CallId -> CallState]
  /\ permissionsWarnLogs \subseteq {WarnLog}
  /\ published \in Nat

\* executeConcurrently never has more than `concurrency` mappers running.
InFlightBound == Cardinality(InFlight) <= Concurrency

\* A page is requested only when every item of the pages before it has had
\* its entity added: awaiting the callback holds back forEachPage.
PageBarrier ==
  stage = "list" => \A c \in Item : call[c].phase \in {"unlisted", "stored"}

\* Concurrent calls publish the missing-permission warning once per client,
\* and the client's record of it is exact.
WarnOnce == published = IF WarnLog \in permissionsWarnLogs THEN 1 ELSE 0

\* A listing that ends well has listed and stored everything, unless a page
\* was swallowed as unauthorized, and then the warning has been published:
\* partial data is never silent.
NoSilentLoss ==
  stage = "done" =>
    /\ \A c \in Item : call[c].phase \in {"unlisted", "stored"}
    /\ call[Listing].phase = "ok" => ~more
    /\ call[Listing].phase = "missing" => published = 1

\* A call is given up on a retryable error only after the last attempt, and
\* only an error that means a missing permission is swallowed.
GivenUpLate(r) ==
  /\ r.phase = "error" /\ r.error # AttemptTimeout /\ Retryable(r.error)
        => r.attempt = MaxAttempts
  /\ r.phase = "missing"
        => IsAuthorizationError(r.error) /\ ~Retryable(r.error)

GivesUpLate == \A c \in CallId : GivenUpLate(call[c])

(***************************************************************************)
(* The inductive invariant behind the safety properties: where the items   *)
(* of each page stand, and what the listing's own call says, at each stage.*)
(***************************************************************************)
PagesInOrder ==
  /\ stage \in {"getClient", "getAccessToken"} => page = 0
  /\ stage \in {"list", "callback"} => page # 0
  /\ stage = "callback" /\ more => page < MaxPages
  /\ \A c \in Item :
       /\ c[1] > page => call[c].phase = "unlisted"
       /\ c[1] < page \/ stage \in {"list", "done"}
             => call[c].phase \in {"unlisted", "stored"}

ListingCall ==
  /\ call[Listing].phase \in {"sending", "waiting", "ok", "missing", "error"}
  /\ stage = "callback" => call[Listing].phase = "ok"
  /\ stage = "done" => call[Listing].phase \in {"ok", "missing"}
  /\ stage = "done" /\ call[Listing].phase = "ok" => ~more
  /\ call[Listing].phase = "missing" => published = 1

AttemptLeft ==
  \A c \in CallId : call[c].phase = "waiting" => call[c].attempt < MaxAttempts

IInv == /\ TypeOK
        /\ PagesInOrder
        /\ ListingCall
        /\ AttemptLeft
        /\ GivesUpLate
        /\ WarnOnce

\* The listing and all it started settle, even if the API never answers.
Settles == <>Ended
=============================================================================
