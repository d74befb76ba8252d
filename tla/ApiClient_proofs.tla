-------------------------- MODULE ApiClient_proofs --------------------------
(***************************************************************************)
(* Proofs about ApiClient, for every set of errors, every limit and every  *)
(* number of pages and items.                                              *)
(***************************************************************************)
EXTENDS ApiClient, FiniteSetTheorems, TLAPS

(***************************************************************************)
(* An API error taken for a missing permission is never one the retry loop *)
(* would retry: a 403 for an exhausted quota is not swallowed.             *)
(***************************************************************************)
LEMMA AuthorizationNotRetried ==
  ASSUME NEW e \in ApiErrorType, ~e.handled, IsAuthorizationError(e)
  PROVE  ~Retryable(e)
BY DEF ApiErrorType, IsAuthorizationError, StatusOf, Retryable,
       IsQuotaLimitError, IsBillingError, Undefined

LEMMA CallIds ==
  /\ Listing \in CallId
  /\ Item \subseteq CallId
  /\ \A c \in CallId : c \in Item <=> c # Listing
  /\ \A c \in Item : c[1] \in 1..MaxPages
BY DEF Listing, CallId, Item

LEMMA FreshType ==
  ASSUME NEW p \in Phase
  PROVE  /\ Fresh(p) \in CallState
         /\ Fresh(p).phase = p
         /\ p \notin {"error", "missing"} => GivenUpLate(Fresh(p))
BY BoundsAssumption DEF Fresh, CallState, GivenUpLate

-----------------------------------------------------------------------------
(* The inductive invariant                                                 *)

LEMMA InitIInv == Init => IInv
<1> SUFFICES ASSUME Init PROVE IInv
  OBVIOUS
<1> USE DEF Init
<1>1. \A c \in CallId :
        call[c] = Fresh(IF c = Listing THEN "sending" ELSE "unlisted")
  OBVIOUS
<1>2. \A c \in CallId : /\ call[c] \in CallState
                        /\ call[c].phase = IF c = Listing THEN "sending" ELSE "unlisted"
                        /\ GivenUpLate(call[c])
  BY <1>1, FreshType DEF Phase
<1>3. TypeOK
  <2>1. call \in [CallId -> CallState]
    BY <1>2
  <2>2. page \in 0..MaxPages /\ published \in Nat
    BY BoundsAssumption
  <2>3. more \in BOOLEAN
    BY Zenon
  <2> QED
    BY <2>1, <2>2, <2>3 DEF TypeOK, Stage
<1>4. PagesInOrder
  BY <1>2, CallIds DEF PagesInOrder
<1>5. ListingCall /\ AttemptLeft
  BY <1>2, CallIds DEF ListingCall, AttemptLeft
<1>6. GivesUpLate /\ WarnOnce
  BY <1>2 DEF GivesUpLate, WarnOnce
<1> QED
  BY <1>3, <1>4, <1>5, <1>6 DEF IInv

(***************************************************************************)
(* The step of one call that is under way, everything but the warning left *)
(* as it is: what withErrorHandling does to a call.                        *)
(***************************************************************************)
LEMMA CallStep ==
  ASSUME IInv, NEW c \in CallId, NEW r \in CallState,
         call' = [call EXCEPT ![c] = r],
         UNCHANGED <<stage, page, more, options>>,
         permissionsWarnLogs' \subseteq {WarnLog}, WarnOnce',
         permissionsWarnLogs \subseteq permissionsWarnLogs',
         \/ call[c].phase \in {"queued", "sending", "waiting"}
         \/ (c \in Item /\ call[c].phase \in {"ok", "missing"}),
         c = Listing => r.phase \in {"sending", "waiting", "ok", "missing", "error"},
         c = Listing /\ r.phase = "missing" => WarnLog \in permissionsWarnLogs',
         r.phase = "waiting" => r.attempt < MaxAttempts,
         GivenUpLate(r)
  PROVE  IInv'
<1>1. /\ call'[c] = r
      /\ \A d \in CallId : d # c => call'[d] = call[d]
  BY DEF IInv, TypeOK
<1>2. TypeOK'
  <2>1. call' \in [CallId -> CallState]
    BY DEF IInv, TypeOK
  <2>2. published' \in Nat
    BY DEF WarnOnce
  <2> QED
    BY <2>1, <2>2 DEF IInv, TypeOK
<1>3. PagesInOrder'
  BY <1>1, CallIds DEF IInv, PagesInOrder
<1>4. ListingCall'
  <2>1. WarnLog \in permissionsWarnLogs <=> published = 1
    BY DEF IInv, TypeOK, WarnOnce
  <2>2. WarnLog \in permissionsWarnLogs' <=> published' = 1
    BY DEF WarnOnce
  <2> QED
    BY <1>1, <2>1, <2>2, CallIds DEF IInv, ListingCall
<1>5. AttemptLeft'
  BY <1>1 DEF IInv, AttemptLeft
<1>6. GivesUpLate'
  BY <1>1 DEF IInv, GivesUpLate
<1> QED
  BY <1>2, <1>3, <1>4, <1>5, <1>6 DEF IInv

\* What the calls' steps that publish nothing leave as it is.
LEMMA QuietStep ==
  ASSUME IInv, UNCHANGED <<permissionsWarnLogs, published>>
  PROVE  /\ permissionsWarnLogs' \subseteq {WarnLog}
         /\ WarnOnce'
         /\ permissionsWarnLogs \subseteq permissionsWarnLogs'
BY DEF IInv, TypeOK, WarnOnce

LEMMA CallsIInv ==
  ASSUME IInv, NEW c \in CallId
  PROVE  /\ Respond(c) => IInv'
         /\ TimeOut(c) => IInv'
         /\ Retry(c) => IInv'
<1> USE DEF Phase
<1>1. call[c] \in CallState
  BY DEF IInv, TypeOK
<1>2. ASSUME Respond(c) PROVE IInv'
  <2>1. Fresh("ok") \in CallState /\ Fresh("ok").phase = "ok" /\ GivenUpLate(Fresh("ok"))
    BY FreshType
  <2>2. /\ call[c].phase = "sending"
        /\ call' = [call EXCEPT ![c] = Fresh("ok")]
        /\ UNCHANGED <<stage, page, more, options>>
        /\ UNCHANGED <<permissionsWarnLogs, published>>
    BY <1>2 DEF Respond
  <2> QED
    BY <2>1, <2>2, QuietStep, CallStep
<1>3. ASSUME TimeOut(c) PROVE IInv'
  <2> DEFINE r == [call[c] EXCEPT !.phase = "error", !.error = AttemptTimeout]
  <2>1. r \in CallState /\ r.phase = "error" /\ GivenUpLate(r)
    BY <1>1 DEF CallState, GivenUpLate
  <2>2. call' = [call EXCEPT ![c] = r]
    BY <1>3, <1>1 DEF TimeOut, IInv, TypeOK, CallState
  <2>3. /\ call[c].phase = "sending"
        /\ UNCHANGED <<stage, page, more, options>>
        /\ UNCHANGED <<permissionsWarnLogs, published>>
    BY <1>3 DEF TimeOut, TimeOutDue
  <2> HIDE DEF r
  <2> QED
    BY <2>1, <2>2, <2>3, QuietStep, CallStep
<1>4. ASSUME Retry(c) PROVE IInv'
  <2> DEFINE r == [call[c] EXCEPT !.phase = "sending", !.attempt = @ + 1]
  <2>1. call[c].attempt < MaxAttempts
    BY <1>4 DEF Retry, IInv, AttemptLeft
  <2>2. r \in CallState /\ r.phase = "sending" /\ GivenUpLate(r)
    <3>1. call[c].attempt + 1 \in 1..MaxAttempts
      BY <1>1, <2>1, BoundsAssumption DEF CallState
    <3> QED
      BY <1>1, <3>1 DEF CallState, GivenUpLate
  <2>3. call' = [call EXCEPT ![c] = r]
    BY <1>4, <1>1 DEF Retry, IInv, TypeOK, CallState
  <2>4. /\ call[c].phase = "waiting"
        /\ UNCHANGED <<stage, page, more, options>>
        /\ UNCHANGED <<permissionsWarnLogs, published>>
    BY <1>4 DEF Retry
  <2> HIDE DEF r
  <2> QED
    BY <2>2, <2>3, <2>4, QuietStep, CallStep
<1> QED
  BY <1>2, <1>3, <1>4

(***************************************************************************)
(* A rejected attempt: the warning is out before an error is swallowed,    *)
(* because the options that swallow are the ones that publish.             *)
(***************************************************************************)
LEMMA RejectIInv ==
  ASSUME IInv, NEW c \in CallId, NEW e \in ApiError, Reject(c, e)
  PROVE  IInv'
<1> DEFINE r == AfterRejection(c, e)
<1>1. call[c] \in CallState /\ call[c].phase = "sending"
  BY DEF IInv, TypeOK, Reject
<1>2. r \in CallState
  BY <1>1 DEF AfterRejection, AttemptsRemain, CallState, Phase
<1>3. r.phase \in {"waiting", "missing", "error"}
  BY <1>1 DEF AfterRejection, AttemptsRemain, CallState
<1>4. r.phase = "waiting" => r.attempt < MaxAttempts
  BY <1>1 DEF AfterRejection, AttemptsRemain, CallState
<1>5. GivenUpLate(r)
  <2>1. CASE Retryable(e) /\ call[c].attempt < MaxAttempts
    BY <1>1, <2>1 DEF AfterRejection, AttemptsRemain, CallState, GivenUpLate
  <2>2. CASE Retryable(e) /\ ~(call[c].attempt < MaxAttempts)
    BY <1>1, <2>2, BoundsAssumption DEF AfterRejection, AttemptsRemain, CallState, GivenUpLate
  <2>3. CASE ~Retryable(e)
    BY <1>1, <2>3 DEF AfterRejection, AttemptsRemain, CallState, GivenUpLate
  <2> QED
    BY <2>1, <2>2, <2>3
<1>6. /\ permissionsWarnLogs' \subseteq {WarnLog}
      /\ WarnOnce'
      /\ permissionsWarnLogs \subseteq permissionsWarnLogs'
  BY DEF Reject, WarnMissingPermission, NotYetWarned, IInv, TypeOK, WarnOnce
<1>7. r.phase = "missing" => WarnLog \in permissionsWarnLogs'
  <2> SUFFICES ASSUME r.phase = "missing" PROVE WarnLog \in permissionsWarnLogs'
    OBVIOUS
  <2>1. IsAuthorizationError(e) /\ ~OptionsOf(c).throwMissing
    BY <1>1 DEF AfterRejection, AttemptsRemain, CallState
  <2>2. OptionsOf(c).publish
    BY <2>1 DEF OptionsOf, DefaultOptions, ThrowOptions, IInv, TypeOK
  <2> QED
    BY <2>1, <2>2 DEF Reject, WarnMissingPermission, NotYetWarned, IInv, TypeOK
<1>8. /\ call' = [call EXCEPT ![c] = r]
      /\ UNCHANGED <<stage, page, more, options>>
  BY DEF Reject
<1> HIDE DEF r
<1> QED
  BY <1>1, <1>2, <1>3, <1>4, <1>5, <1>6, <1>7, <1>8, CallStep

LEMMA ItemsIInv ==
  ASSUME IInv, NEW c \in Item
  PROVE  /\ StartItem(c) => IInv'
         /\ StoreItem(c) => IInv'
         /\ FailCallback(c) => IInv'
<1>1. c \in CallId /\ c # Listing /\ call[c] \in CallState
  BY CallIds DEF IInv, TypeOK
<1>2. ASSUME StartItem(c) PROVE IInv'
  <2> DEFINE r == [call[c] EXCEPT !.phase = "sending"]
  <2>1. r \in CallState /\ r.phase = "sending" /\ GivenUpLate(r)
    BY <1>1 DEF CallState, Phase, GivenUpLate
  <2>2. call' = [call EXCEPT ![c] = r]
    BY <1>2, <1>1 DEF StartItem, IInv, TypeOK, CallState
  <2>3. /\ call[c].phase = "queued"
        /\ UNCHANGED <<stage, page, more, options>>
        /\ UNCHANGED <<permissionsWarnLogs, published>>
    BY <1>2 DEF StartItem
  <2> HIDE DEF r
  <2> QED
    BY <1>1, <2>1, <2>2, <2>3, QuietStep, CallStep
<1>3. ASSUME StoreItem(c) PROVE IInv'
  <2> DEFINE r == Fresh("stored")
  <2>1. r \in CallState /\ r.phase = "stored" /\ GivenUpLate(r)
    BY FreshType DEF Phase
  <2>2. /\ call[c].phase \in {"ok", "missing"}
        /\ call' = [call EXCEPT ![c] = r]
        /\ UNCHANGED <<stage, page, more, options>>
        /\ UNCHANGED <<permissionsWarnLogs, published>>
    BY <1>3 DEF StoreItem
  <2> HIDE DEF r
  <2> QED
    BY <1>1, <2>1, <2>2, QuietStep, CallStep
<1>4. ASSUME FailCallback(c) PROVE IInv'
  <2>1. /\ stage' = "failed" /\ stage = "callback" /\ page' = page
        /\ more' = more /\ options' = options /\ call' = call
        /\ permissionsWarnLogs' = permissionsWarnLogs /\ published' = published
    BY <1>4 DEF FailCallback
  <2>2. TypeOK'
    BY <2>1 DEF IInv, TypeOK, Stage
  <2>3. PagesInOrder' /\ ListingCall' /\ AttemptLeft' /\ GivesUpLate' /\ WarnOnce'
    BY <2>1 DEF IInv, PagesInOrder, ListingCall, AttemptLeft, GivesUpLate, WarnOnce
  <2> QED
    BY <2>2, <2>3 DEF IInv
<1> QED
  BY <1>2, <1>3, <1>4

(***************************************************************************)
(* The steps of the listing itself.  Those that start its next call all    *)
(* leave it fresh and leave the items alone.                               *)
(***************************************************************************)
LEMMA NextCall ==
  ASSUME IInv, call' = [call EXCEPT ![Listing] = Fresh("sending")]
  PROVE  /\ call' \in [CallId -> CallState]
         /\ call'[Listing].phase = "sending"
         /\ \A c \in Item : call'[c] = call[c]
         /\ AttemptLeft' /\ GivesUpLate'
<1>1. /\ Fresh("sending") \in CallState
      /\ Fresh("sending").phase = "sending"
      /\ GivenUpLate(Fresh("sending"))
  BY FreshType DEF Phase
<1>2. call \in [CallId -> CallState]
  BY DEF IInv, TypeOK
<1> QED
  BY <1>1, <1>2, CallIds DEF IInv, AttemptLeft, GivesUpLate

LEMMA AuthenticationIInv ==
  ASSUME IInv, RequestAccessToken \/ Authenticated
  PROVE  IInv'
<1>1. /\ stage \in {"getClient", "getAccessToken"}
      /\ \/ stage' = "getAccessToken" /\ page' = page
         \/ stage' = "list" /\ page' = 1
      /\ call' = [call EXCEPT ![Listing] = Fresh("sending")]
      /\ more' = more /\ options' = options
      /\ permissionsWarnLogs' = permissionsWarnLogs /\ published' = published
  BY DEF RequestAccessToken, Authenticated
<1>2. /\ call' \in [CallId -> CallState]
      /\ call'[Listing].phase = "sending"
      /\ \A c \in Item : call'[c] = call[c]
      /\ AttemptLeft' /\ GivesUpLate'
  BY <1>1, NextCall
<1>3. \A c \in Item : call[c].phase = "unlisted"
  BY <1>1, CallIds DEF IInv, PagesInOrder
<1>4. TypeOK'
  BY <1>1, <1>2, BoundsAssumption DEF IInv, TypeOK, Stage
<1>5. PagesInOrder'
  BY <1>1, <1>2, <1>3 DEF IInv, PagesInOrder
<1>6. ListingCall' /\ WarnOnce'
  BY <1>1, <1>2 DEF IInv, ListingCall, WarnOnce
<1> QED
  BY <1>2, <1>4, <1>5, <1>6 DEF IInv

LEMMA ReceivePageIInv ==
  ASSUME IInv, NEW n \in 0..PageSize, NEW token \in BOOLEAN, ReceivePage(n, token)
  PROVE  IInv'
<1> DEFINE listed == {page} \X (1..n)
<1>1. /\ stage = "list" /\ stage' = "callback" /\ page' = page
      /\ call[Listing].phase = "ok"
      /\ more' = token /\ (token => page < MaxPages) /\ options' = options
      /\ permissionsWarnLogs' = permissionsWarnLogs /\ published' = published
  BY DEF ReceivePage
<1>2. call' = [c \in CallId |-> IF c \in listed THEN Fresh("queued") ELSE call[c]]
  BY DEF ReceivePage
<1>3. \A c \in listed : c[1] = page /\ c # Listing
  BY <1>1 DEF Listing, IInv, PagesInOrder
<1>4. /\ Fresh("queued") \in CallState
      /\ Fresh("queued").phase = "queued"
      /\ GivenUpLate(Fresh("queued"))
  BY FreshType DEF Phase
<1>5. /\ call' \in [CallId -> CallState]
      /\ call'[Listing] = call[Listing]
      /\ \A c \in CallId : call'[c] = IF c \in listed THEN Fresh("queued") ELSE call[c]
  BY <1>2, <1>3, <1>4, CallIds DEF IInv, TypeOK
<1> HIDE DEF listed
<1>6. TypeOK'
  <2>1. more' \in BOOLEAN
    BY <1>1, Zenon
  <2> QED
    BY <1>1, <1>5, <2>1 DEF IInv, TypeOK, Stage
<1>7. PagesInOrder'
  <2>1. page \in Nat
    BY DEF IInv, TypeOK
  <2>2. page # 0
    BY <1>1 DEF IInv, PagesInOrder
  <2>3. \A c \in Item :
          /\ c[1] > page' => call'[c].phase = "unlisted"
          /\ c[1] < page' => call'[c].phase \in {"unlisted", "stored"}
    BY <1>1, <1>3, <1>5, <2>1, CallIds DEF IInv, PagesInOrder
  <2> QED
    BY <1>1, <2>2, <2>3 DEF PagesInOrder
<1>8. ListingCall' /\ WarnOnce'
  BY <1>1, <1>5 DEF IInv, ListingCall, WarnOnce
<1>9. AttemptLeft' /\ GivesUpLate'
  BY <1>4, <1>5 DEF IInv, AttemptLeft, GivesUpLate
<1> QED
  BY <1>6, <1>7, <1>8, <1>9 DEF IInv

LEMMA SettledListingIInv ==
  ASSUME IInv, StopListing \/ FailListing
  PROVE  IInv'
<1>1. /\ \/ stage' = "failed"
         \/ stage = "list" /\ stage' = "done" /\ call[Listing].phase = "missing"
      /\ page' = page /\ more' = more /\ options' = options /\ call' = call
      /\ permissionsWarnLogs' = permissionsWarnLogs /\ published' = published
  BY DEF StopListing, FailListing
<1>2. TypeOK'
  BY <1>1 DEF IInv, TypeOK, Stage
<1>3. PagesInOrder' /\ ListingCall' /\ AttemptLeft' /\ GivesUpLate' /\ WarnOnce'
  BY <1>1 DEF IInv, PagesInOrder, ListingCall, AttemptLeft, GivesUpLate, WarnOnce
<1> QED
  BY <1>2, <1>3 DEF IInv

\* Behind the barrier, no item of any page is still on its way.
LEMMA BarrierReached ==
  ASSUME IInv, NextPage
  PROVE  \A c \in Item : call[c].phase \in {"unlisted", "stored"}
<1> SUFFICES ASSUME NEW c \in Item PROVE call[c].phase \in {"unlisted", "stored"}
  OBVIOUS
<1>1. page \in Nat /\ c[1] \in Nat /\ c \in {c[1]} \X (1..PageSize)
  BY BoundsAssumption DEF IInv, TypeOK, Item
<1>2. CASE c[1] = page
  BY <1>1, <1>2 DEF NextPage, PageStored, PageItems
<1>3. CASE c[1] # page
  BY <1>1, <1>3 DEF IInv, PagesInOrder
<1> QED
  BY <1>2, <1>3

LEMMA NextPageIInv ==
  ASSUME IInv, NextPage
  PROVE  IInv'
<1>1. /\ stage = "callback" /\ more' = more /\ options' = options
      /\ permissionsWarnLogs' = permissionsWarnLogs /\ published' = published
  BY DEF NextPage
<1>2. \A c \in Item : call[c].phase \in {"unlisted", "stored"}
  BY BarrierReached
<1>3. CASE more
  <2>1. /\ stage' = "list" /\ page' = page + 1
        /\ call' = [call EXCEPT ![Listing] = Fresh("sending")]
    BY <1>3 DEF NextPage
  <2>2. /\ call' \in [CallId -> CallState]
        /\ call'[Listing].phase = "sending"
        /\ \A c \in Item : call'[c] = call[c]
        /\ AttemptLeft' /\ GivesUpLate'
    BY <2>1, NextCall
  <2>3. page \in Nat /\ page + 1 \in 1..MaxPages
    BY <1>1, <1>3, BoundsAssumption DEF IInv, TypeOK, PagesInOrder
  <2>4. TypeOK'
    BY <1>1, <2>1, <2>2, <2>3 DEF IInv, TypeOK, Stage
  <2>5. PagesInOrder'
    <3>1. \A c \in Item : c[1] > page + 1 => call'[c].phase = "unlisted"
      BY <2>2, <2>3, CallIds DEF IInv, PagesInOrder
    <3> QED
      BY <1>2, <2>1, <2>2, <2>3, <3>1 DEF PagesInOrder
  <2>6. ListingCall' /\ WarnOnce'
    BY <1>1, <2>1, <2>2 DEF IInv, ListingCall, WarnOnce
  <2> QED
    BY <2>2, <2>4, <2>5, <2>6 DEF IInv
<1>4. CASE ~more
  <2>1. stage' = "done" /\ page' = page /\ call' = call
    BY <1>4 DEF NextPage
  <2>2. TypeOK'
    BY <1>1, <2>1 DEF IInv, TypeOK, Stage
  <2>3. PagesInOrder'
    BY <1>2, <2>1 DEF IInv, PagesInOrder
  <2>4. ListingCall' /\ AttemptLeft' /\ GivesUpLate' /\ WarnOnce'
    BY <1>1, <1>4, <2>1
    DEF IInv, ListingCall, AttemptLeft, GivesUpLate, WarnOnce
  <2> QED
    BY <2>2, <2>3, <2>4 DEF IInv
<1> QED
  BY <1>3, <1>4

LEMMA NextIInv == IInv /\ [Next]_vars => IInv'
<1> SUFFICES ASSUME IInv, [Next]_vars PROVE IInv'
  OBVIOUS
<1>1. ASSUME Calls PROVE IInv'
  <2> PICK c \in CallId : \/ Respond(c) \/ TimeOut(c) \/ Retry(c)
                          \/ \E e \in ApiError : Reject(c, e)
    BY <1>1 DEF Calls
  <2> QED
    BY CallsIInv, RejectIInv
<1>2. ASSUME Listings PROVE IInv'
  <2>1. \/ RequestAccessToken \/ Authenticated \/ StopListing \/ FailListing \/ NextPage
        \/ \E n \in 0..PageSize, token \in BOOLEAN : ReceivePage(n, token)
    BY <1>2 DEF Listings
  <2> QED
    BY <2>1, AuthenticationIInv, ReceivePageIInv, SettledListingIInv, NextPageIInv
<1>3. ASSUME Items PROVE IInv'
  BY <1>3, ItemsIInv DEF Items
<1>4. ASSUME UNCHANGED vars PROVE IInv'
  <2>1. /\ stage' = stage /\ page' = page /\ more' = more /\ options' = options
        /\ call' = call /\ permissionsWarnLogs' = permissionsWarnLogs
        /\ published' = published
    BY <1>4 DEF vars
  <2>2. TypeOK'
    BY <2>1 DEF IInv, TypeOK
  <2>3. PagesInOrder' /\ ListingCall' /\ AttemptLeft' /\ GivesUpLate' /\ WarnOnce'
    BY <2>1 DEF IInv, PagesInOrder, ListingCall, AttemptLeft, GivesUpLate, WarnOnce
  <2> QED
    BY <2>2, <2>3 DEF IInv
<1> QED
  BY <1>1, <1>2, <1>3, <1>4 DEF Next, Terminated

THEOREM Invariance == Spec => []IInv
<1> QED
  BY InitIInv, NextIInv, PTL DEF Spec

-----------------------------------------------------------------------------
(* The properties                                                          *)

\* Every variable keeps its type: no call gets more than MaxAttempts
\* attempts and no listing goes past its last page.
THEOREM TypeCorrect == Spec => []TypeOK
<1>1. IInv => TypeOK
  BY DEF IInv
<1> QED
  BY <1>1, Invariance, PTL

\* The client publishes its missing-permission warning at most once.
THEOREM WarnedOnce == Spec => []WarnOnce
<1>1. IInv => WarnOnce
  BY DEF IInv
<1> QED
  BY <1>1, Invariance, PTL

\* withErrorHandling spends every attempt on a retryable error, and swallows
\* nothing but missing permissions.
THEOREM GivenUpOnlyLate == Spec => []GivesUpLate
<1>1. IInv => GivesUpLate
  BY DEF IInv
<1> QED
  BY <1>1, Invariance, PTL

\* iterateApi requests no page before the items of the earlier ones are in.
THEOREM PagesBehindBarrier == Spec => []PageBarrier
<1>1. IInv => PageBarrier
  BY DEF IInv, PagesInOrder, PageBarrier
<1> QED
  BY <1>1, Invariance, PTL

\* A listing that ends well is complete, or has published that it is not.
THEOREM LossIsPublished == Spec => []NoSilentLoss
<1>1. IInv => NoSilentLoss
  BY DEF IInv, PagesInOrder, ListingCall, NoSilentLoss
<1> QED
  BY <1>1, Invariance, PTL

\* What a step may do to the phase of an item: everything it reads of it.
LEMMA ItemStep ==
  ASSUME IInv, Next, NEW d \in Item
  PROVE  \/ call'[d] = call[d]
         \/ call[d].phase \in {"sending", "waiting", "ok", "missing"}
         \/ stage = "list" /\ call'[d].phase = "queued"
         \/ StartItem(d)
<1> USE DEF IInv, TypeOK
<1>1. d \in CallId /\ d # Listing
  BY CallIds
<1>2. ASSUME Calls
      PROVE  call'[d] = call[d] \/ call[d].phase \in {"sending", "waiting"}
  BY <1>1, <1>2 DEF Calls, Respond, Reject, TimeOut, TimeOutDue, Retry
<1>3. ASSUME Listings
      PROVE  \/ call'[d] = call[d]
             \/ stage = "list" /\ call'[d].phase = "queued"
  <2>1. ASSUME RequestAccessToken \/ Authenticated PROVE call'[d] = call[d]
    BY <1>1, <2>1 DEF RequestAccessToken, Authenticated
  <2>2. ASSUME StopListing \/ FailListing \/ NextPage PROVE call'[d] = call[d]
    BY <1>1, <2>2 DEF StopListing, FailListing, NextPage
  <2>3. ASSUME NEW n \in 0..PageSize, NEW token \in BOOLEAN, ReceivePage(n, token)
        PROVE  \/ call'[d] = call[d]
               \/ stage = "list" /\ call'[d].phase = "queued"
    <3>1. Fresh("queued").phase = "queued"
      BY DEF Fresh
    <3> QED
      BY <1>1, <2>3, <3>1 DEF ReceivePage
  <2> QED
    BY <1>3, <2>1, <2>2, <2>3 DEF Listings
<1>4. ASSUME NEW c \in Item, StartItem(c) \/ StoreItem(c) \/ FailCallback(c)
      PROVE  \/ call'[d] = call[d]
             \/ call[d].phase \in {"ok", "missing"}
             \/ StartItem(d)
  BY <1>1, <1>4, CallIds DEF StartItem, StoreItem, FailCallback
<1>5. Terminated => call'[d] = call[d]
  BY DEF Terminated, vars
<1> QED
  BY <1>2, <1>3, <1>4, <1>5 DEF Next, Items

LEMMA ItemsFinite == IsFiniteSet(Item)
<1>1. IsFiniteSet(1..MaxPages) /\ IsFiniteSet(1..PageSize)
  BY BoundsAssumption, FS_Interval
<1> QED
  BY <1>1, FS_Product DEF Item

LEMMA OneMore ==
  ASSUME NEW S, IsFiniteSet(S), NEW x, NEW T \in SUBSET (S \cup {x})
  PROVE  /\ Cardinality(S) \in Nat
         /\ Cardinality(T) \in Nat
         /\ Cardinality(T) <= Cardinality(S) + 1
<1>1. Cardinality(S) \in Nat
  BY FS_CardinalityType
<1>2. /\ IsFiniteSet(S \cup {x})
      /\ Cardinality(S \cup {x}) = IF x \in S THEN Cardinality(S) ELSE Cardinality(S) + 1
  BY FS_AddElement
<1>3. IsFiniteSet(T) /\ Cardinality(T) <= Cardinality(S \cup {x})
  BY <1>2, FS_Subset
<1>4. Cardinality(T) \in Nat
  BY <1>3, FS_CardinalityType
<1> QED
  BY <1>1, <1>2, <1>3, <1>4

\* Items join the calls in flight one at a time, and below the limit.
LEMMA InFlightStep ==
  ASSUME IInv, [Next]_vars, InFlightBound
  PROVE  InFlightBound'
<1>1. IsFiniteSet(InFlight) /\ Cardinality(InFlight) \in Nat
  BY ItemsFinite, FS_Subset, FS_CardinalityType DEF InFlight
<1>2. ASSUME InFlight' \subseteq InFlight PROVE InFlightBound'
  <2>1. Cardinality(InFlight') \in Nat /\ Cardinality(InFlight') <= Cardinality(InFlight)
    BY <1>1, <1>2, FS_Subset, FS_CardinalityType
  <2> QED
    BY <1>1, <2>1, BoundsAssumption DEF InFlightBound
<1>3. ASSUME NEW c \in Item, StartItem(c) PROVE InFlightBound'
  <2>1. InFlight' \subseteq InFlight \cup {c}
    BY <1>3 DEF StartItem, InFlight, IInv, TypeOK
  <2>2. Cardinality(InFlight') \in Nat /\ Cardinality(InFlight') <= Cardinality(InFlight) + 1
    BY <1>1, <2>1, OneMore
  <2>3. Cardinality(InFlight) < Concurrency
    BY <1>3 DEF StartItem, HasRoom
  <2> QED
    BY <1>1, <2>2, <2>3, BoundsAssumption DEF InFlightBound
<1>4. ASSUME Next, \A c \in Item : ~StartItem(c) PROVE InFlight' \subseteq InFlight
  BY <1>4, ItemStep DEF InFlight
<1>5. UNCHANGED vars => InFlight' \subseteq InFlight
  BY DEF vars, InFlight
<1> QED
  BY <1>2, <1>3, <1>4, <1>5

\* executeConcurrently stays within its limit, whatever the calls' outcomes.
THEOREM ConcurrencyLimited == Spec => []InFlightBound
<1>1. Init => InFlightBound
  <2> SUFFICES ASSUME Init PROVE InFlightBound
    OBVIOUS
  <2>1. \A c \in Item : call[c] = Fresh("unlisted")
    BY CallIds DEF Init
  <2>2. InFlight = {}
    BY <2>1 DEF InFlight, Fresh
  <2> QED
    BY <2>2, FS_EmptySet, BoundsAssumption DEF InFlightBound
<1>2. IInv /\ [Next]_vars /\ InFlightBound => InFlightBound'
  BY InFlightStep
<1> QED
  BY <1>1, <1>2, Invariance, PTL DEF Spec

=============================================================================
