----------------------------- MODULE ApiErrors -----------------------------
(***************************************************************************)
(* How the Google Cloud client (src/google-cloud/client.ts) classifies the *)
(* errors its API calls reject with: which ones it retries, and which ones *)
(* it takes for a missing permission.                                      *)
(*                                                                         *)
(* An error keeps the six facts the code branches on.  HTTP statuses are   *)
(* numbers, and 0 stands for `undefined`.                                  *)
(***************************************************************************)
EXTENDS Naturals

CONSTANT ApiError     \* the errors an API call may reject with

Undefined == 0

ApiErrorType ==
  [response  : Nat,       \* err.response?.status
   status    : Nat,       \* err.status
   quota     : BOOLEAN,   \* err.message matches /Quota exceeded/i
   billing   : BOOLEAN,   \* err.message matches /billing/i
   handled   : BOOLEAN,   \* err instanceof IntegrationError
   retryable : BOOLEAN]   \* err.retryable, read only when handled

ASSUME ApiErrorAssumption == ApiError \subseteq ApiErrorType

-----------------------------------------------------------------------------

IsQuotaLimitError(e) == e.quota

IsBillingError(e) == e.status = 400 /\ e.billing

\* The status interceptAuthorizationError looks at.
StatusOf(e) == IF e.response # Undefined THEN e.response ELSE e.status

(***************************************************************************)
(* interceptAuthorizationError: a 403 or a 404 that is not a quota error   *)
(* counts as a missing permission.                                         *)
(***************************************************************************)
IsAuthorizationError(e) ==
  /\ StatusOf(e) \in {403, 404}
  /\ ~IsQuotaLimitError(e)

(***************************************************************************)
(* handleApiClientError, reduced to the flag the retry loop reads: whether *)
(* the JupiterOne error it returns is marked retryable.  An error that was *)
(* already converted is forwarded as it is.                                *)
(***************************************************************************)
Retryable(e) ==
  \/ e.handled /\ e.retryable
  \/ ~e.handled /\ e.response = 403 /\ IsQuotaLimitError(e)
  \/ /\ ~e.handled
     /\ e.response # 403
     /\ ~IsBillingError(e)
     /\ e.response = 429 \/ e.response >= 500
=============================================================================
