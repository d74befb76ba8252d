---------------------------- MODULE MCApiClient ----------------------------
(***************************************************************************)
(* Two pages of up to three items, two at a time, two attempts per call,   *)
(* against one error of every kind the client tells apart.                 *)
(***************************************************************************)
EXTENDS ApiClient

MCError(response, status, quota, billing) ==
  [response |-> response, status |-> status, quota |-> quota,
   billing |-> billing, handled |-> FALSE, retryable |-> FALSE]

MCApiError ==
  { MCError(403, 403, FALSE, FALSE),    \* permission denied
    MCError(403, 403, TRUE, FALSE),     \* rate limit reported as 403
    MCError(404, 404, FALSE, FALSE),    \* no access to the resource
    MCError(400, 400, FALSE, TRUE),     \* billing disabled
    MCError(503, 503, FALSE, FALSE),    \* unavailable
    MCError(0, 403, FALSE, FALSE) }     \* no response on the error
=============================================================================
