-------------------------------- MODULE Errors --------------------------------
(***************************************************************************)
(* The error taxonomy (src/src/errors/index.ts) and the questions the      *)
(* plugin asks of an error: does it clear on its own, was the session      *)
(* lost, is it worth another attempt, must startup give up, how loud is    *)
(* it, and what does the alarm signal make of it.                          *)
(*                                                                         *)
(* An error is its code; API_RESPONSE_ERROR is split by the status it      *)
(* carries, and anything that is not an AlarmComError is "DEFECT".         *)
(***************************************************************************)
EXTENDS Integers

ErrorCodes ==
  { "CONFIG_ERROR", "AUTH_ERROR", "TWO_FACTOR_REQUIRED", "LOGIN_FORM_ERROR",
    "LOGIN_THROTTLED", "SESSION_EXPIRED", "FORBIDDEN_ERROR", "READ_ONLY_PARTITION",
    "SYSTEM_UNAVAILABLE", "NETWORK_ERROR", "TIMEOUT_ERROR", "RATE_LIMIT_ERROR",
    "REQUEST_PACING", "API_RESPONSE_4XX", "API_RESPONSE_5XX", "API_PARSE_ERROR",
    "CIRCUIT_OPEN", "OPERATION_ABORTED" }

\* isRetryable: the error may clear on its own.
Retryable(e) ==
  e \in { "LOGIN_THROTTLED", "SESSION_EXPIRED", "SYSTEM_UNAVAILABLE", "NETWORK_ERROR",
          "TIMEOUT_ERROR", "RATE_LIMIT_ERROR", "API_RESPONSE_5XX", "API_PARSE_ERROR" }

\* instanceof AuthenticationError, with its subclass.
AuthenticationErrors == {"AUTH_ERROR", "TWO_FACTOR_REQUIRED"}

\* The error of a response that is not ok; marker: the body asks for two factors.
CreateApiError(status, marker) ==
  CASE status = 401 -> "SESSION_EXPIRED"
    [] status = 409 /\ marker -> "TWO_FACTOR_REQUIRED"
    [] status = 403 -> "FORBIDDEN_ERROR"
    [] status = 429 -> "RATE_LIMIT_ERROR"
    [] OTHER -> IF status >= 500 THEN "API_RESPONSE_5XX" ELSE "API_RESPONSE_4XX"

\* parseRetryAfterMs: the wait a header asks for, {} for none.  A date in the past,
\* or one read on a skewed clock, asks for 0.
RetryAfter(header) ==
  CASE header.kind = "seconds" -> {header.value}
    [] header.kind = "date" -> {IF header.value > 0 THEN header.value ELSE 0}
    [] OTHER -> {}
-----------------------------------------------------------------------------
(* What the client makes of an error.                                      *)

IsLapsedSession(e) == e \in {"SESSION_EXPIRED", "API_PARSE_ERROR"}

IsRejectedOutright(e) == e = "SESSION_EXPIRED"

IsWorthRetrying(e) ==
  /\ ~IsLapsedSession(e)
  /\ e \notin {"CIRCUIT_OPEN", "LOGIN_THROTTLED"}
  /\ Retryable(e)
-----------------------------------------------------------------------------
(* What startup and the log make of it.                                    *)

\* Startup cannot get past these without the user.
IsPermanent(e) == e \in AuthenticationErrors \cup {"LOGIN_FORM_ERROR", "CONFIG_ERROR"}

\* initialDiscoveryRetryDelayMs: anything else that is ours is tried again.
RetriesDiscovery(e) == e \in ErrorCodes /\ ~IsPermanent(e)

FailureLogLevel(e) ==
  IF \/ e \in {"OPERATION_ABORTED", "CIRCUIT_OPEN", "FORBIDDEN_ERROR", "REQUEST_PACING"}
     \/ Retryable(e)
  THEN "debug" ELSE "error"
=============================================================================
