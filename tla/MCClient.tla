------------------------------- MODULE MCClient -------------------------------
(***************************************************************************)
(* An instance of Client for TLC.  A tick stands for a second: the gap     *)
(* between requests is a tick and the first back-off two.  The window, the *)
(* ceiling, the longest wait and the caps are cut to a few ticks so that a *)
(* full window, a refusal and a hint beyond the cap happen.                *)
(***************************************************************************)
EXTENDS Client

CONSTANTS arm, poll

TheCalls == {arm, poll}
TheCommands == {arm}
TheBatches == [c \in TheCalls |-> IF c = poll THEN 2 ELSE 1]

\* None, one within the cap, one beyond it, and a date already past.
TheHeaders ==
  {[kind |-> "absent", value |-> 0], [kind |-> "seconds", value |-> 3],
   [kind |-> "seconds", value |-> 4], [kind |-> "date", value |-> -1]}

\* One error of each kind the client tells apart.
TheOutcomes ==
  { "SESSION_EXPIRED", "API_PARSE_ERROR", "RATE_LIMIT_ERROR", "LOGIN_THROTTLED",
    "API_RESPONSE_5XX", "FORBIDDEN_ERROR" }
=============================================================================
