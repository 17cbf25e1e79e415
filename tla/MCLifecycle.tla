------------------------------ MODULE MCLifecycle ------------------------------
EXTENDS Lifecycle

Given == [username |-> "given", password |-> "given", twoFactorAuthenticationId |-> "good",
          pollIntervalSeconds |-> Absent, authIntervalMinutes |-> Absent,
          diagnosticsInterval |-> Absent, useEventStream |-> "other"]

\* Values at, below, above and between the bounds of each number, and of no number.
Numbers(floor, ceiling) ==
  {Absent, NotANumber} \cup
  {InHalves(h) : h \in {-1, 0, 1, 2 * floor - 2, 2 * floor - 1, 2 * floor, 2 * floor + 1,
                        2 * ceiling, 2 * ceiling + 1, 2 * ceiling + 2}}

MCRawConfigs ==
  {[Given EXCEPT !.pollIntervalSeconds = v] : v \in Numbers(60, 86400)}
    \cup {[Given EXCEPT !.authIntervalMinutes = v] : v \in Numbers(10, 1440)}
    \cup {[Given EXCEPT !.diagnosticsInterval = v, !.useEventStream = u] :
            v \in Numbers(30, 86400), u \in {"true", "false"}}
    \cup {[Given EXCEPT !.username = v] : v \in Credentials}
    \cup {[Given EXCEPT !.twoFactorAuthenticationId = v] : v \in MfaCookies}

MCLaunched ==
  {[Given EXCEPT !.username = "blank"]}
    \cup {[Given EXCEPT !.diagnosticsInterval = v, !.useEventStream = u] :
            v \in {InHalves(0), InHalves(60)}, u \in {"true", "false"}}
=============================================================================
