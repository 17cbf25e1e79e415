-------------------------------- MODULE SignIn --------------------------------
(***************************************************************************)
(* The transport's verdict on a request (src/src/api/http.ts) and the      *)
(* sign-in exchange (src/src/api/auth.ts): a GET of the login page, a POST *)
(* of its form, and what the two replies amount to.                        *)
(*                                                                         *)
(* A reply is a record; one that never came carries the transport's error. *)
(* The login form's fields are abstracted to whether the page has them     *)
(* all, and a Set-Cookie header to <<name, keeps a value>>.                *)
(***************************************************************************)
EXTENDS Errors, SequencesExt

CSRF_COOKIE_NAME == "afg"
MFA_COOKIE_NAME == "twoFactorAuthenticationId"

\* A request that settled without a response: a deadline that passed is named before
\* a cancellation, and whatever is left is the network.
HttpError(isTimedOut, isCancelled) ==
  IF isTimedOut THEN "TIMEOUT_ERROR"
  ELSE IF isCancelled THEN "OPERATION_ABORTED" ELSE "NETWORK_ERROR"

Failed(error) == [error |-> error, status |-> 0, marker |-> FALSE,
                  form |-> FALSE, cookies |-> <<>>]
Page(status, marker, form) == [Failed("none") EXCEPT !.status = status,
                                 !.marker = marker, !.form = form]
Posted(status, cookies) == [Failed("none") EXCEPT !.status = status, !.cookies = cookies]

\* External: what Alarm.com and the network may answer.
NoReply == {Failed(HttpError(t, c)) : t, c \in BOOLEAN}
Statuses == {200, 302, 401, 403, 409, 429, 503}
Pages == NoReply \cup {Page(s, m, f) : s \in Statuses, m, f \in BOOLEAN}
Jars == {<<>>, <<<<MFA_COOKIE_NAME, TRUE>>>>, <<<<CSRF_COOKIE_NAME, TRUE>>, <<MFA_COOKIE_NAME, TRUE>>>>,
         <<<<CSRF_COOKIE_NAME, TRUE>>, <<CSRF_COOKIE_NAME, FALSE>>>>}
Posts == NoReply \cup {Posted(s, j) : s \in Statuses, j \in Jars}
-----------------------------------------------------------------------------
IsOk(status) == status \in 200..299

\* CookieJar.absorb: a cookie re-issued empty is deleted; its names are left.
Absorb(cookies) ==
  FoldLeft(LAMBDA jar, c : IF c[2] THEN jar \cup {c[1]} ELSE jar \ {c[1]}, {}, cookies)

\* assertLoginSucceeded: the redirect is the success, 200 the form rendered again.
LoginVerdict(status) ==
  CASE status = 409 -> "TWO_FACTOR_REQUIRED"
    [] status = 200 -> "AUTH_ERROR"
    [] status \in 300..399 -> "none"
    [] OTHER -> CreateApiError(status, FALSE)

\* Mistake: the page scraped whatever its status, as it was before the fix.
AuthenticateUnchecked(page, post) ==
  CASE page.error # "none" -> page.error
    [] page.error = "none" /\ ~page.form -> "LOGIN_FORM_ERROR"
    [] OTHER ->
         IF post.error # "none" THEN post.error
         ELSE IF LoginVerdict(post.status) # "none" THEN LoginVerdict(post.status)
         ELSE IF CSRF_COOKIE_NAME \in Absorb(post.cookies) THEN "none" ELSE "AUTH_ERROR"

\* authenticate: the error it ends with, or "none" for a session.
Authenticate(page, post) ==
  CASE page.error # "none" -> page.error
    [] page.error = "none" /\ ~IsOk(page.status) -> CreateApiError(page.status, page.marker)
    [] page.error = "none" /\ IsOk(page.status) /\ ~page.form -> "LOGIN_FORM_ERROR"
    [] OTHER ->
         IF post.error # "none" THEN post.error
         ELSE IF LoginVerdict(post.status) # "none" THEN LoginVerdict(post.status)
         ELSE IF CSRF_COOKIE_NAME \in Absorb(post.cookies) THEN "none" ELSE "AUTH_ERROR"

\* The ways a sign-in can end without a session.
SignInErrors == {Authenticate(p, q) : p \in Pages, q \in Posts} \ {"none"}

\* keepAlive: any answer but a 200 counts as a session that is gone.
KeepsAlive(status) == status = 200
=============================================================================
