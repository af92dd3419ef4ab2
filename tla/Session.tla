------------------------------- MODULE Session -------------------------------
(***************************************************************************)
(* Signing in and out, and what happens to requests when the access token  *)
(* has expired.                                                            *)
(*                                                                         *)
(* The browser holds the cookies of one session row: an access token that  *)
(* expires after an hour, and a refresh token that buys a new row.  Any    *)
(* request may be refused with 401; the handler of the query client then   *)
(* refreshes once for all requests refused meanwhile and sends them again. *)
(* Cookies change when an answer arrives, not when the server writes it,   *)
(* so a refresh and a sign-out under way at the same time may cross.       *)
(*                                                                         *)
(* Hashes, the contents of cookies and the user's profile are left out.    *)
(***************************************************************************)
EXTENDS Naturals, FiniteSets

CONSTANTS
  DataRequest,  \* the requests of the pages other than that for the session
  MaxSessions   \* bound: session rows created

Request == DataRequest \cup {"session", "sign_in"}

ASSUME SessionAssumption ==
  /\ IsFiniteSet(DataRequest) /\ DataRequest \cap {"session", "sign_in"} = {}
  /\ MaxSessions \in Nat

VARIABLES
  active,    \* server: the rows that are active and whose refresh token has not expired
  issued,    \* server: how many rows have been created
  cookie,    \* browser: the row its cookies belong to, 0 without cookies
  access,    \* browser: whether the access token's cookie is still there
  screen,    \* "app" or "signin"
  session,   \* the session query's data: "none", or "yes" once it has succeeded
  requests,  \* each request: "idle", "sent", "accepted", "refused", or "queued" for a retry
  refresh,   \* isRefreshing: its stage, and the row its token or its answer belongs to
  signout,   \* deleteSession: its stage, and the row its access token belongs to
  out,       \* history: signed out, and not in again since
  crossed    \* history: a refresh was under way when the user was signed out

sessionVars == <<active, issued, cookie, access, screen, session, requests, refresh, signout,
                 out, crossed>>
serverSide == <<active, issued>>
browser == <<cookie, access>>

Quiet == [stage |-> "no", row |-> 0]

SessionInit ==
  /\ issued = 1 /\ active \in {{}, {1}}
  /\ cookie \in {0, 1} /\ access \in BOOLEAN /\ (cookie = 0 => ~access)
  /\ screen = "app" /\ session = "none"
  /\ requests = [r \in Request |-> IF r = "session" THEN "sent" ELSE "idle"]
  /\ refresh = Quiet /\ signout = Quiet
  /\ out = FALSE /\ crossed = FALSE

\* ProtectedRoute: the page is shown once the session query has succeeded.
PageShown == screen = "app" /\ session = "yes"

Change(r, state) == requests' = [requests EXCEPT ![r] = state]

-----------------------------------------------------------------------------
(* Time.                                                                   *)

AccessExpires ==
  /\ access
  /\ access' = FALSE
  /\ UNCHANGED <<serverSide, cookie, screen, session, requests, refresh, signout, out, crossed>>

RefreshTokenExpires ==
  /\ cookie \in active
  /\ active' = active \ {cookie}
  /\ UNCHANGED <<issued, browser, screen, session, requests, refresh, signout, out, crossed>>

-----------------------------------------------------------------------------
(* Requests.                                                               *)

\* A page on show asks or saves; the session is asked for again after five minutes.
SendRequest(r) ==
  /\ PageShown /\ r # "sign_in" /\ requests[r] = "idle"
  /\ Change(r, "sent")
  /\ UNCHANGED <<serverSide, browser, screen, session, refresh, signout, out, crossed>>

\* The sign-in form.
SubmitSignIn ==
  /\ screen = "signin" /\ requests["sign_in"] = "idle"
  /\ Change("sign_in", "sent")
  /\ UNCHANGED <<serverSide, browser, screen, session, refresh, signout, out, crossed>>

\* auth_middleware, or get_session: refused without a token of an active row.
ServeRequest(r) ==
  /\ r # "sign_in" /\ requests[r] = "sent"
  /\ Change(r, IF access /\ cookie \in active THEN "accepted" ELSE "refused")
  /\ UNCHANGED <<serverSide, browser, screen, session, refresh, signout, out, crossed>>

\* create_session with the right password: a new row.
ServeSignIn ==
  /\ requests["sign_in"] = "sent" /\ issued < MaxSessions
  /\ issued' = issued + 1 /\ active' = active \cup {issued + 1}
  /\ Change("sign_in", "accepted")
  /\ UNCHANGED <<browser, screen, session, refresh, signout, out, crossed>>

\* With a wrong one.
RefuseSignIn ==
  /\ requests["sign_in"] = "sent"
  /\ Change("sign_in", "refused")
  /\ UNCHANGED <<serverSide, browser, screen, session, refresh, signout, out, crossed>>

\* A request of a page is answered.
RequestAccepted(r) ==
  /\ r \in DataRequest /\ requests[r] = "accepted"
  /\ Change(r, "idle")
  /\ UNCHANGED <<serverSide, browser, screen, session, refresh, signout, out, crossed>>

\* The session is valid; the sign-in page leaves for the home page (its effect).
SessionAccepted ==
  /\ requests["session"] = "accepted"
  /\ Change("session", "idle")
  /\ session' = "yes" /\ screen' = "app"
  /\ UNCHANGED <<serverSide, browser, refresh, signout, out, crossed>>

\* The answer sets the cookies; the session is asked for again, and the home page opened.
SignInAccepted ==
  /\ requests["sign_in"] = "accepted"
  /\ requests' = [requests EXCEPT !["sign_in"] = "idle", !["session"] = "sent"]
  /\ cookie' = issued /\ access' = TRUE
  /\ screen' = "app" /\ out' = FALSE /\ crossed' = FALSE
  /\ UNCHANGED <<serverSide, session, refresh, signout>>

\* A request fails for another reason than 401 and is not sent again.
RequestFails(r) ==
  /\ requests[r] = "sent"
  /\ Change(r, "idle")
  /\ screen' = IF r = "session" /\ session = "none" THEN "signin" ELSE screen
  /\ UNCHANGED <<serverSide, browser, session, refresh, signout, out, crossed>>

\* 401 (errorHandler): the request joins the queue, and one refresh is started.  A session
\* query without data sends the visitor to the sign-in page at once, refresh or not.
RequestRefused(r) ==
  /\ requests[r] = "refused"
  /\ Change(r, "queued")
  /\ refresh' = IF refresh = Quiet THEN [stage |-> "asked", row |-> cookie] ELSE refresh
  /\ screen' = IF r = "session" /\ session = "none" THEN "signin" ELSE screen
  /\ UNCHANGED <<serverSide, browser, session, signout, out, crossed>>

-----------------------------------------------------------------------------
(* refreshAndRetry.                                                        *)

\* refresh_token: a new row for an active one; the old row stays active.
ServeRefresh ==
  /\ refresh.stage = "asked"
  /\ IF refresh.row \in active
     THEN /\ issued < MaxSessions
          /\ issued' = issued + 1 /\ active' = active \cup {issued + 1}
          /\ refresh' = [stage |-> "granted", row |-> issued + 1]
     ELSE refresh' = [refresh EXCEPT !.stage = "denied"] /\ UNCHANGED serverSide
  /\ UNCHANGED <<browser, screen, session, requests, signout, out, crossed>>

Queued == {r \in Request : requests[r] = "queued"}

\* The queue is emptied, its requests in the given state.
Flush(state) == requests' = [r \in Request |-> IF r \in Queued THEN state ELSE requests[r]]

\* Mutant of RefreshGranted: only the session query is sent again.
RefreshGrantedOnlyOne ==
  /\ refresh.stage = "granted"
  /\ cookie' = refresh.row /\ access' = TRUE
  /\ requests' = IF requests["session"] = "queued" THEN [requests EXCEPT !["session"] = "sent"] ELSE requests
  /\ refresh' = Quiet
  /\ UNCHANGED <<serverSide, screen, session, signout, out, crossed>>

\* The answer sets the cookies, and everything in the queue is sent again.
RefreshGranted ==
  /\ refresh.stage = "granted"
  /\ cookie' = refresh.row /\ access' = TRUE
  /\ Flush("sent")
  /\ refresh' = Quiet
  /\ UNCHANGED <<serverSide, screen, session, signout, out, crossed>>

\* Not refreshed: the browser loads the sign-in page, unless it is there already.
RefreshDenied ==
  /\ refresh.stage = "denied"
  /\ refresh' = Quiet
  /\ IF screen = "signin"
     THEN Flush("idle") /\ UNCHANGED <<screen, session, signout>>
     ELSE /\ screen' = "signin" /\ session' = "none"
          /\ requests' = [r \in Request |-> IF r = "session" THEN "sent" ELSE "idle"]
          /\ signout' = IF signout.stage = "served" THEN signout ELSE Quiet
  /\ UNCHANGED <<serverSide, browser, out, crossed>>

\* The refresh fails otherwise: it is reported nowhere and the queue is dropped.
RefreshBreaks ==
  /\ refresh.stage = "asked"
  /\ refresh' = Quiet
  /\ Flush("idle")
  /\ UNCHANGED <<serverSide, browser, screen, session, signout, out, crossed>>

-----------------------------------------------------------------------------
(* Signing out, on the profile page.                                       *)

SignOut ==
  /\ PageShown /\ signout = Quiet
  /\ signout' = [stage |-> "sent", row |-> IF access THEN cookie ELSE 0]
  /\ UNCHANGED <<serverSide, browser, screen, session, requests, refresh, out, crossed>>

\* signout: the row of the access token is deactivated; the answer removes the cookies anyway.
ServeSignOut ==
  /\ signout.stage = "sent"
  /\ signout' = [signout EXCEPT !.stage = "served"]
  /\ active' = active \ {signout.row}
  /\ UNCHANGED <<issued, browser, screen, session, requests, refresh, out, crossed>>

\* Mutant of SignedOut: the cached session is kept.
SignedOutKeepsSession ==
  /\ signout.stage = "served"
  /\ signout' = Quiet
  /\ cookie' = 0 /\ access' = FALSE
  /\ screen' = IF session = "yes" THEN "app" ELSE "signin"
  /\ requests' = [requests EXCEPT !["session"] = "sent"]
  /\ out' = TRUE /\ crossed' = (refresh # Quiet)
  /\ UNCHANGED <<serverSide, session, refresh>>

\* The auth queries are removed, with the requests under way for them, and the sign-in page
\* asks for the session anew.
SignedOut ==
  /\ signout.stage = "served"
  /\ signout' = Quiet
  /\ cookie' = 0 /\ access' = FALSE
  /\ session' = "none" /\ screen' = "signin"
  /\ requests' = [requests EXCEPT !["session"] = "sent"]
  /\ out' = TRUE /\ crossed' = (refresh # Quiet)
  /\ UNCHANGED <<serverSide, refresh>>

SignOutFails ==
  /\ signout.stage = "sent"
  /\ signout' = Quiet
  /\ UNCHANGED <<serverSide, browser, screen, session, requests, refresh, out, crossed>>

-----------------------------------------------------------------------------
SessionNext ==
  \/ AccessExpires \/ RefreshTokenExpires
  \/ \E r \in Request :
       SendRequest(r) \/ ServeRequest(r) \/ RequestAccepted(r) \/ RequestFails(r) \/ RequestRefused(r)
  \/ SubmitSignIn \/ ServeSignIn \/ RefuseSignIn \/ SessionAccepted \/ SignInAccepted
  \/ ServeRefresh \/ RefreshGranted \/ RefreshDenied \/ RefreshBreaks
  \/ SignOut \/ ServeSignOut \/ SignedOut \/ SignOutFails

SessionSpec == SessionInit /\ [][SessionNext]_sessionVars

-----------------------------------------------------------------------------
(* Properties.                                                             *)

Stage == {"no", "asked", "granted", "denied", "sent", "served"}

SessionTypeOK ==
  /\ active \subseteq 1 .. issued /\ issued \in 1 .. MaxSessions + 1
  /\ cookie \in 0 .. issued /\ access \in BOOLEAN
  /\ screen \in {"app", "signin"} /\ session \in {"none", "yes"}
  /\ requests \in [Request -> {"idle", "sent", "accepted", "refused", "queued"}]
  /\ refresh.stage \in Stage /\ signout.stage \in Stage
  /\ out \in BOOLEAN /\ crossed \in BOOLEAN

\* A request refused while a refresh is under way waits for that refresh and for nothing else:
\* when it is over, every one of them has been sent again or given up, also those refused after
\* the refresh was granted and before its answer arrived.
NobodyWaitsForNothing == Queued # {} => refresh # Quiet

\* A user who has signed out stays out, whatever was under way: no cookie comes back and no page
\* is shown, unless a refresh had been started and crossed the sign-out.
SignedOutStaysOut == out /\ ~crossed => cookie = 0 /\ ~PageShown
=============================================================================
