----------------------------- MODULE PagesProofs -----------------------------
(***************************************************************************)
(* Proofs about the pages of the application: the session, the lists, the  *)
(* cells of a notebook that run, editing in place, the form of a chart and *)
(* its drawing, for any number of requests, rows, cells, edits, series and *)
(* charts.  Each is a specification of its own; they share no variable.    *)
(***************************************************************************)
EXTENDS MCPages, FiniteSetTheorems, SequenceTheorems, WellFoundedInduction, TLAPS

-----------------------------------------------------------------------------
(* Numbers in order: the first, and the place of each.                     *)

\* A set of numbers has a least one.
LEMMA LeastNumber ==
  ASSUME NEW T \in SUBSET Nat, T # {}
  PROVE  \E n \in T : \A k \in T : n <= k
<1>1. PICK n \in T : \A k \in T : ~ (<<k, n>> \in OpToRel(<, Nat))
  BY NatLessThanWellFounded, WFMin
<1>2. ASSUME NEW k \in T PROVE n <= k
  <2>1. ~ (<<k, n>> \in {p \in Nat \X Nat : p[1] < p[2]})
    BY <1>1 DEF OpToRel
  <2> QED
    BY <2>1
<1> QED
  BY <1>2

\* Numbers have places in their order, from the first to as many as they are.
LEMMA PlaceGrows ==
  ASSUME NEW I \in SUBSET Nat, IsFiniteSet(I)
  PROVE  /\ \A i \in I : PlaceIn(I, i) \in 1 .. Cardinality(I)
         /\ \A i, j \in I : i < j => PlaceIn(I, i) < PlaceIn(I, j)
<1>1. ASSUME NEW i \in I
      PROVE  /\ IsFiniteSet({j \in I : j <= i})
             /\ PlaceIn(I, i) \in Nat /\ PlaceIn(I, i) <= Cardinality(I)
  <2>1. {j \in I : j <= i} \in SUBSET I
    OBVIOUS
  <2> QED
    BY <2>1, FS_Subset, FS_CardinalityType DEF PlaceIn
<1>2. ASSUME NEW i \in I PROVE PlaceIn(I, i) # 0
  <2>1. i \in {j \in I : j <= i}
    OBVIOUS
  <2> QED
    BY <1>1, <2>1, FS_EmptySet DEF PlaceIn
<1>3. ASSUME NEW i \in I, NEW j \in I, i < j PROVE PlaceIn(I, i) < PlaceIn(I, j)
  <2>1. IsFiniteSet({k \in I : k <= i}) /\ IsFiniteSet({k \in I : k <= j})
    BY <1>1
  <2>2. i \in Nat /\ j \in Nat /\ j \notin {k \in I : k <= i}
    BY <1>3
  <2>3. Cardinality({k \in I : k <= i} \cup {j}) = PlaceIn(I, i) + 1
    BY <2>1, <2>2, FS_AddElement DEF PlaceIn
  <2>4. j <= j /\ \A k \in I : k <= i => k <= j
    BY <1>3, <2>2
  <2>5. {k \in I : k <= i} \cup {j} \in SUBSET {k \in I : k <= j}
    BY <2>4, Zenon
  <2>6. Cardinality({k \in I : k <= i} \cup {j}) <= Cardinality({k \in I : k <= j})
    BY <2>1, <2>5, FS_Subset
  <2>7. PlaceIn(I, i) + 1 <= PlaceIn(I, j)
    BY <2>3, <2>6 DEF PlaceIn
  <2>8. PlaceIn(I, i) \in Nat /\ PlaceIn(I, j) \in Nat
    BY <1>1
  <2> QED
    BY <2>7, <2>8
<1>4. Cardinality(I) \in Nat
  BY FS_CardinalityType
<1>5. \A i \in I : PlaceIn(I, i) \in 1 .. Cardinality(I)
  <2> TAKE i \in I
  <2>1. PlaceIn(I, i) \in Nat /\ PlaceIn(I, i) <= Cardinality(I) /\ PlaceIn(I, i) # 0
    BY <1>1, <1>2
  <2> QED
    BY <1>4, <2>1
<1> QED
  BY <1>3, <1>5

\* Every place up to their number is taken by one of them.
LEMMA PlaceOnto ==
  ASSUME NEW I \in SUBSET Nat, IsFiniteSet(I), NEW k \in 1 .. Cardinality(I)
  PROVE  \E i \in I : PlaceIn(I, i) = k
<1> DEFINE f == [i \in I |-> PlaceIn(I, i)]
           T == 1 .. Cardinality(I)
<1>0. Cardinality(I) \in Nat
  BY FS_CardinalityType
<1>1. IsFiniteSet(T) /\ Cardinality(T) = Cardinality(I)
  BY <1>0, FS_Interval
<1>2. f \in [I -> T]
  BY PlaceGrows
<1>3. \A i, j \in I : f[i] = f[j] => i = j
  <2> SUFFICES ASSUME NEW i \in I, NEW j \in I, i # j PROVE f[i] # f[j]
    OBVIOUS
  <2>1. i < j \/ j < i
    OBVIOUS
  <2>2. PlaceIn(I, i) \in Nat /\ PlaceIn(I, j) \in Nat
    BY PlaceGrows
  <2> QED
    BY <2>1, <2>2, PlaceGrows
<1>4. f \in Injection(I, T)
  BY <1>2, <1>3 DEF Injection, IsInjective
<1>5. f \in Surjection(I, T)
  BY <1>1, <1>4, FS_Injection
<1> QED
  BY <1>5 DEF Surjection

\* The first of all elements are all of them.
LEMMA PlaceInAll ==
  ASSUME NEW n \in Nat, NEW i \in 1 .. n
  PROVE  PlaceIn(1 .. n, i) = i
<1>1. {j \in 1 .. n : j <= i} = 1 .. i
  OBVIOUS
<1>2. Cardinality(1 .. i) = IF 1 > i THEN 0 ELSE i - 1 + 1
  BY FS_Interval
<1>3. Cardinality(1 .. i) = i
  BY <1>2
<1> QED
  BY <1>1, <1>3, Zenon DEF PlaceIn

-----------------------------------------------------------------------------
(* The session: requests that were refused.                                *)

\* The kinds of requests.
LEMMA RequestKinds ==
  /\ "session" \in Request /\ "sign_in" \in Request
  /\ DataRequest \subseteq Request
  /\ "session" \notin DataRequest /\ "sign_in" \notin DataRequest
  BY SessionAssumption DEF Request

\* The states of requests are a function: all the proofs below need of their type.
RequestsKnown == requests \in [Request -> {"idle", "sent", "accepted", "refused", "queued"}]

\* Every step leaves each request in one of its states.
LEMMA RequestsKnownStep ==
  ASSUME RequestsKnown, [SessionNext]_sessionVars
  PROVE  RequestsKnown'
<1> USE DEF RequestsKnown
<1>1. CASE UNCHANGED requests
  BY <1>1
<1>2. ASSUME NEW r \in Request, NEW state \in {"idle", "sent", "accepted", "refused", "queued"},
             Change(r, state)
      PROVE  RequestsKnown'
  BY <1>2 DEF Change
<1>3. ASSUME NEW r \in Request,
             SendRequest(r) \/ ServeRequest(r) \/ RequestAccepted(r) \/ RequestFails(r)
               \/ RequestRefused(r)
      PROVE  RequestsKnown'
  BY <1>2, <1>3 DEF SendRequest, ServeRequest, RequestAccepted, RequestFails, RequestRefused
<1>4. CASE SubmitSignIn \/ ServeSignIn \/ RefuseSignIn \/ SessionAccepted
  BY <1>2, <1>4, RequestKinds DEF SubmitSignIn, ServeSignIn, RefuseSignIn, SessionAccepted
<1>5. CASE SignInAccepted \/ SignedOut
  BY <1>5 DEF SignInAccepted, SignedOut
<1>6. CASE RefreshGranted \/ RefreshDenied \/ RefreshBreaks
  BY <1>6 DEF RefreshGranted, RefreshDenied, RefreshBreaks, Flush
<1> QED
  BY <1>1, <1>3, <1>4, <1>5, <1>6
  DEF SessionNext, AccessExpires, RefreshTokenExpires, ServeRefresh, SignOut, ServeSignOut,
      SignOutFails, sessionVars

\* A request that goes anywhere but to the queue leaves the queue as it was, or shorter.
LEMMA QueueShrinks ==
  ASSUME RequestsKnown, NEW r \in Request, NEW state, state # "queued", Change(r, state)
  PROVE  Queued' \subseteq Queued
  BY DEF RequestsKnown, Change, Queued

\* A refresh that is over leaves nobody in the queue.
LEMMA FlushEmpties ==
  ASSUME NEW state, state # "queued", Flush(state)
  PROVE  Queued' = {}
  BY DEF Flush, Queued

\* Every step keeps the promise to those who wait.
LEMMA WaitingStep ==
  ASSUME RequestsKnown, NobodyWaitsForNothing, [SessionNext]_sessionVars
  PROVE  NobodyWaitsForNothing'
<1> USE DEF NobodyWaitsForNothing
<1>1. CASE UNCHANGED <<requests, refresh>>
  BY <1>1 DEF Queued
<1>2. ASSUME NEW r \in Request,
             SendRequest(r) \/ ServeRequest(r) \/ RequestAccepted(r) \/ RequestFails(r)
      PROVE  NobodyWaitsForNothing'
  BY <1>2, QueueShrinks DEF SendRequest, ServeRequest, RequestAccepted, RequestFails
<1>3. ASSUME NEW r \in Request, RequestRefused(r)
      PROVE  NobodyWaitsForNothing'
  BY <1>3 DEF RequestRefused, Quiet
<1>4. CASE SubmitSignIn \/ ServeSignIn \/ RefuseSignIn \/ SessionAccepted
  BY <1>4, QueueShrinks, RequestKinds
  DEF SubmitSignIn, ServeSignIn, RefuseSignIn, SessionAccepted
<1>5. CASE SignInAccepted \/ SignedOut
  <2>1. Queued' \subseteq Queued /\ refresh' = refresh
    BY <1>5, RequestKinds DEF SignInAccepted, SignedOut, RequestsKnown, Queued
  <2> QED
    BY <2>1
<1>6. CASE ServeRefresh
  <2>1. refresh' # Quiet /\ requests' = requests
    BY <1>6 DEF ServeRefresh, Quiet
  <2> QED
    BY <2>1
<1>7. CASE RefreshGranted \/ RefreshBreaks
  BY <1>7, FlushEmpties DEF RefreshGranted, RefreshBreaks
<1>8. CASE RefreshDenied
  <2>1. CASE Flush("idle")
    BY <2>1, FlushEmpties
  <2>2. CASE requests' = [r \in Request |-> IF r = "session" THEN "sent" ELSE "idle"]
    BY <2>2 DEF Queued
  <2> QED
    BY <1>8, <2>1, <2>2 DEF RefreshDenied
<1> QED
  BY <1>1, <1>2, <1>3, <1>4, <1>5, <1>6, <1>7, <1>8
  DEF SessionNext, AccessExpires, RefreshTokenExpires, SignOut, ServeSignOut, SignOutFails,
      sessionVars

\* Each request is always in one of its states.
LEMMA RequestsAlwaysKnown == SessionSpec => []RequestsKnown
<1>1. SessionInit => RequestsKnown
  BY DEF SessionInit, RequestsKnown
<1> QED
  BY <1>1, RequestsKnownStep, PTL DEF SessionSpec

\* However many requests are refused, and whenever: each one that waits for a refresh is sent
\* again or given up when that refresh is over.
THEOREM EveryWaitEnds == SessionSpec => []NobodyWaitsForNothing
<1>1. SessionInit => NobodyWaitsForNothing
  BY DEF SessionInit, NobodyWaitsForNothing, Queued
<1>2. RequestsKnown /\ NobodyWaitsForNothing /\ [SessionNext]_sessionVars
        => NobodyWaitsForNothing'
  BY WaitingStep
<1> QED
  BY <1>1, <1>2, RequestsAlwaysKnown, PTL DEF SessionSpec

-----------------------------------------------------------------------------
(* The session: signed out.                                                *)

\* Rows have numbers up to those issued, and no row has the number 0; a refresh has a stage
\* and a row.
RowsKnown ==
  /\ issued \in Nat \ {0} /\ active \subseteq 1 .. issued /\ cookie \in Nat
  /\ refresh \in [stage : Stage, row : Nat]

\* Signed out, with no refresh from before: the browser has no cookie and no session, and
\* whatever is asked for is asked for without a cookie.
StaysOut ==
  out /\ ~crossed =>
    /\ cookie = 0 /\ ~access /\ session = "none"
    /\ requests["session"] # "accepted"
    /\ refresh.row = 0 /\ refresh.stage # "granted"

\* Rows are only ever added with the next number.
LEMMA RowsKnownStep ==
  ASSUME RowsKnown, [SessionNext]_sessionVars
  PROVE  RowsKnown'
<1>1. issued' \in Nat \ {0} /\ active' \subseteq 1 .. issued'
  <2>1. CASE UNCHANGED issued /\ active' \subseteq active
    BY <2>1 DEF RowsKnown
  <2>2. CASE issued' = issued + 1 /\ active' = active \cup {issued + 1}
    BY <2>2 DEF RowsKnown
  <2> QED
    BY <2>1, <2>2
    DEF SessionNext, AccessExpires, RefreshTokenExpires, SendRequest, ServeRequest,
        RequestAccepted, RequestFails, RequestRefused, SubmitSignIn, ServeSignIn, RefuseSignIn,
        SessionAccepted, SignInAccepted, ServeRefresh, RefreshGranted, RefreshDenied,
        RefreshBreaks, SignOut, ServeSignOut, SignedOut, SignOutFails, sessionVars, serverSide
<1>2. cookie' \in {cookie, issued, refresh.row, 0}
  BY DEF SessionNext, AccessExpires, RefreshTokenExpires, SendRequest, ServeRequest,
         RequestAccepted, RequestFails, RequestRefused, SubmitSignIn, ServeSignIn, RefuseSignIn,
         SessionAccepted, SignInAccepted, ServeRefresh, RefreshGranted, RefreshDenied,
         RefreshBreaks, SignOut, ServeSignOut, SignedOut, SignOutFails, sessionVars, browser
<1>3. \/ refresh' \in {refresh, Quiet, [stage |-> "asked", row |-> cookie],
                      [stage |-> "granted", row |-> issued + 1]}
      \/ refresh' = [refresh EXCEPT !.stage = "denied"]
  BY DEF SessionNext, AccessExpires, RefreshTokenExpires, SendRequest, ServeRequest,
         RequestAccepted, RequestFails, RequestRefused, SubmitSignIn, ServeSignIn, RefuseSignIn,
         SessionAccepted, SignInAccepted, ServeRefresh, RefreshGranted, RefreshDenied,
         RefreshBreaks, SignOut, ServeSignOut, SignedOut, SignOutFails, sessionVars
<1>4. cookie' \in Nat
  BY <1>2 DEF RowsKnown
<1>5. refresh' \in [stage : Stage, row : Nat]
  <2>1. issued + 1 \in Nat /\ cookie \in Nat
    BY DEF RowsKnown
  <2> QED
    BY <1>3, <2>1 DEF RowsKnown, Quiet, Stage
<1> QED
  BY <1>1, <1>4, <1>5 DEF RowsKnown

\* Every step keeps a user out who has signed out.
LEMMA StaysOutStep ==
  ASSUME RequestsKnown, RowsKnown, StaysOut, [SessionNext]_sessionVars
  PROVE  StaysOut'
<1> USE DEF StaysOut
<1>1. CASE SignInAccepted
  BY <1>1 DEF SignInAccepted
<1>2. CASE SignedOut
  <2>1. /\ cookie' = 0 /\ ~access' /\ session' = "none" /\ crossed' = (refresh # Quiet)
        /\ refresh' = refresh /\ requests' = [requests EXCEPT !["session"] = "sent"]
    BY <1>2 DEF SignedOut
  <2>2. requests'["session"] = "sent"
    BY <2>1, RequestKinds DEF RequestsKnown
  <2>3. ~crossed' => refresh' = Quiet
    BY <2>1
  <2> QED
    BY <2>1, <2>2, <2>3 DEF Quiet
<1>3. UNCHANGED <<out, crossed>> \/ SignInAccepted \/ SignedOut
  BY DEF SessionNext, AccessExpires, RefreshTokenExpires, SendRequest, ServeRequest,
      RequestAccepted, RequestFails, RequestRefused, SubmitSignIn, ServeSignIn, RefuseSignIn,
      SessionAccepted, ServeRefresh, RefreshGranted, RefreshDenied,
      RefreshBreaks, SignOut, ServeSignOut, SignOutFails, sessionVars
<1> SUFFICES ASSUME out, ~crossed, UNCHANGED <<out, crossed>>
             PROVE  StaysOut'
  BY <1>1, <1>2, <1>3
<1>4. ASSUME NEW r \in Request, NEW state, state # "accepted", Change(r, state),
             UNCHANGED <<cookie, access, session>>,
             refresh' \in {refresh, [stage |-> "asked", row |-> 0]}
      PROVE  StaysOut'
  BY <1>4 DEF Change, RequestsKnown
<1>5. ASSUME NEW r \in Request,
             SendRequest(r) \/ ServeRequest(r) \/ RequestAccepted(r) \/ RequestFails(r)
               \/ RequestRefused(r)
      PROVE  StaysOut'
  BY <1>4, <1>5 DEF SendRequest, ServeRequest, RequestAccepted, RequestFails, RequestRefused,
                    browser
<1>6. CASE SubmitSignIn \/ RefuseSignIn
  BY <1>4, <1>6, RequestKinds DEF SubmitSignIn, RefuseSignIn, browser
<1>7. CASE ServeSignIn
  BY <1>7, RequestKinds DEF ServeSignIn, Change, RequestsKnown, browser
<1>8. CASE SessionAccepted
  BY <1>8 DEF SessionAccepted
<1>9. CASE ServeRefresh
  <2>1. refresh.row \notin active
    BY DEF RowsKnown
  <2>2. refresh' = [refresh EXCEPT !.stage = "denied"]
    BY <1>9, <2>1 DEF ServeRefresh
  <2>3. refresh'.row = 0 /\ refresh'.stage = "denied"
    BY <2>2 DEF RowsKnown
  <2> QED
    BY <1>9, <2>3 DEF ServeRefresh, browser
<1>10. CASE RefreshGranted
  BY <1>10 DEF RefreshGranted
<1>11. CASE RefreshDenied \/ RefreshBreaks
  <2>1. refresh' = Quiet /\ UNCHANGED <<cookie, access>> /\ session' \in {session, "none"}
    BY <1>11 DEF RefreshDenied, RefreshBreaks, browser
  <2>2. requests'["session"] # "accepted"
    BY <1>11, RequestKinds DEF RefreshDenied, RefreshBreaks, Flush, Queued
  <2> QED
    BY <2>1, <2>2 DEF Quiet
<1>12. CASE AccessExpires \/ RefreshTokenExpires \/ SignOut \/ ServeSignOut \/ SignOutFails
            \/ UNCHANGED sessionVars
  BY <1>12 DEF AccessExpires, RefreshTokenExpires, SignOut, ServeSignOut, SignOutFails,
               sessionVars, browser
<1> QED
  BY <1>1, <1>2, <1>5, <1>6, <1>7, <1>8, <1>9, <1>10, <1>11, <1>12 DEF SessionNext

\* A user who has signed out stays out, for any number of requests and rows, unless a refresh
\* was under way at the time.
THEOREM SignedOutIsOut == SessionSpec => []SignedOutStaysOut
<1>1. SessionInit => RowsKnown /\ StaysOut
  BY DEF SessionInit, RowsKnown, StaysOut, Quiet, Stage
<1>2. RowsKnown /\ [SessionNext]_sessionVars => RowsKnown'
  BY RowsKnownStep
<1>3. RequestsKnown /\ RowsKnown /\ StaysOut /\ [SessionNext]_sessionVars => StaysOut'
  BY StaysOutStep
<1>4. StaysOut => SignedOutStaysOut
  BY DEF StaysOut, SignedOutStaysOut, PageShown
<1> QED
  BY <1>1, <1>2, <1>3, <1>4, RequestsAlwaysKnown, PTL DEF SessionSpec

\* The types of the session, with those of the rows that a refresh and a sign-out belong to.
SessionKept ==
  /\ active \subseteq 1 .. issued /\ issued \in 1 .. MaxSessions + 1
  /\ cookie \in 0 .. issued /\ access \in BOOLEAN
  /\ screen \in {"app", "signin"} /\ session \in {"none", "yes"}
  /\ refresh \in [stage : Stage, row : 0 .. issued]
  /\ signout \in [stage : Stage, row : Nat]
  /\ out \in BOOLEAN /\ crossed \in BOOLEAN

\* Every step of the session keeps the types.
LEMMA SessionKeptStep ==
  ASSUME SessionKept, [SessionNext]_sessionVars
  PROVE  SessionKept'
<1> USE DEF SessionKept
<1>1. issued \in Nat /\ issued' \in {issued, issued + 1}
      /\ (issued' = issued + 1 => issued < MaxSessions)
  BY SessionAssumption
  DEF SessionNext, AccessExpires, RefreshTokenExpires, SendRequest, ServeRequest,
      RequestAccepted, RequestFails, RequestRefused, SubmitSignIn, ServeSignIn, RefuseSignIn,
      SessionAccepted, SignInAccepted, ServeRefresh, RefreshGranted, RefreshDenied,
      RefreshBreaks, SignOut, ServeSignOut, SignedOut, SignOutFails, sessionVars, serverSide
<1>2. issued' \in 1 .. MaxSessions + 1 /\ issued <= issued' /\ issued' \in Nat
  BY <1>1, SessionAssumption
<1>3. active' \subseteq 1 .. issued'
  <2>1. active' \subseteq active
        \/ (active' = active \cup {issued + 1} /\ issued' = issued + 1)
    BY DEF SessionNext, AccessExpires, RefreshTokenExpires, SendRequest, ServeRequest,
           RequestAccepted, RequestFails, RequestRefused, SubmitSignIn, ServeSignIn,
           RefuseSignIn, SessionAccepted, SignInAccepted, ServeRefresh, RefreshGranted,
           RefreshDenied, RefreshBreaks, SignOut, ServeSignOut, SignedOut, SignOutFails,
           sessionVars, serverSide
  <2>2. 1 .. issued \subseteq 1 .. issued'
    BY <1>1, <1>2
  <2>3. issued' = issued + 1 => issued + 1 \in 1 .. issued'
    BY <1>1, <1>2
  <2> QED
    BY <2>1, <2>2, <2>3
<1>4. cookie' \in 0 .. issued' /\ access' \in BOOLEAN
  <2>1. cookie' \in {cookie, issued, refresh.row, 0}
    BY DEF SessionNext, AccessExpires, RefreshTokenExpires, SendRequest, ServeRequest,
           RequestAccepted, RequestFails, RequestRefused, SubmitSignIn, ServeSignIn,
           RefuseSignIn, SessionAccepted, SignInAccepted, ServeRefresh, RefreshGranted,
           RefreshDenied, RefreshBreaks, SignOut, ServeSignOut, SignedOut, SignOutFails,
           sessionVars, browser
  <2>2. access' \in BOOLEAN
    BY DEF SessionNext, AccessExpires, RefreshTokenExpires, SendRequest, ServeRequest,
           RequestAccepted, RequestFails, RequestRefused, SubmitSignIn, ServeSignIn,
           RefuseSignIn, SessionAccepted, SignInAccepted, ServeRefresh, RefreshGranted,
           RefreshDenied, RefreshBreaks, SignOut, ServeSignOut, SignedOut, SignOutFails,
           sessionVars, browser
  <2>3. refresh.row \in 0 .. issued
    OBVIOUS
  <2>4. cookie' \in 0 .. issued
    BY <1>1, <2>1, <2>3
  <2> QED
    BY <1>1, <1>2, <2>2, <2>4
<1>5. refresh' \in [stage : Stage, row : 0 .. issued']
  <2>1. \/ refresh' \in {refresh, Quiet, [stage |-> "asked", row |-> cookie]}
        \/ refresh' = [stage |-> "granted", row |-> issued']
        \/ refresh' = [refresh EXCEPT !.stage = "denied"]
    BY DEF SessionNext, AccessExpires, RefreshTokenExpires, SendRequest, ServeRequest,
           RequestAccepted, RequestFails, RequestRefused, SubmitSignIn, ServeSignIn,
           RefuseSignIn, SessionAccepted, SignInAccepted, ServeRefresh, RefreshGranted,
           RefreshDenied, RefreshBreaks, SignOut, ServeSignOut, SignedOut, SignOutFails,
           sessionVars
  <2>2. 0 .. issued \subseteq 0 .. issued' /\ 0 \in 0 .. issued' /\ issued' \in 0 .. issued'
    BY <1>1, <1>2
  <2>3. {"asked", "granted", "denied", "no"} \subseteq Stage
    BY DEF Stage
  <2> QED
    BY <2>1, <2>2, <2>3 DEF Quiet
<1>6. signout' \in [stage : Stage, row : Nat]
  <2>1. \/ signout' \in {signout, Quiet}
        \/ signout' \in {[stage |-> "sent", row |-> cookie], [stage |-> "sent", row |-> 0]}
        \/ signout' = [signout EXCEPT !.stage = "served"]
    BY DEF SessionNext, AccessExpires, RefreshTokenExpires, SendRequest, ServeRequest,
           RequestAccepted, RequestFails, RequestRefused, SubmitSignIn, ServeSignIn,
           RefuseSignIn, SessionAccepted, SignInAccepted, ServeRefresh, RefreshGranted,
           RefreshDenied, RefreshBreaks, SignOut, ServeSignOut, SignedOut, SignOutFails,
           sessionVars
  <2>2. cookie \in Nat /\ {"sent", "served", "no"} \subseteq Stage
    BY <1>1 DEF Stage
  <2> QED
    BY <2>1, <2>2 DEF Quiet
<1>7. /\ screen' \in {"app", "signin"} /\ session' \in {"none", "yes"}
      /\ out' \in BOOLEAN /\ crossed' \in BOOLEAN
  BY DEF SessionNext, AccessExpires, RefreshTokenExpires, SendRequest, ServeRequest,
         RequestAccepted, RequestFails, RequestRefused, SubmitSignIn, ServeSignIn,
         RefuseSignIn, SessionAccepted, SignInAccepted, ServeRefresh, RefreshGranted,
         RefreshDenied, RefreshBreaks, SignOut, ServeSignOut, SignedOut, SignOutFails,
         sessionVars
<1> QED
  BY <1>2, <1>3, <1>4, <1>5, <1>6, <1>7

\* The session starts well typed and stays so.
LEMMA SessionTypes == SessionSpec => []SessionTypeOK
<1>1. SessionInit => SessionKept
  <2> SUFFICES ASSUME SessionInit PROVE SessionKept
    OBVIOUS
  <2>1. 1 \in 1 .. MaxSessions + 1 /\ 0 \in 0 .. 1 /\ 1 \in 0 .. 1 /\ "no" \in Stage
    BY SessionAssumption DEF Stage
  <2>2. Quiet \in [stage : Stage, row : 0 .. 1] /\ Quiet \in [stage : Stage, row : Nat]
    BY <2>1 DEF Quiet
  <2>3. active \subseteq 1 .. 1
    BY DEF SessionInit
  <2>4. access \in BOOLEAN /\ out \in BOOLEAN /\ crossed \in BOOLEAN
    BY DEF SessionInit
  <2>5. issued = 1 /\ cookie \in {0, 1} /\ screen = "app" /\ session = "none"
        /\ refresh = Quiet /\ signout = Quiet
    BY DEF SessionInit
  <2> QED
    BY <2>1, <2>2, <2>3, <2>4, <2>5 DEF SessionKept
<1>2. SessionKept /\ RequestsKnown => SessionTypeOK
  BY DEF SessionKept, RequestsKnown, SessionTypeOK
<1> QED
  BY <1>1, <1>2, SessionKeptStep, RequestsAlwaysKnown, PTL DEF SessionSpec

-----------------------------------------------------------------------------
(* The lists: what is selected is on show.                                 *)

SelectedShown == ~slipped => selected \subseteq shown.rows

\* Every step of a list keeps the selection to the rows on show, or remembers that it slipped.
LEMMA SelectionStep ==
  ASSUME SelectedShown, [ListNext]_listVars
  PROVE  SelectedShown'
<1> USE DEF SelectedShown
<1>1. CASE selected' = {}
  BY <1>1
<1>2. CASE UNCHANGED <<shown, selected, slipped>>
  BY <1>2
<1>3. CASE ListAnswered
  BY <1>3 DEF ListAnswered
<1>4. CASE ListFails
  <2>1. CASE behind
    BY <1>1, <1>4, <2>1 DEF ListFails
  <2>2. CASE ~behind
    BY <1>4, <2>2 DEF ListFails
  <2> QED
    BY <2>1, <2>2
<1>5. CASE GoToPage \/ Debounced \/ ExitSelectMode \/ BulkDeleted
  BY <1>1, <1>5 DEF GoToPage, Debounced, ExitSelectMode, BulkDeleted, ClearSelection
<1>6. CASE ChangePageSize
  BY <1>1, <1>6 DEF ChangePageSize, ClearSelection
<1>7. CASE EnterSelectMode
  <2>1. shown' = shown /\ slipped' = (selected' # {} /\ behind)
    BY <1>7 DEF EnterSelectMode, data
  <2>2. selected' \subseteq shown.rows
    BY <1>7 DEF EnterSelectMode
  <2> QED
    BY <2>1, <2>2
<1>8. CASE ToggleRow
  <2>1. /\ shown' = shown /\ slipped' = (slipped \/ behind)
        /\ selected' \subseteq selected \cup shown.rows
    BY <1>8 DEF ToggleRow, data
  <2> QED
    BY <2>1
<1>9. CASE SelectAll
  BY <1>9 DEF SelectAll, data
<1>10. CASE AskAgain \/ DeletedElsewhere \/ TypeSearch \/ OpenDeleteDialog \/ CloseDeleteDialog
            \/ ConfirmDelete \/ BulkDeleteRefused \/ DeleteCanvas \/ UNCHANGED listVars
  BY <1>2, <1>10
  DEF AskAgain, DeletedElsewhere, TypeSearch, OpenDeleteDialog, CloseDeleteDialog,
      ConfirmDelete, BulkDeleteRefused, DeleteCanvas, listVars, selection, data
<1> QED
  BY <1>3, <1>4, <1>5, <1>6, <1>7, <1>8, <1>9, <1>10 DEF ListNext

\* Whatever the rows, the page sizes and the search: what is about to be deleted was selected
\* on the page on show.
THEOREM DeletesWhatIsShown == ListSpec => []SelectionIsOnShow
<1>1. ListInit => SelectedShown
  BY DEF ListInit, SelectedShown
<1>2. SelectedShown => SelectionIsOnShow
  BY DEF SelectedShown, SelectionIsOnShow
<1> QED
  BY <1>1, <1>2, SelectionStep, PTL DEF ListSpec

\* How many rows a list has, and how many a page.
LEMMA SizesAreNumbers ==
  /\ \A l \in {"conversations", "canvases"} : MaxRows[l] \in Nat
  /\ PageSizes \subseteq Nat \ {0}
  /\ LargestSize \in PageSizes /\ \A y \in PageSizes : y <= LargestSize
  /\ \A n \in Nat, z \in PageSizes : PagesFor(n, z) \in Nat
<1>1. PageSizes \subseteq Nat \ {0}
  BY ListAssumption
<1>2. ASSUME NEW n \in Nat, NEW z \in Nat \ {0} PROVE (n + z - 1) \div z \in Nat
  OBVIOUS
<1>3. LargestSize \in PageSizes /\ \A y \in PageSizes : y <= LargestSize
  BY ListAssumption DEF LargestSize
<1> QED
  BY <1>1, <1>2, <1>3, ListAssumption DEF PagesFor

ListIs == list \in {"conversations", "canvases"}
Answers == [rows : SUBSET (1 .. MaxRows[list]), total : Nat, pages : Nat, known : BOOLEAN]

\* The number of a list's rows.
LEMMA RowsCounted ==
  ASSUME ListIs, NEW rows \in SUBSET (1 .. MaxRows[list])
  PROVE  /\ rows \in SUBSET Nat /\ IsFiniteSet(rows)
         /\ Cardinality(rows) \in Nat /\ Cardinality(rows) <= MaxRows[list]
<1>1. MaxRows[list] \in Nat
  BY SizesAreNumbers DEF ListIs
<1>2. IsFiniteSet(1 .. MaxRows[list]) /\ Cardinality(1 .. MaxRows[list]) = MaxRows[list]
  <2>1. \A n \in Nat : IsFiniteSet(1 .. n) /\ Cardinality(1 .. n) = n
    BY FS_Interval
  <2> QED
    BY <1>1, <2>1
<1>3. IsFiniteSet(rows) /\ Cardinality(rows) <= Cardinality(1 .. MaxRows[list])
  BY <1>2, FS_Subset
<1>4. Cardinality(rows) \in Nat
  BY <1>3, FS_CardinalityType
<1>5. Cardinality(rows) <= MaxRows[list]
  BY <1>2, <1>3
<1> QED
  BY <1>3, <1>4, <1>5

\* An answer has rows of the list, and no more than a page of them.
LEMMA AnswerIs ==
  ASSUME ListIs, NEW rows \in SUBSET (1 .. MaxRows[list]), NEW s, NEW p \in Nat,
         NEW z \in PageSizes
  PROVE  /\ AnswerOf(rows, s, p, z) \in Answers
         /\ Cardinality(AnswerOf(rows, s, p, z).rows) <= LargestSize
<1> DEFINE found == IF s = "" THEN rows ELSE rows \cap Matching
           skipped == p * z
           onPage == {i \in found : skipped < PlaceIn(found, i) /\ PlaceIn(found, i) <= skipped + z}
           f == [i \in onPage |-> PlaceIn(found, i) - skipped]
<1>0. z \in Nat /\ skipped \in Nat /\ z <= LargestSize /\ LargestSize \in Nat
  BY SizesAreNumbers
<1>1. AnswerOf(rows, s, p, z) = [rows |-> onPage, total |-> Cardinality(found),
        pages |-> PagesFor(Cardinality(found), z), known |-> TRUE]
  BY Zenon DEF AnswerOf
<1> HIDE DEF skipped
<1>2. found \in SUBSET (1 .. MaxRows[list])
  OBVIOUS
<1> HIDE DEF found
<1>3. found \in SUBSET Nat /\ IsFiniteSet(found) /\ Cardinality(found) \in Nat
  BY <1>2, RowsCounted
<1>4. \A i \in found : PlaceIn(found, i) \in Nat
  BY <1>3, PlaceGrows
<1>5. f \in [onPage -> 1 .. z]
  BY <1>0, <1>4
<1>6. ASSUME NEW i \in onPage, NEW j \in onPage, i # j PROVE f[i] # f[j]
  <2>1. i \in found /\ j \in found /\ (i < j \/ j < i)
    BY <1>3, <1>6
  <2>2. PlaceIn(found, i) # PlaceIn(found, j)
    BY <1>3, <1>4, <2>1, PlaceGrows
  <2>3. PlaceIn(found, i) \in Nat /\ PlaceIn(found, j) \in Nat
    BY <1>4, <2>1
  <2> QED
    BY <1>0, <2>2, <2>3
<1>7. f \in Injection(onPage, 1 .. z)
  BY <1>5, <1>6 DEF Injection, IsInjective
<1> HIDE DEF f
<1>8. IsFiniteSet(1 .. z) /\ Cardinality(1 .. z) = z
  <2>1. \A n \in Nat : IsFiniteSet(1 .. n) /\ Cardinality(1 .. n) = n
    BY FS_Interval
  <2> QED
    BY <1>0, <2>1
<1>9. IsFiniteSet(onPage) /\ Cardinality(onPage) <= z
  BY <1>7, <1>8, FS_Injection
<1>10. onPage \in SUBSET (1 .. MaxRows[list])
  BY <1>2
<1> HIDE DEF onPage
<1>11. Cardinality(onPage) \in Nat
  BY <1>9, FS_CardinalityType
<1>12. PagesFor(Cardinality(found), z) \in Nat
  BY <1>3, SizesAreNumbers
<1> QED
  BY <1>0, <1>1, <1>3, <1>9, <1>10, <1>11, <1>12 DEF Answers

\* No answer has no rows.
LEMMA NoAnswerIs ==
  NoAnswer \in Answers /\ Cardinality(NoAnswer.rows) <= LargestSize
<1>1. 0 <= LargestSize
  BY SizesAreNumbers
<1> QED
  BY <1>1, FS_EmptySet DEF NoAnswer, Answers

\* The pager leads to pages.
LEMMA ClicksAre ==
  ASSUME NEW c \in Nat, NEW t \in Nat
  PROVE  Clicks(c, t) \subseteq Nat
<1>1. PageItems(c, t) \subseteq Nat
  <2>1. CASE t <= 7
    BY <2>1 DEF PageItems
  <2>2. CASE t > 7 /\ c <= 3
    BY <2>2 DEF PageItems
  <2>3. CASE t > 7 /\ c > 3 /\ c + 4 >= t
    BY <2>3 DEF PageItems
  <2>4. CASE t > 7 /\ c > 3 /\ c + 4 < t
    BY <2>4 DEF PageItems
  <2> QED
    BY <2>1, <2>2, <2>3, <2>4
<1>2. "right" \in Ellipses(c, t) => t > 7
  BY DEF Ellipses
<1>3. c < Jump \/ c - Jump \in Nat
  BY DEF Jump
<1>4. t > 7 => Smaller(t - 1, c + Jump) \in Nat
  BY DEF Smaller, Jump
<1>5. c > 0 => c - 1 \in Nat
  OBVIOUS
<1> QED
  BY <1>1, <1>2, <1>3, <1>4, <1>5 DEF Clicks

ListKept ==
  /\ ListIs /\ ListTypeOK
  /\ selecting \in BOOLEAN /\ (selecting => list = "conversations")

\* A canvas fewer.
LEMMA OneFewer ==
  ASSUME NEW n \in Nat, NEW m \in Nat, n <= m
  PROVE  1 .. (n - 1) \subseteq 1 .. m
  OBVIOUS

\* Every step of a list keeps the types.
LEMMA ListKeptStep ==
  ASSUME ListKept, [ListNext]_listVars
  PROVE  ListKept'
<1> USE DEF ListKept, ListTypeOK
<1>0. list' = list /\ Answers' = Answers /\ ListIs'
  <2>1. list' = list
    BY DEF ListNext, ListAnswered, ListFails, AskAgain, DeletedElsewhere, GoToPage,
           ChangePageSize, TypeSearch, Debounced, EnterSelectMode, ExitSelectMode, ToggleRow,
           SelectAll, OpenDeleteDialog, CloseDeleteDialog, ConfirmDelete, BulkDeleted,
           BulkDeleteRefused, DeleteCanvas, listVars
  <2> QED
    BY <2>1 DEF Answers, ListIs
<1>1. MaxRows[list] \in Nat /\ page \in Nat /\ size \in PageSizes /\ size \in Nat
  BY SizesAreNumbers DEF ListIs
<1>2. ASSUME NEW p \in Nat, NEW z \in PageSizes, NEW s \in {"", "text"}, Ask(p, z, s)
      PROVE  /\ page' \in Nat /\ size' \in PageSizes /\ search' \in {"", "text"}
             /\ shown' \in Answers /\ Cardinality(shown'.rows) <= LargestSize
  <2>1. page' = p /\ size' = z /\ search' = s
        /\ (shown' = shown \/ \E rows \in {stored, before} : shown' = AnswerOf(rows, s, p, z))
    BY <1>2 DEF Ask
  <2>2. shown \in Answers
    BY DEF Answers
  <2>3. ASSUME NEW rows \in {stored, before}, shown' = AnswerOf(rows, s, p, z)
        PROVE  shown' \in Answers /\ Cardinality(shown'.rows) <= LargestSize
    BY <2>3, AnswerIs
  <2> QED
    BY <2>1, <2>2, <2>3
<1>3. TotalPages \in Nat
  <2>1. shown.total \in Nat /\ shown.pages \in Nat
    OBVIOUS
  <2>2. PagesFor(shown.total, size) \in Nat
    BY <2>1, SizesAreNumbers
  <2> QED
    BY <2>1, <2>2 DEF TotalPages, Larger
<1>4. ASSUME NEW p \in Clicks(page, TotalPages) PROVE p \in Nat
  BY <1>1, <1>3, ClicksAre
<1>5. stored' \subseteq 1 .. MaxRows[list] /\ before' \subseteq 1 .. MaxRows[list]
  <2>1. stored' \subseteq stored \/ stored' = 1 .. (Cardinality(stored) - 1)
    BY DEF ListNext, ListAnswered, ListFails, AskAgain, DeletedElsewhere, GoToPage, ChangePageSize,
           TypeSearch, Debounced, EnterSelectMode, ExitSelectMode, ToggleRow, SelectAll,
           OpenDeleteDialog, CloseDeleteDialog, ConfirmDelete, BulkDeleted, BulkDeleteRefused,
           DeleteCanvas, listVars, server
  <2>2. before' \in {before, stored}
    BY DEF ListNext, ListAnswered, ListFails, AskAgain, DeletedElsewhere, GoToPage, ChangePageSize,
           TypeSearch, Debounced, EnterSelectMode, ExitSelectMode, ToggleRow, SelectAll,
           OpenDeleteDialog, CloseDeleteDialog, ConfirmDelete, BulkDeleted, BulkDeleteRefused,
           DeleteCanvas, listVars, server
  <2>3. Cardinality(stored) \in Nat /\ Cardinality(stored) <= MaxRows[list]
    BY RowsCounted
  <2>4. 1 .. (Cardinality(stored) - 1) \subseteq 1 .. MaxRows[list]
    BY <1>1, <2>3, OneFewer
  <2> QED
    BY <2>1, <2>2, <2>4
<1>6. /\ page' \in Nat /\ size' \in PageSizes /\ search' \in {"", "text"}
      /\ shown' \in Answers /\ Cardinality(shown'.rows) <= LargestSize
  <2>1. CASE ListAnswered
    <3>1. shown' = AnswerOf(stored, search, page, size) /\ UNCHANGED question
      BY <2>1 DEF ListAnswered
    <3>2. shown' \in Answers /\ Cardinality(shown'.rows) <= LargestSize
      BY <1>1, <3>1, AnswerIs
    <3> QED
      BY <3>1, <3>2 DEF question
  <2>2. CASE ListFails
    <3>1. shown' \in {shown, NoAnswer} /\ UNCHANGED question
      BY <2>2 DEF ListFails
    <3> QED
      BY <3>1, NoAnswerIs DEF question, Answers
  <2>3. CASE GoToPage
    BY <1>1, <1>2, <1>4, <2>3 DEF GoToPage
  <2>4. CASE ChangePageSize
    BY <1>2, <2>4 DEF ChangePageSize
  <2>5. CASE Debounced
    BY <1>1, <1>2, <2>5 DEF Debounced
  <2>6. CASE UNCHANGED <<page, size, search, shown>>
    BY <2>6 DEF Answers
  <2> QED
    BY <2>1, <2>2, <2>3, <2>4, <2>5, <2>6
    DEF ListNext, AskAgain, DeletedElsewhere, TypeSearch, EnterSelectMode, ExitSelectMode,
        ToggleRow, SelectAll, OpenDeleteDialog, CloseDeleteDialog, ConfirmDelete, BulkDeleted,
        BulkDeleteRefused, DeleteCanvas, listVars, question, data
<1>7. typed' \in {"", "text"} /\ dialog' \in {"closed", "open", "sent"}
  BY DEF ListNext, ListAnswered, ListFails, AskAgain, DeletedElsewhere, GoToPage, ChangePageSize,
         TypeSearch, Debounced, EnterSelectMode, ExitSelectMode, ToggleRow, SelectAll,
         OpenDeleteDialog, CloseDeleteDialog, ConfirmDelete, BulkDeleted, BulkDeleteRefused,
         DeleteCanvas, listVars, deletion
<1>8. doomed' \in {doomed, selected, {}}
  BY DEF ListNext, ListAnswered, ListFails, AskAgain, DeletedElsewhere, GoToPage, ChangePageSize,
         TypeSearch, Debounced, EnterSelectMode, ExitSelectMode, ToggleRow, SelectAll,
         OpenDeleteDialog, CloseDeleteDialog, ConfirmDelete, BulkDeleted, BulkDeleteRefused,
         DeleteCanvas, listVars, deletion
<1>9. selected' \subseteq selected \cup shown.rows
  BY DEF ListNext, ListAnswered, ListFails, AskAgain, DeletedElsewhere, GoToPage, ChangePageSize,
         TypeSearch, Debounced, EnterSelectMode, ExitSelectMode, ToggleRow, SelectAll,
         OpenDeleteDialog, CloseDeleteDialog, ConfirmDelete, BulkDeleted, BulkDeleteRefused,
         DeleteCanvas, listVars, selection, ClearSelection
<1>10. selecting' \in BOOLEAN /\ (selecting' => list = "conversations")
  <2>1. CASE EnterSelectMode
    BY <2>1 DEF EnterSelectMode
  <2>2. CASE ExitSelectMode \/ BulkDeleted
    BY <2>2 DEF ExitSelectMode, BulkDeleted
  <2>3. CASE UNCHANGED selecting
    BY <2>3
  <2> QED
    BY <2>1, <2>2, <2>3
    DEF ListNext, ListAnswered, ListFails, AskAgain, DeletedElsewhere, GoToPage,
        ChangePageSize, TypeSearch, Debounced, ToggleRow, SelectAll, OpenDeleteDialog,
        CloseDeleteDialog, ConfirmDelete, BulkDeleteRefused, DeleteCanvas, listVars, selection
<1>11. selected' # {} => selecting' /\ list = "conversations"
  <2>1. CASE UNCHANGED <<selecting, selected>> \/ selected' = {}
    BY <2>1
  <2>2. CASE EnterSelectMode \/ ToggleRow \/ SelectAll \/ ChangePageSize
    BY <2>2 DEF EnterSelectMode, ToggleRow, SelectAll, ChangePageSize, ClearSelection
  <2> QED
    BY <2>1, <2>2
    DEF ListNext, ListAnswered, ListFails, AskAgain, DeletedElsewhere, GoToPage, TypeSearch,
        Debounced, ExitSelectMode, OpenDeleteDialog, CloseDeleteDialog, ConfirmDelete,
        BulkDeleted, BulkDeleteRefused, DeleteCanvas, listVars, selection, ClearSelection
<1>12. shown.rows \subseteq 1 .. MaxRows[list]
  OBVIOUS
<1>13. selected' \subseteq 1 .. MaxRows[list] /\ doomed' \subseteq 1 .. MaxRows[list]
  BY <1>8, <1>9, <1>12
<1> QED
  BY <1>0, <1>5, <1>6, <1>7, <1>10, <1>11, <1>13 DEF Answers

\* A list starts well typed and stays so.
LEMMA ListTypes == ListSpec => []ListTypeOK
<1>1. ListInit => ListKept
  <2> SUFFICES ASSUME ListInit PROVE ListKept
    OBVIOUS
  <2>1. ListIs /\ NoAnswer \in Answers /\ Cardinality(NoAnswer.rows) <= LargestSize
    BY NoAnswerIs DEF ListInit, ListIs
  <2> QED
    BY <2>1, SizesAreNumbers DEF ListInit, ListKept, ListTypeOK, Answers
<1>2. ListKept => ListTypeOK
  BY DEF ListKept
<1> QED
  BY <1>1, <1>2, ListKeptStep, PTL DEF ListSpec

-----------------------------------------------------------------------------
(* The cells of a notebook: who takes the mark off.                        *)

SourcesKnown ==
  /\ source \in [ChartCells -> SqlCells \cup {NoCell}]
  /\ chosen \in [ChartCells -> SqlCells \cup {NoCell}]

Marked ==
  /\ hears \in [Callers -> Cells \cup {NoCell}]
  /\ running \subseteq Cells
  /\ \A c \in running : Heard(c) \/ c \in silenced

\* Every step leaves each chart with a source in its form and a stored one, or with none.
LEMMA SourcesKnownStep ==
  ASSUME SourcesKnown, [RunsNext]_runsVars
  PROVE  SourcesKnown'
<1>1. CASE OpenNotebook
  BY <1>1 DEF OpenNotebook, SourcesKnown
<1>2. ASSUME NEW h \in ChartCells, SaveForm(h)
      PROVE  SourcesKnown'
  BY <1>2 DEF SaveForm, SourcesKnown
<1>3. ASSUME NEW h \in ChartCells, NEW s \in SqlCells, ChooseSource(h, s)
      PROVE  SourcesKnown'
  BY <1>3 DEF ChooseSource, SourcesKnown
<1>4. CASE UNCHANGED charts
  BY <1>4 DEF charts, SourcesKnown
<1> QED
  BY <1>1, <1>2, <1>3, <1>4
  DEF RunsNext, LeaveNotebook, PressPlay, ShortcutRun, AnswerHeard, AnswerUnheard,
      ClearOutput, DeleteCell, RunForm, CellDeleted, CellNotDeleted, runsVars, charts

\* A cell is not the absence of one.
LEMMA NoCellIsNone == NoCell \notin Cells
  BY NotebookRunsAssumption DEF Cells

\* Callers who send, each to run a cell, mark those cells, and whom they no longer wait for
\* is remembered.
LEMMA SendMarks ==
  ASSUME Marked, NEW starts, DOMAIN starts \subseteq Callers,
         \A b \in DOMAIN starts : starts[b] \in Cells,
         Send(starts)
  PROVE  Marked'
<1>1. /\ hears' = [b \in Callers |-> IF b \in DOMAIN starts THEN starts[b] ELSE hears[b]]
      /\ silenced' = silenced \cup ({hears[b] : b \in DOMAIN starts} \ {NoCell})
      /\ running' = running \cup {starts[b] : b \in DOMAIN starts}
  BY DEF Send
<1>2. hears' \in [Callers -> Cells \cup {NoCell}] /\ running' \subseteq Cells
  BY <1>1 DEF Marked
<1>3. ASSUME NEW c \in running'
      PROVE  (Heard(c) \/ c \in silenced)'
  <2>1. CASE \E b \in DOMAIN starts : c = starts[b]
    BY <1>1, <2>1 DEF Heard
  <2>2. CASE c \in running /\ Heard(c)
    <3>1. PICK b \in Callers : hears[b] = c
      BY <2>2 DEF Heard
    <3>2. CASE b \in DOMAIN starts
      <4>1. c # NoCell
        BY <2>2, NoCellIsNone DEF Marked
      <4> QED
        BY <1>1, <3>1, <3>2, <4>1
    <3>3. CASE b \notin DOMAIN starts
      BY <1>1, <3>1, <3>3 DEF Heard
    <3> QED
      BY <3>2, <3>3
  <2>3. CASE c \in silenced
    BY <1>1, <2>3
  <2> QED
    BY <1>1, <2>1, <2>2, <2>3 DEF Marked
<1> QED
  BY <1>2, <1>3 DEF Marked

\* One caller who sends.
LEMMA RunMarks ==
  ASSUME Marked, NEW c \in Cells, NEW b \in Callers, Run(c, b)
  PROVE  Marked'
<1> DEFINE starts == [x \in {b} |-> c]
<1>1. DOMAIN starts \subseteq Callers /\ \A x \in DOMAIN starts : starts[x] \in Cells
  OBVIOUS
<1>2. Send(starts)
  BY DEF Run
<1> HIDE DEF starts
<1> QED
  BY <1>1, <1>2, SendMarks

\* Callers who go.
LEMMA GoneMarks ==
  ASSUME Marked, NEW gone, gone \subseteq Callers, Gone(gone), running' \subseteq running
  PROVE  Marked'
<1>1. /\ hears' = [b \in Callers |-> IF b \in gone THEN NoCell ELSE hears[b]]
      /\ silenced' = silenced \cup ({hears[b] : b \in gone} \ {NoCell})
  BY DEF Gone
<1>2. hears' \in [Callers -> Cells \cup {NoCell}] /\ running' \subseteq Cells
  BY <1>1 DEF Marked
<1>3. ASSUME NEW c \in running'
      PROVE  (Heard(c) \/ c \in silenced)'
  <2>1. c # NoCell /\ c \in running
    BY NoCellIsNone DEF Marked
  <2>2. CASE Heard(c)
    <3>1. PICK b \in Callers : hears[b] = c
      BY <2>2 DEF Heard
    <3> QED
      BY <1>1, <2>1, <3>1 DEF Heard
  <2>3. CASE c \in silenced
    BY <1>1, <2>3
  <2> QED
    BY <2>1, <2>2, <2>3 DEF Marked
<1> QED
  BY <1>2, <1>3 DEF Marked

\* The callers a loaded chart has.
LEMMA LoadingCallers ==
  ASSUME NEW hs \in SUBSET ChartCells, NEW from \in [ChartCells -> SqlCells \cup {NoCell}]
  PROVE  /\ DOMAIN LoadCharts(hs, from) \subseteq Callers
         /\ \A b \in DOMAIN LoadCharts(hs, from) : LoadCharts(hs, from)[b] \in Cells
<1> DEFINE loaded == {h \in hs : from[h] # NoCell}
           dom == {Caller("source", h, "stored") : h \in loaded}
                    \cup {Caller("load", h, "stored") : h \in loaded}
<1>1. dom \subseteq Callers
  BY DEF Caller, Callers
<1>2. \A b \in dom : b.cell \in loaded /\ (b.place = "source" \/ b.place = "load")
  BY DEF Caller
<1>3. LoadCharts(hs, from)
        = [b \in dom |-> IF b.place = "source" THEN from[b.cell] ELSE b.cell]
  BY DEF LoadCharts
<1>4. \A h \in loaded : from[h] \in Cells /\ h \in Cells
  BY DEF Cells
<1> HIDE DEF loaded, dom
<1> QED
  BY <1>1, <1>2, <1>3, <1>4

\* Every step of a notebook keeps a caller for each mark, or remembers that it went.
LEMMA MarkedStep ==
  ASSUME SourcesKnown, Marked, [RunsNext]_runsVars
  PROVE  Marked'
<1>1. CASE OpenNotebook
  <2>1. Send(LoadCharts(ChartCells \cap listed, chosen)) /\ chosen' = chosen
    BY <1>1 DEF OpenNotebook
  <2>2. /\ DOMAIN LoadCharts(ChartCells \cap listed, chosen) \subseteq Callers
        /\ \A b \in DOMAIN LoadCharts(ChartCells \cap listed, chosen) :
             LoadCharts(ChartCells \cap listed, chosen)[b] \in Cells
    <3>1. ChartCells \cap listed \in SUBSET ChartCells
      OBVIOUS
    <3> QED
      BY <3>1, LoadingCallers DEF SourcesKnown
  <2> QED
    BY <2>1, <2>2, SendMarks DEF Marked
<1>2. CASE LeaveNotebook
  BY <1>2, GoneMarks DEF LeaveNotebook, charts
<1>3. ASSUME NEW c \in Cells, NEW text \in Texts, PressPlay(c, text) \/ ShortcutRun(c, text)
      PROVE  Marked'
  <2>1. CASE PressPlay(c, text)
    <3>1. Caller("toolbar", c, text) \in Callers
      BY <2>1 DEF PressPlay, Caller, Callers
    <3> QED
      BY <2>1, <3>1, RunMarks DEF PressPlay, charts, Marked
  <2>2. CASE ShortcutRun(c, text)
    <3>1. Caller("keyboard", NoCell, text) \in Callers
      BY DEF Caller, Callers
    <3> QED
      BY <2>2, <3>1, RunMarks DEF ShortcutRun, charts, Marked
  <2> QED
    BY <1>3, <2>1, <2>2
<1>4. ASSUME NEW b \in Callers, AnswerHeard(b)
      PROVE  Marked'
  <2>1. /\ hears' = [hears EXCEPT ![b] = NoCell] /\ running' = running \ {hears[b]}
        /\ silenced' = silenced \ {hears[b]} /\ chosen' = chosen
    BY <1>4 DEF AnswerHeard, charts
  <2>2. hears' \in [Callers -> Cells \cup {NoCell}] /\ running' \subseteq Cells
    BY <2>1 DEF Marked
  <2>3. ASSUME NEW c \in running'
        PROVE  (Heard(c) \/ c \in silenced)'
    BY <2>1, <2>3 DEF Marked, Heard
  <2> QED
    BY <2>1, <2>2, <2>3 DEF Marked
<1>5. ASSUME NEW c \in Cells, AnswerUnheard(c) \/ ClearOutput(c) \/ DeleteCell(c)
      PROVE  Marked'
  BY <1>5 DEF AnswerUnheard, ClearOutput, DeleteCell, charts, Marked, Heard
<1>6. ASSUME NEW h \in ChartCells, RunForm(h) \/ SaveForm(h)
      PROVE  Marked'
  <2>1. h \in Cells /\ Caller("form", h, "form") \in Callers
        /\ Caller("load", h, "stored") \in Callers
    BY DEF Caller, Callers, Cells
  <2>2. CASE RunForm(h)
    BY <2>1, <2>2, RunMarks DEF RunForm, charts, Marked
  <2>3. CASE SaveForm(h)
    <3>1. CASE Run(h, Caller("load", h, "stored"))
      BY <2>1, <3>1, RunMarks
    <3>2. CASE UNCHANGED <<running, hears, unheard, silenced>>
      BY <3>2 DEF Marked, Heard
    <3> QED
      BY <2>3, <3>1, <3>2 DEF SaveForm
  <2> QED
    BY <1>6, <2>2, <2>3
<1>7. ASSUME NEW h \in ChartCells, NEW s \in SqlCells, ChooseSource(h, s)
      PROVE  Marked'
  <2>1. s \in Cells /\ Caller("source", h, "stored") \in Callers
    BY DEF Caller, Callers, Cells
  <2> QED
    BY <1>7, <2>1, RunMarks DEF ChooseSource, Marked
<1>8. ASSUME NEW d \in deletions, CellDeleted(d) \/ CellNotDeleted(d)
      PROVE  Marked'
  <2>1. CASE CellDeleted(d)
    <3>1. CallersOf({d.cell}) \subseteq Callers
      BY DEF CallersOf
    <3> QED
      BY <2>1, <3>1, GoneMarks DEF CellDeleted, charts
  <2>2. CASE CellNotDeleted(d)
    BY <2>2 DEF CellNotDeleted, charts, Marked, Heard
  <2> QED
    BY <1>8, <2>1, <2>2
<1>9. CASE UNCHANGED runsVars
  BY <1>9 DEF runsVars, charts, Marked, Heard
<1> QED
  BY <1>1, <1>2, <1>3, <1>4, <1>5, <1>6, <1>7, <1>8, <1>9 DEF RunsNext

\* However many cells run, from wherever: a cell shown as running has a caller that will take
\* the mark off, or had one that went.
THEOREM MarkIsTakenOff == RunsSpec => []RunningHasCaller
<1>1. RunsInit => SourcesKnown /\ Marked
  BY DEF RunsInit, SourcesKnown, Marked
<1>2. Marked => RunningHasCaller
  BY DEF Marked, RunningHasCaller, OutputShown
<1> QED
  BY <1>1, <1>2, SourcesKnownStep, MarkedStep, PTL DEF RunsSpec

\* The requests under way that run a cell.
RequestsOf(c) == unheard[c] + Count(c, Callers)

\* The requests are counted, and those of one cell are no more than those of all.
Counted ==
  /\ unheard \in [Cells -> Nat]
  /\ \A c \in Cells : RequestsOf(c) <= MaxUnderWay

\* A notebook has finitely many callers.
LEMMA CallersAreFinite == IsFiniteSet(Callers) /\ IsFiniteSet(Cells)
<1> DEFINE Places == {"keyboard", "toolbar", "source", "load", "form"}
           CellOrNone == Cells \cup {NoCell}
           Ran == Texts \cup {"stored", "form"}
           All == [place : Places, cell : CellOrNone, text : Ran]
           f == [t \in (Places \X CellOrNone) \X Ran |->
                  [place |-> t[1][1], cell |-> t[1][2], text |-> t[2]]]
<1>1. IsFiniteSet(Cells)
  BY NotebookRunsAssumption, FS_Union DEF Cells
<1>2. IsFiniteSet(CellOrNone)
  BY <1>1, FS_AddElement
<1>3. IsFiniteSet(Ran)
  <2>1. IsFiniteSet(Texts \cup {"stored"})
    BY NotebookRunsAssumption, FS_AddElement
  <2>2. IsFiniteSet((Texts \cup {"stored"}) \cup {"form"})
    BY <2>1, FS_AddElement
  <2>3. (Texts \cup {"stored"}) \cup {"form"} = Ran
    OBVIOUS
  <2> QED
    BY <2>2, <2>3
<1>4. IsFiniteSet(Places)
  <2>1. IsFiniteSet({"keyboard"} \cup {"toolbar"})
    BY FS_Singleton, FS_AddElement
  <2>2. IsFiniteSet(({"keyboard"} \cup {"toolbar"}) \cup {"source"})
    BY <2>1, FS_AddElement
  <2>3. IsFiniteSet((({"keyboard"} \cup {"toolbar"}) \cup {"source"}) \cup {"load"})
    BY <2>2, FS_AddElement
  <2>4. IsFiniteSet(((({"keyboard"} \cup {"toolbar"}) \cup {"source"}) \cup {"load"}) \cup {"form"})
    BY <2>3, FS_AddElement
  <2>5. ((({"keyboard"} \cup {"toolbar"}) \cup {"source"}) \cup {"load"}) \cup {"form"} = Places
    OBVIOUS
  <2> QED
    BY <2>4, <2>5
<1>5. IsFiniteSet((Places \X CellOrNone) \X Ran)
  BY <1>2, <1>3, <1>4, FS_Product
<1>6. f \in Surjection((Places \X CellOrNone) \X Ran, All)
  <2> HIDE DEF Places, CellOrNone, Ran
  <2>1. f \in [(Places \X CellOrNone) \X Ran -> All]
    OBVIOUS
  <2>2. ASSUME NEW b \in All PROVE \E t \in (Places \X CellOrNone) \X Ran : f[t] = b
    <3> DEFINE t == <<<<b.place, b.cell>>, b.text>>
    <3>1. t \in (Places \X CellOrNone) \X Ran
          /\ b = [place |-> b.place, cell |-> b.cell, text |-> b.text]
      OBVIOUS
    <3>2. f[t] = [place |-> b.place, cell |-> b.cell, text |-> b.text]
      BY <3>1
    <3> QED
      BY <3>1, <3>2
  <2> QED
    BY <2>1, <2>2 DEF Surjection
<1>7. IsFiniteSet(All)
  <2> HIDE DEF f, All, Places, CellOrNone, Ran
  <2> QED
    BY <1>5, <1>6, FS_Surjection
<1>8. Callers \in SUBSET All
  BY DEF Callers, Cells
<1> HIDE DEF All
<1> QED
  BY <1>1, <1>7, <1>8, FS_Subset

\* Callers are counted with some and without them.
LEMMA CountSplits ==
  ASSUME NEW c, NEW gone \in SUBSET Callers
  PROVE  /\ Count(c, gone) \in Nat /\ Count(c, Callers \ gone) \in Nat
         /\ Count(c, Callers) = Count(c, gone) + Count(c, Callers \ gone)
         /\ Count(c, Callers) \in Nat
<1> DEFINE A == {b \in gone : hears[b] = c}
           B == {b \in Callers \ gone : hears[b] = c}
<1>1. A \in SUBSET Callers /\ B \in SUBSET Callers /\ A \cap B = {}
      /\ A \cup B = {b \in Callers : hears[b] = c}
  OBVIOUS
<1>2. IsFiniteSet(A) /\ IsFiniteSet(B)
  BY <1>1, CallersAreFinite, FS_Subset
<1>3. Cardinality(A) \in Nat /\ Cardinality(B) \in Nat /\ Cardinality({}) = 0
  BY <1>2, FS_CardinalityType, FS_EmptySet
<1>4. /\ Count(c, gone) = Cardinality(A) /\ Count(c, Callers \ gone) = Cardinality(B)
      /\ Count(c, Callers) = Cardinality(A \cup B)
  <2>1. Count(c, gone) = Cardinality(A)
    BY Zenon DEF Count
  <2>2. Count(c, Callers \ gone) = Cardinality(B)
    BY Zenon DEF Count
  <2>3. Count(c, Callers) = Cardinality({b \in Callers : hears[b] = c})
    BY Zenon DEF Count
  <2> HIDE DEF A, B
  <2> QED
    BY <1>1, <2>1, <2>2, <2>3
<1> HIDE DEF A, B
<1>5. Cardinality(A \cup B) = Cardinality(A) + Cardinality(B) - Cardinality(A \cap B)
  BY <1>2, FS_Union
<1>6. Cardinality(A \cup B) = Cardinality(A) + Cardinality(B)
  <2>1. A \cap B = {}
    BY <1>1
  <2>2. Cardinality(A \cap B) = 0
    BY <2>1, <1>3
  <2> QED
    BY <1>3, <1>5, <2>2
<1> QED
  BY <1>3, <1>4, <1>6

\* Callers who go leave a request each that nobody hears of: as many as before are under way.
LEMMA GoneCounts ==
  ASSUME Marked, Counted, NEW gone \in SUBSET Callers, Gone(gone)
  PROVE  Counted'
<1>1. unheard' = [c \in Cells |-> unheard[c] + Count(c, gone)]
      /\ hears' = [b \in Callers |-> IF b \in gone THEN NoCell ELSE hears[b]]
  BY DEF Gone
<1>2. \A c \in Cells : Count(c, gone) \in Nat
  BY CountSplits
<1>3. unheard' \in [Cells -> Nat]
  BY <1>1, <1>2 DEF Counted
<1>4. ASSUME NEW c \in Cells PROVE RequestsOf(c)' <= MaxUnderWay
  <2>1. {b \in Callers : hears'[b] = c} = {b \in Callers \ gone : hears[b] = c}
    BY <1>1, NoCellIsNone
  <2>2. Count(c, Callers)' = Count(c, Callers \ gone)
    BY <2>1 DEF Count
  <2>3. unheard'[c] = unheard[c] + Count(c, gone) /\ unheard[c] \in Nat
    BY <1>1 DEF Counted
  <2>4. RequestsOf(c)' = RequestsOf(c)
    BY <2>2, <2>3, CountSplits DEF RequestsOf
  <2> QED
    BY <2>4 DEF Counted
<1> QED
  BY <1>3, <1>4 DEF Counted

\* The requests of a cell are among those under way.
LEMMA CountedAmongAll ==
  ASSUME Marked, Counted, NEW c \in Cells
  PROVE  HowMany \in Nat /\ RequestsOf(c) <= HowMany
<1>0. unheard[c] \in Nat /\ Count(c, Callers) \in Nat /\ unheard[c] <= MaxUnderWay
      /\ MaxUnderWay \in Nat
  <2>1. Count(c, Callers) \in Nat /\ unheard[c] \in Nat /\ MaxUnderWay \in Nat
    BY CountSplits, NotebookRunsAssumption DEF Counted
  <2> QED
    BY <2>1 DEF Counted, RequestsOf
<1>1. IsFiniteSet(Waiting) /\ Cardinality(Waiting) \in Nat
  <2>1. Waiting \in SUBSET Callers
    BY DEF Waiting
  <2> QED
    BY <2>1, CallersAreFinite, FS_Subset, FS_CardinalityType
<1>2. Count(c, Callers) <= Cardinality(Waiting)
  <2>1. {b \in Callers : hears[b] = c} \in SUBSET Waiting
    BY NoCellIsNone DEF Waiting
  <2> QED
    BY <1>1, <2>1, FS_Subset DEF Count
<1>3. IsFiniteSet(Forgotten) /\ Cardinality(Forgotten) \in Nat
  <2>1. Forgotten \in SUBSET (Cells \X (1 .. MaxUnderWay))
    BY DEF Forgotten
  <2>2. IsFiniteSet(1 .. MaxUnderWay)
    BY <1>0, FS_Interval
  <2>3. IsFiniteSet(Cells \X (1 .. MaxUnderWay))
    BY <2>2, CallersAreFinite, FS_Product
  <2> QED
    BY <2>1, <2>3, FS_Subset, FS_CardinalityType
<1>4. unheard[c] <= Cardinality(Forgotten)
  <2>1. {c} \X (1 .. unheard[c]) \in SUBSET Forgotten
    <3> SUFFICES ASSUME NEW n \in 1 .. unheard[c]
                 PROVE  <<c, n>> \in Forgotten
      OBVIOUS
    <3>1. n \in 1 .. MaxUnderWay /\ n <= unheard[c]
      BY <1>0
    <3> QED
      BY <3>1 DEF Forgotten
  <2>2. IsFiniteSet(1 .. unheard[c]) /\ Cardinality(1 .. unheard[c]) = unheard[c]
    <3>1. \A n \in Nat : IsFiniteSet(1 .. n) /\ Cardinality(1 .. n) = n
      BY FS_Interval
    <3> QED
      BY <1>0, <3>1
  <2>3. IsFiniteSet({c}) /\ Cardinality({c}) = 1
    BY FS_Singleton
  <2>4. Cardinality({c} \X (1 .. unheard[c])) = 1 * unheard[c]
    BY <2>2, <2>3, FS_Product
  <2> QED
    BY <1>0, <1>3, <2>1, <2>4, FS_Subset
<1> QED
  BY <1>0, <1>1, <1>2, <1>3, <1>4 DEF HowMany, RequestsOf

\* Callers who send stay within the bound.
LEMMA SendCounts ==
  ASSUME Marked, Counted, NEW starts, DOMAIN starts \in SUBSET Callers, Send(starts)
  PROVE  Counted'
<1> DEFINE D == DOMAIN starts
<1>1. /\ unheard' = [c \in Cells |-> unheard[c] + Count(c, D)]
      /\ hears' = [b \in Callers |-> IF b \in D THEN starts[b] ELSE hears[b]]
      /\ HowMany + Cardinality(D) <= MaxUnderWay
  BY DEF Send
<1>2. IsFiniteSet(D) /\ Cardinality(D) \in Nat
  BY CallersAreFinite, FS_Subset, FS_CardinalityType
<1> HIDE DEF D
<1>3. D \in SUBSET Callers
  BY DEF D
<1>4. \A c \in Cells : Count(c, D) \in Nat
  BY <1>3, CountSplits
<1>5. unheard' \in [Cells -> Nat]
  BY <1>1, <1>4 DEF Counted
<1>6. ASSUME NEW c \in Cells PROVE RequestsOf(c)' <= MaxUnderWay
  <2> DEFINE Old == {b \in Callers \ D : hears[b] = c}
             New == {b \in Callers : hears'[b] = c}
  <2>1. New \in SUBSET (Old \cup D)
    BY <1>1
  <2>2. IsFiniteSet(Old) /\ Cardinality(Old) = Count(c, Callers \ D)
    <3>1. Old \in SUBSET Callers
      OBVIOUS
    <3> QED
      BY <3>1, CallersAreFinite, FS_Subset DEF Count
  <2>3. Cardinality(Old) \in Nat /\ IsFiniteSet(Old \cup D)
    BY <1>2, <2>2, FS_CardinalityType, FS_Union
  <2>4. Cardinality(Old \cup D) = Cardinality(Old) + Cardinality(D) - Cardinality(Old \cap D)
        /\ Cardinality(Old \cap D) \in Nat
    BY <1>2, <2>2, FS_Union, FS_Intersection, FS_CardinalityType
  <2>5. Cardinality(New) <= Cardinality(Old \cup D) /\ Cardinality(New) \in Nat
    BY <2>1, <2>3, FS_Subset, FS_CardinalityType
  <2> HIDE DEF Old
  <2>6. Count(c, Callers)' <= Count(c, Callers \ D) + Cardinality(D) /\ Count(c, Callers)' \in Nat
    BY <1>2, <2>2, <2>3, <2>4, <2>5 DEF Count
  <2>7. unheard'[c] = unheard[c] + Count(c, D) /\ unheard[c] \in Nat /\ unheard'[c] \in Nat
    BY <1>1, <1>5 DEF Counted
  <2>8. /\ Count(c, D) \in Nat /\ Count(c, Callers \ D) \in Nat
        /\ Count(c, Callers) = Count(c, D) + Count(c, Callers \ D)
    BY <1>3, CountSplits
  <2>9. HowMany \in Nat /\ unheard[c] + Count(c, Callers) <= HowMany
    BY CountedAmongAll DEF RequestsOf
  <2>10. unheard'[c] + Count(c, Callers)' <= HowMany + Cardinality(D)
    BY <1>2, <2>6, <2>7, <2>8, <2>9
  <2> QED
    BY <1>1, <1>2, <2>6, <2>7, <2>9, <2>10, NotebookRunsAssumption DEF RequestsOf
<1> QED
  BY <1>5, <1>6 DEF Counted

\* One caller who sends stays within the bound.
LEMMA RunCounts ==
  ASSUME Marked, Counted, NEW c \in Cells, NEW b \in Callers, Run(c, b)
  PROVE  Counted'
<1> DEFINE starts == [x \in {b} |-> c]
<1>1. DOMAIN starts \in SUBSET Callers
  OBVIOUS
<1>2. Send(starts)
  BY DEF Run
<1> HIDE DEF starts
<1> QED
  BY <1>1, <1>2, SendCounts

\* Every step of a notebook stays within the bound on requests.
LEMMA CountedStep ==
  ASSUME SourcesKnown, Marked, Counted, [RunsNext]_runsVars
  PROVE  Counted'
<1>1. CASE OpenNotebook
  <2>1. Send(LoadCharts(ChartCells \cap listed, chosen))
    BY <1>1 DEF OpenNotebook
  <2>2. DOMAIN LoadCharts(ChartCells \cap listed, chosen) \in SUBSET Callers
    <3>1. ChartCells \cap listed \in SUBSET ChartCells
      OBVIOUS
    <3> QED
      BY <3>1, LoadingCallers DEF SourcesKnown
  <2> QED
    BY <2>1, <2>2, SendCounts
<1>2. CASE LeaveNotebook
  BY <1>2, GoneCounts DEF LeaveNotebook
<1>3. ASSUME NEW c \in Cells, NEW text \in Texts, PressPlay(c, text) \/ ShortcutRun(c, text)
      PROVE  Counted'
  <2>1. CASE PressPlay(c, text)
    <3>1. Caller("toolbar", c, text) \in Callers
      BY <2>1 DEF PressPlay, Caller, Callers
    <3> QED
      BY <2>1, <3>1, RunCounts DEF PressPlay
  <2>2. CASE ShortcutRun(c, text)
    <3>1. Caller("keyboard", NoCell, text) \in Callers
      BY DEF Caller, Callers
    <3> QED
      BY <2>2, <3>1, RunCounts DEF ShortcutRun
  <2> QED
    BY <1>3, <2>1, <2>2
<1>4. ASSUME NEW b \in Callers, AnswerHeard(b)
      PROVE  Counted'
  <2>1. unheard' = unheard /\ hears' = [hears EXCEPT ![b] = NoCell]
    BY <1>4 DEF AnswerHeard
  <2>2. SUFFICES ASSUME NEW c \in Cells
                 PROVE  RequestsOf(c)' <= MaxUnderWay
    BY <2>1 DEF Counted
  <2>3. {x \in Callers : hears'[x] = c} \in SUBSET {x \in Callers : hears[x] = c}
    BY <2>1, NoCellIsNone DEF Marked
  <2>4. IsFiniteSet({x \in Callers : hears[x] = c})
    BY CallersAreFinite, FS_Subset
  <2>5. Count(c, Callers)' <= Count(c, Callers) /\ Count(c, Callers)' \in Nat
        /\ Count(c, Callers) \in Nat
    BY <2>3, <2>4, FS_Subset, FS_CardinalityType DEF Count
  <2>6. unheard[c] \in Nat /\ unheard[c] + Count(c, Callers) <= MaxUnderWay /\ MaxUnderWay \in Nat
    BY NotebookRunsAssumption DEF Counted, RequestsOf
  <2> QED
    BY <2>1, <2>5, <2>6 DEF RequestsOf
<1>5. ASSUME NEW c \in Cells, AnswerUnheard(c)
      PROVE  Counted'
  <2>1. hears' = hears /\ unheard' = [unheard EXCEPT ![c] = @ - 1] /\ unheard[c] > 0
    BY <1>5 DEF AnswerUnheard
  <2>2. unheard' \in [Cells -> Nat] /\ \A d \in Cells : unheard'[d] <= unheard[d]
    BY <2>1 DEF Counted
  <2>3. SUFFICES ASSUME NEW d \in Cells
                 PROVE  RequestsOf(d)' <= MaxUnderWay
    BY <2>2 DEF Counted
  <2>4. Count(d, Callers)' = Count(d, Callers)
    BY <2>1 DEF Count
  <2>5. Count(d, Callers) \in Nat
    BY CountSplits
  <2>6. unheard[d] \in Nat /\ unheard[d] + Count(d, Callers) <= MaxUnderWay /\ MaxUnderWay \in Nat
    BY NotebookRunsAssumption DEF Counted, RequestsOf
  <2> QED
    BY <2>2, <2>4, <2>5, <2>6 DEF RequestsOf
<1>6. ASSUME NEW h \in ChartCells, RunForm(h) \/ SaveForm(h)
      PROVE  Counted'
  <2>1. h \in Cells /\ Caller("form", h, "form") \in Callers
        /\ Caller("load", h, "stored") \in Callers
    BY DEF Caller, Callers, Cells
  <2>2. CASE RunForm(h)
    BY <2>1, <2>2, RunCounts DEF RunForm
  <2>3. CASE SaveForm(h)
    <3>1. CASE Run(h, Caller("load", h, "stored"))
      BY <2>1, <3>1, RunCounts
    <3>2. CASE UNCHANGED <<running, hears, unheard, silenced>>
      BY <3>2 DEF Counted, RequestsOf, Count
    <3> QED
      BY <2>3, <3>1, <3>2 DEF SaveForm
  <2> QED
    BY <1>6, <2>2, <2>3
<1>7. ASSUME NEW h \in ChartCells, NEW s \in SqlCells, ChooseSource(h, s)
      PROVE  Counted'
  <2>1. s \in Cells /\ Caller("source", h, "stored") \in Callers
    BY DEF Caller, Callers, Cells
  <2> QED
    BY <1>7, <2>1, RunCounts DEF ChooseSource
<1>8. ASSUME NEW d \in deletions, CellDeleted(d)
      PROVE  Counted'
  <2>1. CallersOf({d.cell}) \in SUBSET Callers
    BY DEF CallersOf
  <2> QED
    BY <1>8, <2>1, GoneCounts DEF CellDeleted
<1>9. CASE UNCHANGED <<hears, unheard>>
  BY <1>9 DEF Counted, RequestsOf, Count
<1> QED
  BY <1>1, <1>2, <1>3, <1>4, <1>5, <1>6, <1>7, <1>8, <1>9
  DEF RunsNext, ClearOutput, DeleteCell, CellNotDeleted, runsVars

\* Who may send, on whose behalf.
LEMMA RunsMaySend ==
  ASSUME [RunsNext]_runsVars
  PROVE  \/ OpenNotebook \/ LeaveNotebook \/ \E d \in deletions : CellDeleted(d)
         \/ \E c \in Cells, b \in Callers : Run(c, b)
         \/ silenced' \subseteq silenced
<1>1. ASSUME NEW c \in Cells, NEW text \in Texts, PressPlay(c, text) \/ ShortcutRun(c, text)
      PROVE  \E b \in Callers : Run(c, b)
  <2>1. c \in SqlCells => Caller("toolbar", c, text) \in Callers
    BY DEF Caller, Callers
  <2>2. Caller("keyboard", NoCell, text) \in Callers
    BY DEF Caller, Callers
  <2> QED
    BY <1>1, <2>1, <2>2 DEF PressPlay, ShortcutRun
<1>2. ASSUME NEW h \in ChartCells, RunForm(h) \/ SaveForm(h)
      PROVE  (\E b \in Callers : Run(h, b)) \/ silenced' = silenced
  <2>1. Caller("form", h, "form") \in Callers /\ Caller("load", h, "stored") \in Callers
    BY DEF Caller, Callers
  <2> QED
    BY <1>2, <2>1 DEF RunForm, SaveForm
<1>3. ASSUME NEW h \in ChartCells, NEW s \in SqlCells, ChooseSource(h, s)
      PROVE  \E b \in Callers : Run(s, b)
  <2>1. Caller("source", h, "stored") \in Callers
    BY DEF Caller, Callers
  <2> QED
    BY <1>3, <2>1 DEF ChooseSource
<1>4. ChartCells \subseteq Cells /\ SqlCells \subseteq Cells
  BY DEF Cells
<1> QED
  BY <1>1, <1>2, <1>3, <1>4
  DEF RunsNext, AnswerHeard, AnswerUnheard, ClearOutput, DeleteCell, CellNotDeleted, runsVars

\* What else a notebook keeps: the cells listed, with outputs, silenced and to be deleted.
CellsKnown ==
  /\ mounted \in BOOLEAN
  /\ outputs \subseteq Cells /\ listed \subseteq Cells /\ silenced \subseteq Cells
  /\ deletions \subseteq [cell : Cells, heard : BOOLEAN]

\* Every step of a notebook keeps to its cells.
LEMMA CellsKnownStep ==
  ASSUME SourcesKnown, Marked, CellsKnown, [RunsNext]_runsVars
  PROVE  CellsKnown'
<1> USE DEF CellsKnown
<1>0. hears \in [Callers -> Cells \cup {NoCell}]
  BY DEF Marked
<1>1. mounted' \in BOOLEAN
  BY DEF RunsNext, OpenNotebook, LeaveNotebook, PressPlay, ShortcutRun, RunForm, AnswerHeard,
         AnswerUnheard, ClearOutput, ChooseSource, SaveForm, DeleteCell, CellDeleted,
         CellNotDeleted, runsVars
<1>2. listed' \subseteq listed
  BY DEF RunsNext, OpenNotebook, LeaveNotebook, PressPlay, ShortcutRun, RunForm, AnswerHeard,
         AnswerUnheard, ClearOutput, ChooseSource, SaveForm, DeleteCell, CellDeleted,
         CellNotDeleted, runsVars
<1>3. outputs' \subseteq Cells
  <2>1. CASE outputs' \subseteq outputs
    BY <2>1
  <2>2. ASSUME NEW b \in Callers, AnswerHeard(b)
        PROVE  outputs' \subseteq Cells
    BY <1>0, <2>2 DEF AnswerHeard
  <2>3. ASSUME NEW c \in Cells, AnswerUnheard(c)
        PROVE  outputs' \subseteq Cells
    BY <2>3 DEF AnswerUnheard
  <2> QED
    BY <2>1, <2>2, <2>3
    DEF RunsNext, OpenNotebook, LeaveNotebook, PressPlay, ShortcutRun, RunForm, ClearOutput,
        ChooseSource, SaveForm, DeleteCell, CellDeleted, CellNotDeleted, runsVars
<1>4. silenced' \subseteq Cells
  <2>1. ASSUME NEW gone \in SUBSET Callers,
               silenced' = silenced \cup ({hears[b] : b \in gone} \ {NoCell})
        PROVE  silenced' \subseteq Cells
    BY <1>0, <2>1
  <2>2. ASSUME NEW c \in Cells, NEW b \in Callers, Run(c, b)
        PROVE  silenced' \subseteq Cells
    BY <1>0, <2>2 DEF Run, Send
  <2>3. CASE OpenNotebook
    <3>1. ChartCells \cap listed \in SUBSET ChartCells
      OBVIOUS
    <3>2. DOMAIN LoadCharts(ChartCells \cap listed, chosen) \in SUBSET Callers
      BY <3>1, LoadingCallers DEF SourcesKnown
    <3> QED
      BY <2>1, <2>3, <3>2 DEF OpenNotebook, Send
  <2>4. CASE LeaveNotebook
    BY <2>1, <2>4 DEF LeaveNotebook, Gone
  <2>5. ASSUME NEW d \in deletions, CellDeleted(d)
        PROVE  silenced' \subseteq Cells
    <3>1. CallersOf({d.cell}) \in SUBSET Callers
      BY DEF CallersOf
    <3> QED
      BY <2>1, <2>5, <3>1 DEF CellDeleted, Gone
  <2>6. CASE silenced' \subseteq silenced
    BY <2>6
  <2> QED
    BY <2>2, <2>3, <2>4, <2>5, <2>6, RunsMaySend
<1>5. deletions' \subseteq [cell : Cells, heard : BOOLEAN]
  <2>1. CASE LeaveNotebook
    BY <2>1 DEF LeaveNotebook
  <2>2. ASSUME NEW c \in Cells, DeleteCell(c)
        PROVE  deletions' \subseteq [cell : Cells, heard : BOOLEAN]
    <3>1. [cell |-> c, heard |-> TRUE] \in [cell : Cells, heard : BOOLEAN]
      OBVIOUS
    <3> QED
      BY <2>2, <3>1 DEF DeleteCell
  <2>3. CASE deletions' \subseteq deletions
    BY <2>3
  <2> QED
    BY <2>1, <2>2, <2>3
    DEF RunsNext, OpenNotebook, PressPlay, ShortcutRun, RunForm, AnswerHeard, AnswerUnheard,
        ClearOutput, ChooseSource, SaveForm, CellDeleted, CellNotDeleted, runsVars
<1> QED
  BY <1>1, <1>2, <1>3, <1>4, <1>5

\* The cells of a notebook start well typed and stay so.
LEMMA RunsTypes == RunsSpec => []RunsTypeOK
<1>1. RunsInit => SourcesKnown /\ Marked /\ CellsKnown
  BY DEF RunsInit, SourcesKnown, Marked, CellsKnown
<1>2. RunsInit => Counted
  <2>0. RunsInit => unheard \in [Cells -> Nat]
    BY DEF RunsInit
  <2> SUFFICES ASSUME RunsInit, NEW c \in Cells PROVE RequestsOf(c) <= MaxUnderWay
    BY <2>0 DEF Counted
  <2>1. hears = [b \in Callers |-> NoCell] /\ unheard[c] = 0
    BY DEF RunsInit
  <2>2. {b \in Callers : hears[b] = c} = {}
    BY <2>1, NoCellIsNone
  <2>3. Count(c, Callers) = 0
    BY <2>2, FS_EmptySet DEF Count
  <2> QED
    BY <2>1, <2>3, NotebookRunsAssumption DEF RequestsOf
<1>3. SourcesKnown /\ Marked /\ CellsKnown /\ Counted => RunsTypeOK
  <2> SUFFICES ASSUME SourcesKnown, Marked, CellsKnown, Counted
               PROVE  unheard \in [Cells -> 0 .. MaxUnderWay]
    BY DEF SourcesKnown, Marked, CellsKnown, RunsTypeOK
  <2>1. ASSUME NEW c \in Cells PROVE unheard[c] \in 0 .. MaxUnderWay
    <3>1. Count(c, Callers) \in Nat
      BY CountSplits
    <3>2. unheard[c] \in Nat /\ unheard[c] + Count(c, Callers) <= MaxUnderWay /\ MaxUnderWay \in Nat
      BY NotebookRunsAssumption DEF Counted, RequestsOf
    <3> QED
      BY <3>1, <3>2
  <2> QED
    BY <2>1 DEF Counted
<1> QED
  BY <1>1, <1>2, <1>3, SourcesKnownStep, MarkedStep, CellsKnownStep, CountedStep, PTL
  DEF RunsSpec

-----------------------------------------------------------------------------
(* Editing in place: the last value given is the one that is stored.       *)

\* A value brought by a save is a row.
LEMMA PayloadIsRow ==
  ASSUME RowTypeOK, NEW f \in Fields, NEW v \in 0 .. MaxEdits
  PROVE  /\ Payload(f, v) \in RowValues
         /\ Payload(f, v)[f] = v
         /\ \A g \in Fields \ {f} : Payload(f, v)[g] = cached[g]
BY DEF RowTypeOK, RowValues, Payload

\* Every step of the editing of a row keeps the types.
LEMMA RowTypeStep ==
  ASSUME RowTypeOK, [RowNext]_editingVars
  PROVE  RowTypeOK'
<1> USE DEF RowTypeOK
<1>1. ASSUME NEW f \in Fields, NEW v \in 0 .. MaxEdits, Save(f, v)
      PROVE  puts' \subseteq Puts /\ strayedRow' \in BOOLEAN
  <2>1. [payload |-> Payload(f, v), written |-> FALSE] \in Puts
    BY PayloadIsRow DEF Puts
  <2> QED
    BY <1>1, <2>1 DEF Save
<1>2. "typed" \in Fields /\ "set" \in Fields
  BY DEF Fields
<1>3. CASE Type
  <2>1. count + 1 \in 0 .. MaxEdits
    BY <1>3, RowEditingAssumption DEF Type
  <2>2. given' \in RowValues
    BY <1>2, <1>3, <2>1 DEF Type, RowValues
  <2> QED
    BY <1>3, <2>1, <2>2 DEF Type
<1>4. CASE Typed300msAgo
  BY <1>1, <1>2, <1>4 DEF Typed300msAgo
<1>5. ASSUME NEW f \in Fields, SetField(f)
      PROVE  RowTypeOK'
  <2>1. count + 1 \in 0 .. MaxEdits
    BY <1>5, RowEditingAssumption DEF SetField
  <2>2. given' \in RowValues
    BY <1>5, <2>1 DEF SetField, RowValues
  <2> QED
    BY <1>1, <1>5, <2>1, <2>2 DEF SetField
<1>6. ASSUME NEW u \in puts, PutWritten(u) \/ PutAnswered(u) \/ PutFails(u)
      PROVE  RowTypeOK'
  <2>1. u.payload \in RowValues /\ [u EXCEPT !.written = TRUE] \in Puts
    BY DEF Puts
  <2> QED
    BY <1>6, <2>1 DEF PutWritten, PutAnswered, PutFails
<1>7. CASE ReturnToRow
  <2>1. cached["typed"] \in 0 .. MaxEdits
    BY <1>2 DEF RowValues
  <2> QED
    BY <1>7, <2>1 DEF ReturnToRow
<1>8. CASE Refetch \/ FetchRead \/ FetchAnswered \/ LeaveRow \/ UNCHANGED editingVars
  BY <1>8 DEF Refetch, FetchRead, FetchAnswered, LeaveRow, editingVars
<1> QED
  BY <1>3, <1>4, <1>5, <1>6, <1>7, <1>8 DEF RowNext

\* The editing of a row starts well typed and stays so.
LEMMA RowTypesKept == RowSpec => []RowTypeOK
<1>1. RowInit => RowTypeOK
  <2>1. 0 \in 0 .. MaxEdits
    BY RowEditingAssumption
  <2>2. [f \in Fields |-> 0] \in RowValues
    BY <2>1 DEF RowValues
  <2> QED
    BY <2>1, <2>2 DEF RowInit, RowTypeOK
<1> QED
  BY <1>1, RowTypeStep, PTL DEF RowSpec

OneSaveAtATime == \A u, v \in puts : u = v

\* With no save under way, the row has what was given but for what waits to be saved, and
\* whatever is about to be shown is the row.
AtRest ==
  puts = {} => /\ cached = row
               /\ row["set"] = given["set"]
               /\ ~due => row["typed"] = given["typed"]
               /\ fetching = "read" => fetched = row

\* A save under way brings what was given.
SavesBringIt ==
  \A u \in puts : /\ u.payload["set"] = given["set"]
                  /\ ~due => u.payload["typed"] = given["typed"]
                  /\ u.written => row = u.payload

EditorShowsIt == kind = "cell" /\ opened => editor = given["typed"]

RowKept ==
  /\ due => opened /\ kind = "cell"
  /\ ~strayedRow => OneSaveAtATime /\ AtRest /\ SavesBringIt /\ EditorShowsIt

\* A save sent when none is under way brings the row at rest with the one field changed.
LEMMA FirstSave ==
  ASSUME RowTypeOK, RowKept, NEW f \in Fields, NEW v \in 0 .. MaxEdits, Save(f, v), ~strayedRow'
  PROVE  /\ ~strayedRow /\ puts = {}
         /\ puts' = {[payload |-> Payload(f, v), written |-> FALSE]}
         /\ Payload(f, v)[f] = v
         /\ \A g \in Fields \ {f} : Payload(f, v)[g] = row[g]
<1>1. ~strayedRow /\ puts = {} /\ puts' = {[payload |-> Payload(f, v), written |-> FALSE]}
  BY DEF Save
<1>2. cached = row
  BY <1>1 DEF RowKept, AtRest
<1> QED
  BY <1>1, <1>2, PayloadIsRow

\* Every step keeps the promise, or remembers that an edit strayed.
LEMMA RowKeptStep ==
  ASSUME RowTypeOK, RowKept, [RowNext]_editingVars
  PROVE  RowKept'
<1> USE DEF RowKept
<1> DEFINE Kept == OneSaveAtATime /\ AtRest /\ SavesBringIt /\ EditorShowsIt
<1>0. "typed" \in Fields /\ "set" \in Fields /\ Fields = {"typed", "set"}
  BY DEF Fields
<1>1. CASE Type
  <2>1. /\ given'["set"] = given["set"] /\ given'["typed"] = editor' /\ due' /\ opened'
        /\ kind' = "cell" /\ puts' = puts /\ row' = row /\ cached' = cached
        /\ fetching' = fetching /\ fetched' = fetched /\ strayedRow' = strayedRow
    BY <1>0, <1>1 DEF Type, RowTypeOK, RowValues
  <2> QED
    BY <2>1 DEF OneSaveAtATime, AtRest, SavesBringIt, EditorShowsIt
<1>2. CASE Typed300msAgo
  <2>1. ~due' /\ UNCHANGED <<kind, row, cached, fetching, fetched, opened, editor, given>>
        /\ Save("typed", editor) /\ due
    BY <1>2 DEF Typed300msAgo
  <2>2. SUFFICES ASSUME ~strayedRow'
                 PROVE  Kept'
    BY <2>1
  <2>3. editor \in 0 .. MaxEdits
    BY DEF RowTypeOK
  <2>4. /\ ~strayedRow /\ puts = {}
        /\ puts' = {[payload |-> Payload("typed", editor), written |-> FALSE]}
        /\ Payload("typed", editor)["typed"] = editor
        /\ Payload("typed", editor)["set"] = row["set"]
    BY <1>0, <2>1, <2>2, <2>3, FirstSave
  <2>5. row["set"] = given["set"] /\ editor = given["typed"]
    BY <2>1, <2>4 DEF AtRest, EditorShowsIt
  <2>6. \A u \in puts' : u.payload = Payload("typed", editor) /\ ~u.written
    BY <2>4
  <2>7. OneSaveAtATime' /\ AtRest'
    BY <2>4 DEF OneSaveAtATime, AtRest
  <2>8. SavesBringIt'
    BY <2>1, <2>4, <2>5, <2>6 DEF SavesBringIt
  <2>9. EditorShowsIt'
    BY <2>1, <2>5 DEF EditorShowsIt
  <2> QED
    BY <2>7, <2>8, <2>9
<1>3. ASSUME NEW f \in Fields, SetField(f)
      PROVE  RowKept'
  <2>1. /\ UNCHANGED <<kind, row, cached, fetching, fetched, opened, editor, due>>
        /\ given' = [given EXCEPT ![f] = count + 1] /\ Save(f, count + 1)
        /\ kind = "cell" => f = "set"
    BY <1>3 DEF SetField
  <2>2. SUFFICES ASSUME ~strayedRow'
                 PROVE  Kept'
    BY <2>1
  <2>3. count + 1 \in 0 .. MaxEdits
    BY <1>3, RowEditingAssumption DEF SetField, RowTypeOK
  <2>4. /\ ~strayedRow /\ puts = {}
        /\ puts' = {[payload |-> Payload(f, count + 1), written |-> FALSE]}
        /\ Payload(f, count + 1)[f] = count + 1
        /\ \A g \in Fields \ {f} : Payload(f, count + 1)[g] = row[g]
    BY <2>1, <2>2, <2>3, FirstSave
  <2>5. given'[f] = count + 1 /\ \A g \in Fields \ {f} : given'[g] = given[g]
    BY <2>1 DEF RowTypeOK, RowValues
  <2>6. \A u \in puts' : u.payload = Payload(f, count + 1) /\ ~u.written
    BY <2>4
  <2>7. OneSaveAtATime' /\ AtRest'
    BY <2>4 DEF OneSaveAtATime, AtRest
  <2>8. row["set"] = given["set"] /\ (~due => row["typed"] = given["typed"])
    BY <2>4 DEF AtRest
  <2>9. Payload(f, count + 1)["set"] = given'["set"]
        /\ (~due => Payload(f, count + 1)["typed"] = given'["typed"])
    BY <1>0, <2>4, <2>5, <2>8
  <2>10. SavesBringIt'
    BY <2>1, <2>6, <2>9 DEF SavesBringIt
  <2>11. kind = "cell" => given'["typed"] = given["typed"]
    BY <1>0, <2>1, <2>5
  <2>12. EditorShowsIt'
    BY <2>1, <2>4, <2>11 DEF EditorShowsIt
  <2> QED
    BY <2>7, <2>10, <2>12
<1>4. ASSUME NEW u \in puts, PutWritten(u)
      PROVE  RowKept'
  <2>1. /\ row' = u.payload /\ puts' = (puts \ {u}) \cup {[u EXCEPT !.written = TRUE]}
        /\ UNCHANGED <<kind, cached, fetching, fetched, opened, editor, due, given, strayedRow>>
    BY <1>4 DEF PutWritten
  <2>2. SUFFICES ASSUME ~strayedRow
                 PROVE  Kept'
    BY <2>1
  <2>3. puts = {u}
    BY <2>2 DEF OneSaveAtATime
  <2>4. [u EXCEPT !.written = TRUE].payload = u.payload
    BY DEF RowTypeOK, Puts
  <2> QED
    BY <2>1, <2>2, <2>3, <2>4 DEF OneSaveAtATime, AtRest, SavesBringIt, EditorShowsIt
<1>5. ASSUME NEW u \in puts, PutAnswered(u)
      PROVE  RowKept'
  <2>1. /\ u.written /\ puts' = puts \ {u} /\ cached' = u.payload
        /\ fetching' = (IF opened /\ kind = "cell" THEN "sent" ELSE fetching)
        /\ strayedRow' = (strayedRow \/ (/\ ~(opened /\ kind = "cell")
                                        /\ fetching = "read" /\ fetched # row))
        /\ UNCHANGED <<kind, row, fetched, opened, editor, due, given>>
    BY <1>5 DEF PutAnswered
  <2>2. SUFFICES ASSUME ~strayedRow'
                 PROVE  Kept'
    BY <2>1
  <2>3. ~strayedRow /\ puts = {u}
    BY <2>1, <2>2 DEF OneSaveAtATime
  <2>4. fetching' = "read" => fetched' = row'
    BY <2>1, <2>2
  <2> QED
    BY <2>1, <2>3, <2>4 DEF OneSaveAtATime, AtRest, SavesBringIt, EditorShowsIt
<1>6. ASSUME NEW u \in puts, PutFails(u)
      PROVE  RowKept'
  BY <1>6 DEF PutFails
<1>7. CASE Refetch \/ FetchRead \/ FetchAnswered
  BY <1>7
  DEF Refetch, FetchRead, FetchAnswered, OneSaveAtATime, AtRest, SavesBringIt, EditorShowsIt
<1>8. CASE LeaveRow
  BY <1>8 DEF LeaveRow, OneSaveAtATime, AtRest, SavesBringIt, EditorShowsIt
<1>9. CASE ReturnToRow
  BY <1>9 DEF ReturnToRow, OneSaveAtATime, AtRest, SavesBringIt, EditorShowsIt
<1>10. CASE UNCHANGED editingVars
  BY <1>10 DEF editingVars, OneSaveAtATime, AtRest, SavesBringIt, EditorShowsIt
<1> QED
  BY <1>1, <1>2, <1>3, <1>4, <1>5, <1>6, <1>7, <1>8, <1>9, <1>10 DEF RowNext

\* For any number of edits, saves and visits: what was typed and set is stored and shown once
\* everything is answered, but for the races the property names.
THEOREM EditsStay == RowSpec => []EditsAreKept
<1>1. RowInit => RowKept
  BY DEF RowInit, RowKept, OneSaveAtATime, AtRest, SavesBringIt, EditorShowsIt, Fields
<1>2. RowTypeOK /\ RowKept => EditsAreKept
  <2> SUFFICES ASSUME RowTypeOK, RowKept, ~strayedRow, puts = {}, ~due
               PROVE  /\ row = given
                      /\ kind = "cell" /\ opened => editor = row["typed"]
                      /\ cached = row
    BY DEF EditsAreKept
  <2>1. cached = row /\ \A f \in Fields : row[f] = given[f]
    BY DEF RowKept, AtRest, Fields
  <2>2. row = given
    BY <2>1 DEF RowTypeOK, RowValues
  <2> QED
    BY <2>1, <2>2 DEF RowKept, EditorShowsIt
<1> QED
  BY <1>1, <1>2, RowTypesKept, RowKeptStep, PTL DEF RowSpec

-----------------------------------------------------------------------------
(* The form of a chart: reopened and saved, it is the same chart.          *)

\* The elements of a sequence at some indices, in their order: as many as there are indices,
\* each of them found at the index with its place.
LEMMA AtIs ==
  ASSUME NEW S, NEW s \in Seq(S), NEW I \in SUBSET DOMAIN s
  PROVE  /\ At(s, I) \in Seq(S)
         /\ Len(At(s, I)) = Cardinality(I) /\ Len(At(s, I)) <= Len(s)
         /\ \A k \in DOMAIN At(s, I) :
              \E i \in I : PlaceIn(I, i) = k /\ At(s, I)[k] = s[i]
<1>1. DOMAIN s = 1 .. Len(s) /\ Len(s) \in Nat /\ \A i \in 1 .. Len(s) : s[i] \in S
  BY ElementOfSeq, LenProperties
<1>2. IsFiniteSet(1 .. Len(s)) /\ Cardinality(1 .. Len(s)) = Len(s)
  BY <1>1, FS_Interval
<1>3. IsFiniteSet(I) /\ Cardinality(I) <= Len(s)
  BY <1>1, <1>2, FS_Subset
<1>4. Cardinality(I) \in Nat
  BY <1>3, FS_CardinalityType
<1>5. I \in SUBSET Nat
  BY <1>1
<1> DEFINE Pick(k) == CHOOSE i \in I : PlaceIn(I, i) = k
<1>6. \A k \in 1 .. Cardinality(I) : Pick(k) \in I /\ PlaceIn(I, Pick(k)) = k
  BY <1>3, <1>5, PlaceOnto
<1>7. At(s, I) = [k \in 1 .. Cardinality(I) |-> s[Pick(k)]]
  BY Zenon DEF At, PlaceIn
<1> HIDE DEF Pick
<1>8. \A k \in 1 .. Cardinality(I) : s[Pick(k)] \in S
  BY <1>1, <1>6
<1>9. At(s, I) \in [1 .. Cardinality(I) -> S]
  BY <1>7, <1>8
<1>10. At(s, I) \in Seq(S)
  BY <1>4, <1>9
<1>11. DOMAIN At(s, I) = 1 .. Cardinality(I) /\ Len(At(s, I)) \in Nat
       /\ DOMAIN At(s, I) = 1 .. Len(At(s, I))
  BY <1>9, <1>10, LenProperties
<1>12. Len(At(s, I)) = Cardinality(I)
  BY <1>4, <1>11
<1>13. \A k \in 1 .. Cardinality(I) : At(s, I)[k] = s[Pick(k)]
  BY <1>7
<1> QED
  BY <1>3, <1>6, <1>10, <1>11, <1>12, <1>13

\* Nothing is left out of all of them.
LEMMA AtAll ==
  ASSUME NEW S, NEW s \in Seq(S)
  PROVE  At(s, DOMAIN s) = s
<1>1. DOMAIN s = 1 .. Len(s) /\ Len(s) \in Nat
  BY LenProperties
<1>2. Cardinality(DOMAIN s) = Len(s)
  BY <1>1, FS_Interval
<1>3. DOMAIN At(s, DOMAIN s) = 1 .. Len(s) /\ At(s, DOMAIN s) \in Seq(S)
  BY <1>1, <1>2, AtIs, LenProperties
<1>4. ASSUME NEW k \in 1 .. Len(s) PROVE At(s, DOMAIN s)[k] = s[k]
  <2>1. PICK i \in DOMAIN s : PlaceIn(DOMAIN s, i) = k /\ At(s, DOMAIN s)[k] = s[i]
    BY <1>3, AtIs
  <2>2. i = k
    BY <1>1, <2>1, PlaceInAll
  <2> QED
    BY <2>1, <2>2
<1>5. Len(At(s, DOMAIN s)) = Len(s)
  BY <1>2, AtIs
<1> QED
  BY <1>1, <1>3, <1>4, <1>5, SeqEqual

Blank == {Nothing}
\* The rows of the form, the aliases they can have, and the series of a chart.
Named == [column : Columns \cup Blank, aggregate : AggregateNames \cup Blank,
          slot : 0 .. ColorSlots - 1]
Alias == Columns \cup {SeriesAlias(s.column, s.aggregate) : s \in Named}
Stored == [column : Columns \cup Blank, aggregate : AggregateNames \cup Blank,
           slot : 0 .. ColorSlots, alias : Alias]

FormOK(v) ==
  /\ DOMAIN v = {"kind", "x", "series", "sort", "category"}
  /\ v.kind \in {"none", "axis", "pie"}
  /\ v.x \in Columns \cup Blank /\ v.category \in Columns \cup Blank
  /\ v.series \in Seq(Named) /\ Len(v.series) <= SeriesLimit

ContentOK(c) ==
  /\ c.kind \in {"none", "axis", "pie"}
  /\ c.x \in Columns \cup Blank /\ c.category \in Columns \cup Blank
  /\ c.series \in Seq(Stored) /\ Len(c.series) <= SeriesLimit

\* A row of the form is stored as it is, with its alias.
LEMMA WithAliasIs ==
  ASSUME NEW s \in Named
  PROVE  /\ WithAlias(s) \in Stored
         /\ WithAlias(s).column = s.column /\ WithAlias(s).aggregate = s.aggregate
         /\ WithAlias(s).slot = s.slot
         /\ WithAlias(s).alias = SeriesAlias(s.column, s.aggregate)
<1>1. SeriesAlias(s.column, s.aggregate) \in Alias
  BY DEF Alias
<1>2. /\ s.slot \in 0 .. ColorSlots - 1 /\ s.column \in Columns \cup Blank
      /\ s.aggregate \in AggregateNames \cup Blank
  BY DEF Named
<1>3. s.slot \in 0 .. ColorSlots
  BY <1>2, ChartFormAssumption
<1> QED
  BY <1>1, <1>2, <1>3 DEF WithAlias, Stored

\* What is stored: rows of the form, and no alias twice.
LEMMA AliasedIs ==
  ASSUME NEW series \in Seq(Named)
  PROVE  /\ Aliased(series) \in Seq(Stored) /\ Len(Aliased(series)) <= Len(series)
         /\ \A k \in DOMAIN Aliased(series) :
              \E i \in DOMAIN series : Aliased(series)[k] = WithAlias(series[i])
         /\ \A k, l \in DOMAIN Aliased(series) :
              k # l => Aliased(series)[k].alias # Aliased(series)[l].alias
<1> DEFINE all == [i \in DOMAIN series |-> WithAlias(series[i])]
           firsts == {i \in DOMAIN all : \A j \in 1 .. i - 1 : all[j].alias # all[i].alias}
<1>1. Aliased(series) = At(all, firsts)
  BY DEF Aliased
<1>2. DOMAIN series = 1 .. Len(series) /\ Len(series) \in Nat
      /\ \A i \in DOMAIN series : series[i] \in Named
  BY LenProperties, ElementOfSeq
<1>3. all \in [1 .. Len(series) -> Stored]
  BY <1>2, WithAliasIs
<1>4. all \in Seq(Stored)
  BY <1>2, <1>3
<1>5. Len(all) = Len(series)
  BY <1>2, <1>3, <1>4, LenProperties
<1>6. \A i \in DOMAIN series : all[i] = WithAlias(series[i])
  OBVIOUS
<1>7. DOMAIN all = DOMAIN series /\ firsts \in SUBSET DOMAIN all
  OBVIOUS
<1>8. \A i, j \in firsts : i # j => all[i].alias # all[j].alias
  <2> SUFFICES ASSUME NEW i \in firsts, NEW j \in firsts, i # j
               PROVE  all[i].alias # all[j].alias
    OBVIOUS
  <2>1. i \in 1 .. Len(series) /\ j \in 1 .. Len(series)
    BY <1>2, <1>7
  <2>2. i \in 1 .. j - 1 \/ j \in 1 .. i - 1
    BY <1>2, <2>1
  <2> QED
    BY <2>2
<1> HIDE DEF all, firsts
<1>9. /\ Aliased(series) \in Seq(Stored) /\ Len(Aliased(series)) <= Len(series)
      /\ \A k \in DOMAIN Aliased(series) :
           \E i \in firsts : PlaceIn(firsts, i) = k /\ Aliased(series)[k] = all[i]
  BY <1>1, <1>4, <1>5, <1>7, AtIs
<1>10. ASSUME NEW k \in DOMAIN Aliased(series), NEW l \in DOMAIN Aliased(series), k # l
       PROVE  Aliased(series)[k].alias # Aliased(series)[l].alias
  <2>1. PICK i \in firsts : PlaceIn(firsts, i) = k /\ Aliased(series)[k] = all[i]
    BY <1>9
  <2>2. PICK j \in firsts : PlaceIn(firsts, j) = l /\ Aliased(series)[l] = all[j]
    BY <1>9
  <2>3. i # j
    BY <1>10, <2>1, <2>2
  <2> QED
    BY <1>8, <2>1, <2>2, <2>3
<1> QED
  BY <1>6, <1>7, <1>9, <1>10

\* Series with aliases of their own keep them all.
LEMMA AliasedAgain ==
  ASSUME NEW series \in Seq(Named), NEW kept \in Seq(Stored), Len(kept) = Len(series),
         \A i \in DOMAIN kept : WithAlias(series[i]) = kept[i],
         \A k, l \in DOMAIN kept : k # l => kept[k].alias # kept[l].alias
  PROVE  Aliased(series) = kept
<1>1. /\ DOMAIN series = 1 .. Len(series) /\ DOMAIN kept = 1 .. Len(series)
      /\ Len(series) \in Nat /\ kept \in [1 .. Len(series) -> Stored]
  BY LenProperties
<1> DEFINE all == [i \in DOMAIN series |-> WithAlias(series[i])]
<1>2. all = kept
  BY <1>1
<1>3. {i \in DOMAIN kept : \A j \in 1 .. i - 1 : kept[j].alias # kept[i].alias} = DOMAIN kept
  <2> SUFFICES ASSUME NEW i \in DOMAIN kept, NEW j \in 1 .. i - 1
               PROVE  kept[j].alias # kept[i].alias
    OBVIOUS
  <2>1. i \in Nat /\ j \in DOMAIN kept /\ j # i
    BY <1>1
  <2> QED
    BY <2>1
<1>4. Aliased(series) =
        At(all, {i \in DOMAIN all : \A j \in 1 .. i - 1 : all[j].alias # all[i].alias})
  BY DEF Aliased
<1> HIDE DEF all
<1>5. Aliased(series) = At(kept, DOMAIN kept)
  BY <1>2, <1>3, <1>4
<1> QED
  BY <1>5, AtAll

\* Rows that are complete and few enough are all kept.
LEMMA AllRows ==
  ASSUME NEW S, NEW series \in Seq(S), Len(series) <= SeriesLimit,
         \A i \in DOMAIN series : series[i].column # Nothing
  PROVE  LET rows == At(series, {i \in DOMAIN series : series[i].column # Nothing})
         IN  At(rows, {i \in DOMAIN rows : i <= SeriesLimit}) = series
<1>1. DOMAIN series = 1 .. Len(series) /\ Len(series) \in Nat
  BY LenProperties
<1>2. {i \in DOMAIN series : series[i].column # Nothing} = DOMAIN series
  OBVIOUS
<1>3. {i \in DOMAIN series : i <= SeriesLimit} = DOMAIN series
  BY <1>1, ChartFormAssumption
<1> QED
  BY <1>2, <1>3, AtAll

\* What is kept of the rows.
LEMMA SomeRows ==
  ASSUME NEW series \in Seq(Named)
  PROVE  LET rows == At(series, {i \in DOMAIN series : series[i].column # Nothing})
             first == At(rows, {i \in DOMAIN rows : i <= SeriesLimit})
         IN  first \in Seq(Named) /\ Len(first) <= SeriesLimit
<1> DEFINE rows == At(series, {i \in DOMAIN series : series[i].column # Nothing})
           few == {i \in DOMAIN rows : i <= SeriesLimit}
<1>1. rows \in Seq(Named)
  BY AtIs
<1> HIDE DEF rows
<1>2. At(rows, few) \in Seq(Named) /\ Len(At(rows, few)) = Cardinality(few)
  BY <1>1, AtIs
<1>3. DOMAIN rows = 1 .. Len(rows) /\ Len(rows) \in Nat
  BY <1>1, LenProperties
<1>4. few \in SUBSET (1 .. SeriesLimit)
  BY <1>3, ChartFormAssumption
<1>5. IsFiniteSet(1 .. SeriesLimit) /\ Cardinality(1 .. SeriesLimit) = SeriesLimit
  BY ChartFormAssumption, FS_Interval
<1>6. Cardinality(few) <= SeriesLimit
  BY <1>4, <1>5, FS_Subset
<1> QED
  BY <1>2, <1>6 DEF rows

\* A chart may have no series.
LEMMA EmptySeries ==
  /\ <<>> \in Seq(Stored) /\ Len(<<>>) <= SeriesLimit
  /\ \A s : s = <<>> <=> DOMAIN s = {} /\ s = <<>>
  BY ChartFormAssumption

\* What is stored of a form is a chart.
LEMMA ExtractIs ==
  ASSUME NEW v, FormOK(v), v.kind \in {"axis", "pie"}
  PROVE  ContentOK(Extract(v))
<1>1. CASE v.kind = "axis"
  <2> DEFINE rows == At(v.series, {i \in DOMAIN v.series : v.series[i].column # Nothing})
             first == At(rows, {i \in DOMAIN rows : i <= SeriesLimit})
             series == Aliased(first)
  <2>1. first \in Seq(Named) /\ Len(first) <= SeriesLimit /\ Len(first) \in Nat
    BY SomeRows, LenProperties DEF FormOK
  <2>2. Extract(v) = [kind |-> "axis", x |-> v.x, xAlias |-> XAlias(v.x, Aliases(series)),
                      series |-> series, sortBy |-> SortAlias(series, v.sort), category |-> Nothing]
    BY <1>1, Zenon DEF Extract
  <2> HIDE DEF first
  <2>3. series \in Seq(Stored) /\ Len(series) <= Len(first) /\ Len(series) \in Nat
    BY <2>1, AliasedIs, LenProperties
  <2>4. Len(series) <= SeriesLimit
    BY <2>1, <2>3, ChartFormAssumption
  <2> HIDE DEF series
  <2>5. /\ Extract(v).kind = "axis" /\ Extract(v).x = v.x /\ Extract(v).category = Nothing
        /\ Extract(v).series = series
    BY <2>2
  <2> QED
    BY <2>3, <2>4, <2>5 DEF FormOK, ContentOK, Blank
<1>2. CASE v.kind = "pie"
  <2>1. Extract(v) = [NoContent EXCEPT !.kind = v.kind, !.category = v.category]
    BY <1>2 DEF Extract
  <2>2. /\ Extract(v).kind = "pie" /\ Extract(v).x = Nothing /\ Extract(v).category = v.category
        /\ Extract(v).series = <<>>
    BY <1>2, <2>1 DEF NoContent
  <2> QED
    BY <2>2, EmptySeries DEF FormOK, ContentOK, Blank
<1> QED
  BY <1>1, <1>2

\* A new row of the form has a colour and no column.
LEMMA BlankIs ==
  /\ BlankSeries(0) \in Named
  /\ \A slot \in 0 .. ColorSlots - 1 : BlankSeries(slot) \in Named
  /\ \A slot : BlankSeries(slot).column = Nothing
  BY ChartFormAssumption DEF BlankSeries, Named, Blank

\* Every stored series is given a colour.
LEMMA SlotIs ==
  ASSUME NEW series \in Seq(Stored), NEW i \in DOMAIN series
  PROVE  Slot(series, i) \in 0 .. ColorSlots - 1
<1>1. series[i] \in Stored /\ i \in Nat \ {0}
  BY LenProperties, ElementOfSeq
<1>2. series[i].slot \in 0 .. ColorSlots
  BY <1>1 DEF Stored
<1>3. (i - 1) % ColorSlots \in 0 .. ColorSlots - 1
  BY <1>1, ChartFormAssumption
<1> QED
  BY <1>2, <1>3, ChartFormAssumption DEF Slot, NoSlot

\* A stored chart opens as a form.
LEMMA DefaultsAre ==
  ASSUME NEW c, ContentOK(c)
  PROVE  FormOK(Defaults(c))
<1> DEFINE named == [i \in DOMAIN c.series |->
                       [column |-> c.series[i].column, aggregate |-> c.series[i].aggregate,
                        slot |-> Slot(c.series, i)]]
           series == IF c.kind # "axis" THEN <<>>
                     ELSE IF c.series = <<>> THEN <<BlankSeries(0)>> ELSE named
<1>1. Defaults(c) = [kind |-> c.kind, x |-> c.x, series |-> series, sort |-> c.sortBy,
                     category |-> c.category]
  BY Zenon DEF Defaults
<1>2. /\ DOMAIN c.series = 1 .. Len(c.series) /\ Len(c.series) \in Nat
      /\ \A i \in DOMAIN c.series : c.series[i] \in Stored
  BY LenProperties, ElementOfSeq DEF ContentOK
<1>3. \A i \in 1 .. Len(c.series) : named[i] \in Named
  <2> TAKE i \in 1 .. Len(c.series)
  <2>1. Slot(c.series, i) \in 0 .. ColorSlots - 1
    BY <1>2, SlotIs DEF ContentOK
  <2>2. /\ c.series[i].column \in Columns \cup Blank
        /\ c.series[i].aggregate \in AggregateNames \cup Blank
    BY <1>2 DEF Stored
  <2> QED
    BY <1>2, <2>1, <2>2 DEF Named
<1>4. named \in Seq(Named) /\ Len(named) = Len(c.series)
  <2>1. named \in [1 .. Len(c.series) -> Named]
    BY <1>2, <1>3
  <2>2. named \in Seq(Named)
    BY <1>2, <2>1
  <2> QED
    BY <1>2, <2>1, <2>2, LenProperties
<1> HIDE DEF named
<1>5. series \in Seq(Named) /\ Len(series) <= SeriesLimit
  <2>1. <<>> \in Seq(Named) /\ Len(<<>>) <= SeriesLimit
    BY ChartFormAssumption
  <2>2. <<BlankSeries(0)>> \in Seq(Named) /\ Len(<<BlankSeries(0)>>) <= SeriesLimit
    BY BlankIs, ChartFormAssumption
  <2> QED
    BY <1>4, <2>1, <2>2 DEF ContentOK
<1> HIDE DEF series
<1> QED
  BY <1>1, <1>5 DEF FormOK, ContentOK

\* The kept chart opened again.
LEMMA ReopenedIs ==
  ASSUME FormOK(values), IsComplete
  PROVE  ReopeningChangesNothing
<1> DEFINE c == Extract(values)
           d == Defaults(c)
<1> SUFFICES Extract(d) = [c EXCEPT !.sortBy = SortAlias(c.series, c.sortBy)]
  BY Zenon DEF ReopeningChangesNothing
<1>1. CASE values.kind = "axis"
  <2> DEFINE series == Aliased(values.series)
             named == [i \in DOMAIN series |->
                         [column |-> series[i].column, aggregate |-> series[i].aggregate,
                          slot |-> Slot(series, i)]]
             reopened == IF series = <<>> THEN <<BlankSeries(0)>> ELSE named
             rows == At(reopened, {i \in DOMAIN reopened : reopened[i].column # Nothing})
             again == Aliased(At(rows, {i \in DOMAIN rows : i <= SeriesLimit}))
  <2>1. /\ values.series \in Seq(Named) /\ Len(values.series) <= SeriesLimit
        /\ DOMAIN values.series = 1 .. Len(values.series)
        /\ \A i \in DOMAIN values.series :
             values.series[i].column # Nothing /\ values.series[i] \in Named
    BY <1>1, LenProperties, ElementOfSeq DEF FormOK, IsComplete
  <2>2. c = [kind |-> "axis", x |-> values.x, xAlias |-> XAlias(values.x, Aliases(series)),
             series |-> series, sortBy |-> SortAlias(series, values.sort), category |-> Nothing]
    <3>1. LET held == At(values.series, {i \in DOMAIN values.series :
                                            values.series[i].column # Nothing})
          IN  At(held, {i \in DOMAIN held : i <= SeriesLimit}) = values.series
      BY <2>1, AllRows
    <3> QED
      BY <1>1, <3>1, Zenon DEF Extract
  <2>3. /\ series \in Seq(Stored) /\ Len(series) <= Len(values.series)
        /\ DOMAIN series = 1 .. Len(series) /\ Len(series) \in Nat
        /\ \A k \in DOMAIN series :
             \E i \in DOMAIN values.series : series[k] = WithAlias(values.series[i])
        /\ \A k, l \in DOMAIN series : k # l => series[k].alias # series[l].alias
    BY <2>1, AliasedIs, LenProperties
  <2> HIDE DEF series
  <2>4. d = [kind |-> "axis", x |-> values.x, series |-> reopened,
             sort |-> SortAlias(series, values.sort), category |-> Nothing]
    <3>1. c.kind = "axis" /\ c.x = values.x /\ c.series = series /\ c.category = Nothing
          /\ c.sortBy = SortAlias(series, values.sort)
      BY <2>2
    <3> HIDE DEF c
    <3> QED
      BY <3>1, Zenon DEF Defaults
  <2>5. Len(series) <= SeriesLimit
    BY <2>1, <2>3, LenProperties, ChartFormAssumption
  <2>6. ASSUME series = <<>> PROVE again = series
    <3>1. /\ reopened = <<BlankSeries(0)>>
          /\ {i \in DOMAIN reopened : reopened[i].column # Nothing} = {}
      BY <2>6, BlankIs
    <3>2. reopened \in Seq(Named)
      BY <3>1, BlankIs
    <3> HIDE DEF reopened
    <3>3. rows \in Seq(Named) /\ Len(rows) = 0
      BY <3>1, <3>2, AtIs, FS_EmptySet
    <3> HIDE DEF rows
    <3>4. {i \in DOMAIN rows : i <= SeriesLimit} = {}
      BY <3>3, LenProperties
    <3>5. LET few == At(rows, {}) IN few \in Seq(Named) /\ Len(few) = 0
      BY <3>3, AtIs, FS_EmptySet
    <3>6. again \in Seq(Stored) /\ Len(again) <= 0
      BY <3>4, <3>5, AliasedIs
    <3> HIDE DEF again
    <3> QED
      BY <2>6, <3>6, EmptySeq, LenProperties
  <2>7. ASSUME series # <<>> PROVE again = series
    <3>1. /\ named \in [1 .. Len(series) -> Named]
          /\ \A i \in DOMAIN series : named[i].column # Nothing /\ WithAlias(named[i]) = series[i]
      <4> SUFFICES ASSUME NEW i \in DOMAIN series
                   PROVE  /\ named[i] \in Named /\ named[i].column # Nothing
                          /\ WithAlias(named[i]) = series[i]
        BY <2>3
      <4>1. PICK j \in DOMAIN values.series : series[i] = WithAlias(values.series[j])
        BY <2>3
      <4> DEFINE old == values.series[j]
      <4>2. old \in Named /\ old.column # Nothing
        BY <2>1
      <4>3. /\ series[i].column = old.column /\ series[i].aggregate = old.aggregate
            /\ series[i].slot = old.slot
        BY <4>1, <4>2, WithAliasIs
      <4>4. old.slot \in 0 .. ColorSlots - 1
        BY <4>2 DEF Named
      <4>5. Slot(series, i) = old.slot
        BY <4>3, <4>4, ChartFormAssumption DEF Slot, NoSlot
      <4>6. named[i] = [column |-> old.column, aggregate |-> old.aggregate, slot |-> old.slot]
        BY <4>3, <4>5
      <4>7. named[i] = old
        BY <4>2, <4>6 DEF Named
      <4> HIDE DEF old
      <4> QED
        BY <4>1, <4>2, <4>7 DEF old
    <3>2. named \in Seq(Named)
      BY <2>3, <3>1
    <3>3. Len(named) = Len(series) /\ DOMAIN named = DOMAIN series
      BY <2>3, <3>1, <3>2, LenProperties
    <3> HIDE DEF named
    <3>4. reopened = named
      BY <2>7
    <3> HIDE DEF reopened
    <3>5. At(rows, {i \in DOMAIN rows : i <= SeriesLimit}) = named
      BY <2>5, <3>1, <3>2, <3>3, <3>4, AllRows
    <3> HIDE DEF rows
    <3> QED
      BY <2>3, <3>1, <3>2, <3>3, <3>5, AliasedAgain
  <2>8. again = series
    BY <2>6, <2>7
  <2>9. Extract(d) = [kind |-> "axis", x |-> values.x, xAlias |-> XAlias(values.x, Aliases(again)),
                      series |-> again, sortBy |-> SortAlias(again, SortAlias(series, values.sort)),
                      category |-> Nothing]
    <3>1. d.kind = "axis" /\ d.x = values.x /\ d.series = reopened
          /\ d.sort = SortAlias(series, values.sort)
      BY <2>4
    <3> HIDE DEF d, reopened
    <3> QED
      BY <3>1, Zenon DEF Extract
  <2> HIDE DEF again, c, d
  <2> QED
    BY <2>2, <2>8, <2>9
<1>2. CASE values.kind = "pie"
  <2>1. c = [kind |-> "pie", x |-> Nothing, xAlias |-> Nothing, series |-> <<>>, sortBy |-> Nothing,
             category |-> values.category]
    BY <1>2 DEF Extract, NoContent
  <2>2. d.kind = "pie" /\ d.category = values.category
    <3> HIDE DEF c
    <3> QED
      BY <2>1 DEF Defaults
  <2>3. Extract(d) = [NoContent EXCEPT !.kind = d.kind, !.category = d.category]
    BY <2>2 DEF Extract
  <2> HIDE DEF d
  <2>4. Extract(d) = c
    BY <2>1, <2>2, <2>3 DEF NoContent
  <2>5. SortAlias(<<>>, Nothing) = Nothing
    BY DEF SortAlias
  <2> QED
    BY <2>1, <2>4, <2>5
<1> QED
  BY <1>1, <1>2 DEF IsComplete

\* A slot of colour is found for a new row: of one more slots than rows, some are free, and one
\* of them is the first.
LEMMA NextColorIndexIs ==
  ASSUME NEW series \in Seq(Named)
  PROVE  NextColorIndex(series) \in 0 .. ColorSlots - 1
<1> DEFINE used == {series[i].slot : i \in DOMAIN series}
           free == (0 .. Len(series)) \ used
           First(n) == n \notin used /\ \A k \in 0 .. n - 1 : k \in used
           f == [i \in 1 .. Len(series) |-> series[i].slot]
<1>1. DOMAIN series = 1 .. Len(series) /\ Len(series) \in Nat
  BY LenProperties
<1>2. IsFiniteSet(1 .. Len(series)) /\ Cardinality(1 .. Len(series)) = Len(series)
  BY <1>1, FS_Interval
<1>3. Cardinality(0 .. Len(series)) = Len(series) + 1
  BY <1>1, FS_Interval
<1>4. f \in Surjection(1 .. Len(series), used)
  BY <1>1 DEF Surjection
<1>5. IsFiniteSet(used) /\ Cardinality(used) <= Len(series)
  BY <1>2, <1>4, FS_Surjection
<1> HIDE DEF used
<1>6. free # {}
  <2> SUFFICES ASSUME 0 .. Len(series) \in SUBSET used PROVE FALSE
    OBVIOUS
  <2>1. Len(series) + 1 <= Cardinality(used) /\ Cardinality(used) \in Nat
    BY <1>3, <1>5, FS_Subset, FS_CardinalityType
  <2> QED
    BY <1>1, <1>5, <2>1
<1>7. \E n \in 0 .. Len(series) : First(n)
  <2>0. free \in SUBSET Nat
    BY <1>1
  <2>1. PICK n \in free : \A k \in free : n <= k
    BY <1>6, <2>0, LeastNumber
  <2>2. n \in 0 .. Len(series) /\ n \notin used
    OBVIOUS
  <2>3. ASSUME NEW k \in 0 .. n - 1 PROVE k \in used
    BY <1>1, <2>1, <2>2
  <2> QED
    BY <2>2, <2>3
<1>8. NextColorIndex(series) = (CHOOSE n \in 0 .. Len(series) : First(n)) % ColorSlots
  BY DEF NextColorIndex, used
<1> HIDE DEF First
<1>9. (CHOOSE n \in 0 .. Len(series) : First(n)) \in 0 .. Len(series)
  BY <1>7
<1>10. \A n \in 0 .. Len(series) : n % ColorSlots \in 0 .. ColorSlots - 1
  BY <1>1, ChartFormAssumption
<1> QED
  BY <1>8, <1>9, <1>10

\* A sequence without one of its elements.
LEMMA RemovedIs ==
  ASSUME NEW S, NEW series \in Seq(S), NEW i \in DOMAIN series
  PROVE  RemoveAt(series, i) \in Seq(S) /\ Len(RemoveAt(series, i)) = Len(series) - 1
<1>1. Len(series) \in Nat /\ i \in 1 .. Len(series) /\ \A k \in 1 .. Len(series) : series[k] \in S
  BY LenProperties, ElementOfSeq
<1> DEFINE head == SubSeq(series, 1, i - 1)
           rest == SubSeq(series, i + 1, Len(series))
<1>2. head \in Seq(S) /\ Len(head) = i - 1
  <2>1. \A k \in 1 .. i - 1 : series[k] \in S
    BY <1>1
  <2>2. /\ head \in Seq(S)
        /\ Len(head) = IF 1 <= i - 1 THEN i - 1 - 1 + 1 ELSE 0
    BY <1>1, <2>1, SubSeqProperties
  <2> QED
    BY <1>1, <2>2
<1>3. rest \in Seq(S) /\ Len(rest) = Len(series) - i
  <2>1. \A k \in i + 1 .. Len(series) : series[k] \in S
    BY <1>1
  <2>2. /\ rest \in Seq(S)
        /\ Len(rest) = IF i + 1 <= Len(series) THEN Len(series) - (i + 1) + 1 ELSE 0
    BY <1>1, <2>1, SubSeqProperties
  <2> QED
    BY <1>1, <2>2
<1>4. RemoveAt(series, i) = head \o rest
  BY DEF RemoveAt
<1> HIDE DEF head, rest
<1>5. head \o rest \in Seq(S) /\ Len(head \o rest) = Len(head) + Len(rest)
  BY <1>2, <1>3, ConcatProperties
<1> QED
  BY <1>1, <1>2, <1>3, <1>4, <1>5

FormKept == FormOK(values) /\ ContentOK(content)

\* Whoever made the chart, the form opens on it.
LEMMA FormStart == FormInit => FormKept
<1> SUFFICES ASSUME FormInit PROVE ContentOK(content)
  BY DefaultsAre DEF FormInit, FormKept
<1>1. CASE content = NoContent
  BY <1>1, EmptySeries DEF NoContent, ContentOK, Blank
<1>2. CASE content \in DemoContent
  <2>1. PICK x \in Columns, c \in Columns, g \in AggregateNames :
          content = [kind |-> "axis", x |-> x, xAlias |-> x, sortBy |-> c, category |-> Nothing,
                     series |-> <<[column |-> c, aggregate |-> g, alias |-> c, slot |-> NoSlot]>>]
    BY <1>2 DEF DemoContent
  <2>2. [column |-> c, aggregate |-> g, alias |-> c, slot |-> NoSlot] \in Stored
    BY ChartFormAssumption DEF Stored, Alias, NoSlot
  <2> DEFINE one == [column |-> c, aggregate |-> g, alias |-> c, slot |-> NoSlot]
  <2> HIDE DEF one
  <2>3. <<one>> \in Seq(Stored) /\ Len(<<one>>) <= SeriesLimit
    BY <2>2, ChartFormAssumption DEF one
  <2>4. content.kind = "axis" /\ content.x = x /\ content.category = Nothing
        /\ content.series = <<one>>
    BY <2>1 DEF one
  <2> QED
    BY <2>3, <2>4 DEF ContentOK, Blank
<1>3. CASE content \in GeneratedContent
  <2>1. PICK x \in Columns, cs \in SeqOf(Columns, SeriesLimit), g \in AggregateNames :
          content = [kind |-> "axis", x |-> x, xAlias |-> x, sortBy |-> Nothing,
                     category |-> Nothing,
                     series |-> [i \in DOMAIN cs |-> [column |-> cs[i], aggregate |-> g,
                                                      alias |-> SeriesAlias(cs[i], g),
                                                      slot |-> i - 1]]]
    BY <1>3 DEF GeneratedContent
  <2>2. PICK m \in 0 .. SeriesLimit : cs \in [1 .. m -> Columns]
    BY DEF SeqOf
  <2> DEFINE series == [i \in DOMAIN cs |-> [column |-> cs[i], aggregate |-> g,
                                             alias |-> SeriesAlias(cs[i], g), slot |-> i - 1]]
  <2>3. m \in Nat /\ m <= SeriesLimit /\ m <= ColorSlots
    BY ChartFormAssumption
  <2>4. ASSUME NEW i \in 1 .. m PROVE series[i] \in Stored
    <3>1. cs[i] \in Columns /\ i - 1 \in 0 .. ColorSlots
      BY <2>2, <2>3, ChartFormAssumption
    <3>2. SeriesAlias(cs[i], g) \in Alias
      <4>1. [column |-> cs[i], aggregate |-> g, slot |-> 0] \in Named
        BY <3>1, ChartFormAssumption DEF Named
      <4> QED
        BY <4>1 DEF Alias
    <3>3. series[i] = [column |-> cs[i], aggregate |-> g, alias |-> SeriesAlias(cs[i], g),
                       slot |-> i - 1]
      BY <2>2
    <3> QED
      BY <3>1, <3>2, <3>3 DEF Stored
  <2>5. series \in [1 .. m -> Stored]
    BY <2>2, <2>4
  <2>6. series \in Seq(Stored)
    BY <2>3, <2>5
  <2>7. Len(series) <= SeriesLimit
    BY <2>3, <2>5, <2>6, LenProperties
  <2>8. content.kind = "axis" /\ content.x = x /\ content.category = Nothing
        /\ content.series = series
    BY <2>1
  <2> HIDE DEF series
  <2> QED
    BY <2>6, <2>7, <2>8 DEF ContentOK, Blank
<1> QED
  BY <1>1, <1>2, <1>3 DEF FormInit

\* Every step leaves a form and a chart.
LEMMA FormStep ==
  ASSUME FormKept, [FormNext]_formVars
  PROVE  FormKept'
<1>1. FormOK(values) /\ ContentOK(content)
  BY DEF FormKept
<1>2. ASSUME NEW k \in {"axis", "pie"}, PickKind(k) PROVE FormKept'
  BY <1>1, <1>2 DEF PickKind, FormKept, FormOK
<1>3. ASSUME NEW c \in Columns, PickX(c) \/ PickCategory(c) PROVE FormKept'
  BY <1>1, <1>3 DEF PickX, PickCategory, FormKept, FormOK
<1>4. ASSUME NEW i \in DOMAIN values.series, NEW c \in Columns, PickColumn(i, c)
      PROVE  FormKept'
  <2>1. values.series[i] \in Named /\ values.series \in Seq(Named)
    BY <1>1, LenProperties, ElementOfSeq DEF FormOK
  <2>2. [values.series[i] EXCEPT !.column = c] \in Named
    BY <2>1 DEF Named
  <2> DEFINE series == [values.series EXCEPT ![i].column = c]
  <2>3. series \in Seq(Named) /\ Len(series) = Len(values.series)
    BY <2>1, <2>2, ExceptSeq
  <2>4. /\ values' = [values EXCEPT !.series = series] /\ content' = content
    BY <1>1, <1>4 DEF PickColumn, FormOK
  <2> HIDE DEF series
  <2> QED
    BY <1>1, <2>3, <2>4 DEF FormKept, FormOK
<1>5. ASSUME NEW i \in DOMAIN values.series, NEW g \in AggregateNames, PickAggregate(i, g)
      PROVE  FormKept'
  <2>1. values.series[i] \in Named /\ values.series \in Seq(Named)
    BY <1>1, LenProperties, ElementOfSeq DEF FormOK
  <2>2. [values.series[i] EXCEPT !.aggregate = g] \in Named
    BY <2>1 DEF Named
  <2> DEFINE series == [values.series EXCEPT ![i].aggregate = g]
  <2>3. series \in Seq(Named) /\ Len(series) = Len(values.series)
    BY <2>1, <2>2, ExceptSeq
  <2>4. /\ values' = [values EXCEPT !.series = series] /\ content' = content
    BY <1>1, <1>5 DEF PickAggregate, FormOK
  <2> HIDE DEF series
  <2> QED
    BY <1>1, <2>3, <2>4 DEF FormKept, FormOK
<1>6. ASSUME NEW i \in DOMAIN values.series, PickSort(i) PROVE FormKept'
  BY <1>1, <1>6 DEF PickSort, FormKept, FormOK
<1>7. ASSUME NEW i \in DOMAIN values.series, RemoveSeries(i) PROVE FormKept'
  <2> DEFINE series == RemoveAt(values.series, i)
  <2>1. series \in Seq(Named) /\ Len(series) = Len(values.series) - 1
    BY <1>1, RemovedIs DEF FormOK
  <2>2. Len(series) <= SeriesLimit
    BY <1>1, <2>1, LenProperties, ChartFormAssumption DEF FormOK
  <2>3. values' = [values EXCEPT !.series = series] /\ content' = content
    BY <1>7 DEF RemoveSeries
  <2> HIDE DEF series
  <2> QED
    BY <1>1, <2>1, <2>2, <2>3 DEF FormKept, FormOK
<1>8. CASE AddSeries
  <2> DEFINE blank == BlankSeries(NextColorIndex(values.series))
             series == Append(values.series, blank)
  <2>1. values.series \in Seq(Named) /\ Len(values.series) \in Nat /\ blank \in Named
    BY <1>1, NextColorIndexIs, BlankIs, LenProperties DEF FormOK
  <2> HIDE DEF blank
  <2>2. series \in Seq(Named) /\ Len(series) = Len(values.series) + 1
    BY <2>1
  <2>3. values' = [values EXCEPT !.series = series] /\ content' = content
        /\ Len(values.series) < SeriesLimit
    BY <1>8 DEF AddSeries, blank
  <2>4. Len(series) <= SeriesLimit
    BY <2>1, <2>2, <2>3, ChartFormAssumption
  <2> HIDE DEF series
  <2> QED
    BY <1>1, <2>2, <2>3, <2>4 DEF FormKept, FormOK
<1>9. CASE SaveChart
  <2>1. values.kind \in {"axis", "pie"} /\ content' = Extract(values) /\ values' = values
    BY <1>9 DEF SaveChart, IsComplete
  <2>2. ContentOK(Extract(values))
    BY <1>1, <2>1, ExtractIs
  <2> QED
    BY <1>1, <2>1, <2>2 DEF FormKept
<1>10. CASE ReopenForm
  <2>1. values' = Defaults(content) /\ content' = content
    BY <1>10 DEF ReopenForm
  <2>2. FormOK(Defaults(content))
    BY <1>1, DefaultsAre
  <2> QED
    BY <1>1, <2>1, <2>2 DEF FormKept
<1>11. CASE UNCHANGED formVars
  BY <1>1, <1>11 DEF formVars, FormKept
<1> QED
  BY <1>2, <1>3, <1>4, <1>5, <1>6, <1>7, <1>8, <1>9, <1>10, <1>11 DEF FormNext

\* The form and the chart always are what they should be.
LEMMA FormAlwaysKept == FormSpec => []FormKept
  BY FormStart, FormStep, PTL DEF FormSpec

\* For any columns and aggregate functions, and any number of series: a chart saved, opened again
\* and saved untouched is the same chart, colours and aliases included, in the order of its own
\* alias or else of its first series.
THEOREM ReopensAsSaved == FormSpec => []ReopeningChangesNothing
<1>1. FormKept => ReopeningChangesNothing
  <2>1. ~IsComplete => ReopeningChangesNothing
    BY DEF ReopeningChangesNothing
  <2> QED
    BY <2>1, ReopenedIs DEF FormKept
<1> QED
  BY <1>1, FormAlwaysKept, PTL

\* The form starts well typed and stays so.
LEMMA FormTypes == FormSpec => []FormTypeOK
<1>1. FormKept => FormTypeOK
  <2> SUFFICES ASSUME FormKept PROVE FormTypeOK
    OBVIOUS
  <2>1. \A i \in DOMAIN values.series : values.series[i] \in Named
    BY LenProperties, ElementOfSeq DEF FormKept, FormOK
  <2> QED
    BY <2>1 DEF FormKept, FormOK, ContentOK, FormTypeOK, Named, Blank
<1> QED
  BY <1>1, FormAlwaysKept, PTL

-----------------------------------------------------------------------------
(* Which chart a cell draws.                                               *)

RunsBounded ==
  /\ DrawingTypeOK
  /\ \A c \in Charts : ofStored + ofChart[c] <= MaxChartRuns

\* Every step keeps the types and the bound on the runs.
LEMMA RunsBoundedStep ==
  ASSUME RunsBounded, [DrawingNext]_drawingVars
  PROVE  RunsBounded'
<1> USE ChartDrawingAssumption DEF RunsBounded, DrawingTypeOK
<1>1. ASSUME NEW c, NEW drawn, AskStored(c, drawn)
      PROVE  /\ ofStored' \in 0 .. MaxChartRuns /\ ofChart' = ofChart /\ busy' \in BOOLEAN
             /\ mixedUp' \in BOOLEAN
             /\ \A d \in Charts : ofStored' + ofChart'[d] <= MaxChartRuns
  <2>1. PICK d \in Charts : TRUE
    OBVIOUS
  <2>2. ofStored + ofChart[d] < MaxChartRuns
    BY <1>1, <2>1 DEF AskStored, MayRun
  <2> QED
    BY <1>1, <2>2 DEF AskStored, MayRun
<1>2. CASE ShowChart
  <2>1. CASE storedChart # NoChart
    BY <1>1, <1>2, <2>1 DEF ShowChart
  <2>2. CASE storedChart = NoChart
    BY <1>2, <2>2 DEF ShowChart
  <2> QED
    BY <2>1, <2>2
<1>3. ASSUME NEW rerun \in BOOLEAN, StoreForm(rerun)
      PROVE  RunsBounded'
  <2>1. CASE rerun
    BY <1>1, <1>3, <2>1 DEF StoreForm
  <2>2. CASE ~rerun
    BY <1>3, <2>2 DEF StoreForm
  <2> QED
    BY <2>1, <2>2
<1>4. CASE RunPreview
  <2>1. formChart \in Charts /\ ofChart' = [ofChart EXCEPT ![formChart] = @ + 1]
        /\ ofStored' = ofStored /\ drawnChart' = formChart
    BY <1>4 DEF RunPreview
  <2>2. \A c \in Charts : ofChart'[c] \in 0 .. MaxChartRuns
                          /\ ofStored' + ofChart'[c] <= MaxChartRuns
    BY <1>4, <2>1 DEF RunPreview, MayRun
  <2> QED
    BY <1>4, <2>1, <2>2 DEF RunPreview
<1>5. CASE RunStored
  BY <1>1, <1>5 DEF RunStored
<1>6. CASE StoredRead
  <2>1. /\ ofChart' = [ofChart EXCEPT ![storedChart] = @ + 1] /\ ofStored > 0
        /\ ofStored' = ofStored - 1
    BY <1>6 DEF StoredRead
  <2>2. \A c \in Charts : ofChart'[c] \in 0 .. MaxChartRuns
                          /\ ofStored' + ofChart'[c] <= MaxChartRuns
    <3> TAKE c \in Charts
    <3>1. ofChart[c] \in Nat /\ ofStored \in Nat /\ ofStored + ofChart[c] <= MaxChartRuns
      OBVIOUS
    <3>2. ofChart'[c] = ofChart[c] \/ ofChart'[c] = ofChart[c] + 1
      BY <2>1
    <3> QED
      BY <2>1, <3>1, <3>2
  <2>3. ofStored' \in 0 .. MaxChartRuns
    BY <2>1
  <2>4. ofChart' \in [Charts -> 0 .. MaxChartRuns]
    BY <2>1, <2>2
  <2> QED
    BY <1>6, <2>2, <2>3, <2>4 DEF StoredRead
<1>7. ASSUME NEW c \in Charts, ChartAnswered(c)
      PROVE  RunsBounded'
  <2>1. \A d \in Charts : ofChart'[d] \in 0 .. MaxChartRuns
                          /\ ofStored + ofChart'[d] <= MaxChartRuns
    BY <1>7 DEF ChartAnswered
  <2> QED
    BY <1>7, <2>1 DEF ChartAnswered
<1>8. ASSUME NEW c \in Charts, EditChart(c)
      PROVE  RunsBounded'
  BY <1>8 DEF EditChart
<1>9. CASE HideChart \/ ClearDrawing \/ UNCHANGED drawingVars
  BY <1>9 DEF HideChart, ClearDrawing, drawingVars
<1> QED
  BY <1>2, <1>3, <1>4, <1>5, <1>6, <1>7, <1>8, <1>9 DEF DrawingNext

\* No run, or one, of the chart that is drawn.
NoneRuns == ofStored = 0 /\ \A c \in Charts : ofChart[c] = 0
StoredRuns == /\ ofStored = 1 /\ storedChart = drawnChart /\ drawnChart # NoChart
              /\ \A c \in Charts : ofChart[c] = 0
DrawnRuns == /\ ofStored = 0 /\ drawnChart # NoChart
             /\ \A c \in Charts : ofChart[c] = IF c = drawnChart THEN 1 ELSE 0

OnlyDrawnRuns ==
  ~mixedUp => \/ NoneRuns /\ outputOf \in {NoChart, drawnChart}
              \/ StoredRuns \/ DrawnRuns

\* Every step leaves at most the one run, or remembers that runs were mixed up.
LEMMA OnlyDrawnRunsStep ==
  ASSUME RunsBounded, OnlyDrawnRuns, [DrawingNext]_drawingVars
  PROVE  OnlyDrawnRuns'
<1> USE ChartDrawingAssumption DEF RunsBounded, DrawingTypeOK, OnlyDrawnRuns
<1> SUFFICES ASSUME ~mixedUp'
             PROVE  OnlyDrawnRuns'
  OBVIOUS
<1>1. ASSUME NEW c \in Charts, AskStored(c, drawnChart'), storedChart' = c
      PROVE  StoredRuns'
  <2>1. /\ ofStored' = ofStored + 1 /\ ofChart' = ofChart /\ drawnChart' = c
        /\ ofStored = 0 /\ \A d \in Charts : ofChart[d] = 0
    BY <1>1 DEF AskStored, AllAnswered
  <2> QED
    BY <1>1, <2>1 DEF StoredRuns
<1>2. CASE ShowChart
  <2>1. CASE storedChart # NoChart
    BY <1>1, <1>2, <2>1 DEF ShowChart
  <2>2. CASE storedChart = NoChart
    BY <1>2, <2>2 DEF ShowChart, NoneRuns, StoredRuns, DrawnRuns
  <2> QED
    BY <2>1, <2>2
<1>3. ASSUME NEW rerun \in BOOLEAN, StoreForm(rerun)
      PROVE  OnlyDrawnRuns'
  <2>1. CASE rerun
    BY <1>1, <1>3, <2>1 DEF StoreForm
  <2>2. CASE ~rerun
    <3>1. /\ ~mixedUp /\ UNCHANGED <<ofStored, ofChart, outputOf>>
          /\ ofStored > 0 => storedChart' = storedChart
          /\ drawnChart # NoChart => drawnChart' = drawnChart
      BY <1>3, <2>2 DEF StoreForm
    <3>2. CASE NoneRuns /\ outputOf \in {NoChart, drawnChart}
      BY <3>1, <3>2 DEF NoneRuns
    <3>3. CASE StoredRuns
      BY <3>1, <3>3 DEF StoredRuns
    <3>4. CASE DrawnRuns
      BY <3>1, <3>4 DEF DrawnRuns
    <3> QED
      BY <3>1, <3>2, <3>3, <3>4
  <2> QED
    BY <2>1, <2>2
<1>4. CASE RunPreview
  <2>1. /\ formChart \in Charts /\ drawnChart' = formChart /\ ofStored' = ofStored
        /\ ofChart' = [ofChart EXCEPT ![formChart] = @ + 1]
        /\ ofStored = 0 /\ \A c \in Charts : ofChart[c] = 0
    BY <1>4 DEF RunPreview, AllAnswered
  <2>2. \A c \in Charts : ofChart'[c] = IF c = formChart THEN 1 ELSE 0
    BY <2>1
  <2> QED
    BY <2>1, <2>2 DEF DrawnRuns
<1>5. CASE RunStored
  BY <1>1, <1>5 DEF RunStored, AskStored
<1>6. CASE StoredRead
  <2>1. StoredRuns
    BY <1>6 DEF StoredRead, NoneRuns, DrawnRuns
  <2> QED
    BY <1>6, <2>1 DEF StoredRead, StoredRuns, DrawnRuns
<1>7. ASSUME NEW c \in Charts, ChartAnswered(c)
      PROVE  OnlyDrawnRuns'
  <2>1. DrawnRuns /\ c = drawnChart
    BY <1>7 DEF ChartAnswered, NoneRuns, StoredRuns, DrawnRuns
  <2> QED
    BY <1>7, <2>1 DEF ChartAnswered, DrawnRuns, NoneRuns
<1>8. ASSUME NEW c \in Charts, EditChart(c)
      PROVE  OnlyDrawnRuns'
  BY <1>8 DEF EditChart, NoneRuns, StoredRuns, DrawnRuns
<1>9. CASE HideChart \/ ClearDrawing \/ UNCHANGED drawingVars
  BY <1>9 DEF HideChart, ClearDrawing, drawingVars, NoneRuns, StoredRuns, DrawnRuns
<1> QED
  BY <1>2, <1>3, <1>4, <1>5, <1>6, <1>7, <1>8, <1>9 DEF DrawingNext

\* At the start nothing runs.
LEMMA DrawingStart == DrawingInit => RunsBounded /\ OnlyDrawnRuns
<1> SUFFICES ASSUME DrawingInit
             PROVE  RunsBounded /\ OnlyDrawnRuns
  OBVIOUS
<1>1. /\ ofStored = 0 /\ ofChart = [c \in Charts |-> 0] /\ outputOf = NoChart
      /\ onShow = FALSE /\ busy = FALSE /\ mixedUp = FALSE /\ formChart = storedChart
      /\ drawnChart = NoChart /\ storedChart \in Charts \cup {NoChart}
  BY DEF DrawingInit
<1>2. 0 \in 0 .. MaxChartRuns
  BY ChartDrawingAssumption
<1>3. ofChart \in [Charts -> 0 .. MaxChartRuns]
  BY <1>1, <1>2
<1>4. DrawingTypeOK
  BY <1>1, <1>2, <1>3 DEF DrawingTypeOK
<1>5. RunsBounded
  BY <1>1, <1>4, ChartDrawingAssumption DEF RunsBounded
<1>6. OnlyDrawnRuns
  BY <1>1 DEF OnlyDrawnRuns, NoneRuns
<1> QED
  BY <1>5, <1>6

\* What is drawn starts well typed and stays so.
LEMMA DrawingTypes == DrawingSpec => []DrawingTypeOK
<1>1. RunsBounded => DrawingTypeOK
  BY DEF RunsBounded
<1> QED
  BY <1>1, DrawingStart, RunsBoundedStep, PTL DEF DrawingSpec

\* For any contents and any number of runs: an output is drawn with the content it was
\* computed from, but for the mixtures the property names.
THEOREM DrawsItsOutput == DrawingSpec => []OutputIsOfDrawnChart
<1>1. DrawingInit => RunsBounded /\ OnlyDrawnRuns
  BY DrawingStart
<1>2. RunsBounded /\ OnlyDrawnRuns => OutputIsOfDrawnChart
  <2> SUFFICES ASSUME RunsBounded, OnlyDrawnRuns, outputOf # NoChart, AllAnswered, ~mixedUp
               PROVE  outputOf = drawnChart
    BY DEF OutputIsOfDrawnChart
  <2>1. ~StoredRuns
    BY DEF AllAnswered, StoredRuns
  <2>2. ~DrawnRuns
    BY DEF AllAnswered, DrawnRuns, RunsBounded, DrawingTypeOK
  <2> QED
    BY <2>1, <2>2 DEF OnlyDrawnRuns
<1> QED
  BY <1>1, <1>2, RunsBoundedStep, OnlyDrawnRunsStep, PTL DEF DrawingSpec
-----------------------------------------------------------------------------
(* All pages together.                                                     *)

\* One page is on show and the others stand still, so each takes steps of its own or none: what
\* is proved of each holds of all of them together, and so do the types.
THEOREM PagesTypes == PagesSpec => []PagesTypeOK
<1>1. PagesInit => /\ SessionInit /\ ListInit /\ RunsInit /\ RowInit /\ FormInit /\ DrawingInit
  BY DEF PagesInit
<1>2. [PagesNext]_pagesVars =>
        /\ [SessionNext]_sessionVars /\ [ListNext]_listVars /\ [RunsNext]_runsVars
        /\ [RowNext]_editingVars /\ [FormNext]_formVars /\ [DrawingNext]_drawingVars
  BY DEF PagesNext, Still, pagesVars
<1>3. PagesSpec => /\ SessionSpec /\ ListSpec /\ RunsSpec /\ RowSpec /\ FormSpec /\ DrawingSpec
  BY <1>1, <1>2, PTL DEF PagesSpec, SessionSpec, ListSpec, RunsSpec, RowSpec, FormSpec, DrawingSpec
<1> QED
  BY <1>3, SessionTypes, ListTypes, RunsTypes, RowTypesKept, FormTypes, DrawingTypes, PTL
  DEF PagesTypeOK
=============================================================================
