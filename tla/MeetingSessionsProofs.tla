----------------------- MODULE MeetingSessionsProofs -----------------------
(***************************************************************************)
(* A login its browser has ended gets no session, and a nonce is exchanged *)
(* once: for any number of logins and calls in flight, and any lifetimes.  *)
(***************************************************************************)
EXTENDS MeetingSessions, TLAPS

ExchangeSteps == {"exchange", "bind", "bound", "revoke"}

\* An attempt's time counts from the moment its nonce was drawn, and only
\* drawn nonces are completed.
AttemptsAreDrawn ==
  /\ \A n \in Nonces : attempt[n] # None =>
       drawn[n] # None /\ attempt[n].expiresAt = drawn[n] + AttemptTime
  /\ \A c \in Calls : call[c] # None /\ call[c].op = "login" =>
       drawn[call[c].nonce] # None

\* A nonce is in the hands of one call at a time, and of none after it was
\* published.
ExchangesApart ==
  \A n \in Nonces :
    /\ \A c, d \in Calls : InExchange(c, n) /\ InExchange(d, n) => c = d
    /\ n \in issued => \A c \in Calls : ~InExchange(c, n)

\* Nobody can claim a nonce again that is exchanged or was published.
ClaimsLast ==
  /\ \A c \in Calls, n \in Nonces : InExchange(c, n) =>
       attempt[n] = None \/ attempt[n].claimed
  /\ \A n \in issued : /\ drawn[n] # None
                       /\ attempt[n] = None \/ attempt[n].claimed

\* As long as the nonce's cookie lives, a session can be found through its
\* attempt: ending the attempt ends the session.
SessionHasAttempt ==
  \A n \in Nonces : session[n] # None /\ drawn[n] + AttemptTime > now =>
    attempt[n] # None /\ attempt[n].published

\* What was ended has no session and no attempt that could still get one.
EndedIsOver ==
  \A n \in ended : /\ drawn[n] # None
                   /\ session[n] = None
                   /\ attempt[n] = None \/ n \in issued

LoginInvariant ==
  /\ TypeOK
  /\ ExchangesApart
  /\ AttemptsAreDrawn
  /\ ClaimsLast
  /\ SessionHasAttempt
  /\ EndedIsOver

LEMMA InitInvariant == Init => LoginInvariant
BY SessionsAssumption DEF Init, LoginInvariant, TypeOK, ExchangesApart,
   InExchange, AttemptsAreDrawn, ClaimsLast, SessionHasAttempt, EndedIsOver,
   Attempts, Sessions, Times

----------------------------------------------------------------------------
(* Steps that draw, claim and publish nothing *)

\* What such a step may make of a call: it ends, starts a logout, a request of
\* a published session or a completion of a drawn nonce, or goes on with its
\* nonce and does not enter the exchange.
CallKept(c) == call'[c] # None =>
  \/ call'[c].op = "logout"
  \/ call'[c].op = "request" /\ call'[c].nonce \in issued
  \/ /\ call'[c].op = "login"
     /\ call'[c].step = "old"
     /\ call'[c].nonce \in Nonces
     /\ drawn[call'[c].nonce] # None
  \/ /\ call[c] # None
     /\ call'[c].op = call[c].op
     /\ call'[c].nonce = call[c].nonce
     /\ call'[c].step \in ExchangeSteps => call[c].step \in ExchangeSteps

\* No call enters the exchange.
LEMMA StaysInExchange ==
  ASSUME NEW c \in Calls, NEW n \in Nonces, CallKept(c), InExchange(c, n)'
  PROVE  InExchange(c, n)
BY DEF CallKept, InExchange, ExchangeSteps

LEMMA ForgettingStep ==
  ASSUME LoginInvariant,
         now' \in Times, drawn' = drawn, issued' = issued,
         call' \in [Calls -> Call \cup {None}],
         \A c \in Calls : CallKept(c),
         remote' \in [Nonces -> {"none", "bound", "revoked", "unknown"}],
         attempt' \in [Nonces -> Attempt \cup {None}],
         \A n \in Nonces : attempt'[n] # None => attempt'[n] = attempt[n],
         session' \in [Nonces -> Session \cup {None}],
         \A n \in Nonces : session'[n] # None => session[n] # None,
         SessionHasAttempt',
         ended' \subseteq Nonces, exchanges' \in [Nonces -> Nat],
         \A n \in ended' : \/ n \in ended
                           \/ /\ drawn[n] # None
                              /\ session'[n] = None
                              /\ attempt'[n] = None \/ n \in issued
  PROVE  LoginInvariant'
<1>1. TypeOK'
  <2>1. \A c \in Calls : call'[c] # None /\ call'[c].op # "logout" =>
          call'[c].nonce \in Nonces
    BY DEF LoginInvariant, TypeOK, CallKept
  <2>2. \A c \in Calls : call'[c] # None /\ call'[c].op = "request" =>
          call'[c].nonce \in issued'
    BY DEF LoginInvariant, TypeOK, CallKept
  <2>3. /\ \A n \in Attempts(attempt') :
             attempt'[n].published => attempt'[n].claimed /\ n \in issued'
        /\ Sessions(session') \subseteq issued'
    BY DEF LoginInvariant, TypeOK, Attempts, Sessions
  <2> QED
    BY <2>1, <2>2, <2>3 DEF LoginInvariant, TypeOK
<1>2. ExchangesApart'
  <2>1. \A n \in Nonces, c, d \in Calls :
          InExchange(c, n)' /\ InExchange(d, n)' => c = d
    BY StaysInExchange DEF LoginInvariant, ExchangesApart
  <2>2. \A n \in Nonces : n \in issued' => \A c \in Calls : ~InExchange(c, n)'
    BY StaysInExchange DEF LoginInvariant, ExchangesApart
  <2> QED
    BY <2>1, <2>2 DEF ExchangesApart
<1>3. AttemptsAreDrawn'
  <2>1. \A n \in Nonces : attempt'[n] # None =>
          drawn'[n] # None /\ attempt'[n].expiresAt = drawn'[n] + AttemptTime
    BY DEF LoginInvariant, AttemptsAreDrawn
  <2>2. ASSUME NEW c \in Calls, call'[c] # None, call'[c].op = "login"
        PROVE  drawn'[call'[c].nonce] # None
    BY <2>2 DEF LoginInvariant, AttemptsAreDrawn, CallKept
  <2> QED
    BY <2>1, <2>2 DEF AttemptsAreDrawn
<1>4. ClaimsLast'
  <2>1. ASSUME NEW c \in Calls, NEW n \in Nonces, InExchange(c, n)'
        PROVE  attempt'[n] = None \/ attempt'[n].claimed
    <3>1. InExchange(c, n)
      BY <2>1, StaysInExchange
    <3> QED
      BY <3>1 DEF LoginInvariant, ClaimsLast
  <2>2. \A n \in issued' : /\ drawn'[n] # None
                           /\ attempt'[n] = None \/ attempt'[n].claimed
    BY DEF LoginInvariant, ClaimsLast, TypeOK
  <2> QED
    BY <2>1, <2>2 DEF ClaimsLast
<1>5. EndedIsOver'
  BY DEF LoginInvariant, TypeOK, EndedIsOver
<1> QED
  BY <1>1, <1>2, <1>3, <1>4, <1>5 DEF LoginInvariant

\* In particular a step that forgets no attempt.
LEMMA AttemptsStay ==
  ASSUME LoginInvariant, now' = now, drawn' = drawn, attempt' = attempt,
         \A n \in Nonces : session'[n] # None => session[n] # None
  PROVE  SessionHasAttempt'
BY DEF LoginInvariant, SessionHasAttempt

\* One call is replaced by a value a call may become; the others stay.
LEMMA OneCall ==
  ASSUME TypeOK, NEW c \in Calls, NEW v \in Call \cup {None},
         call' = [call EXCEPT ![c] = v],
         call'[c] = v => CallKept(c)
  PROVE  /\ call' \in [Calls -> Call \cup {None}]
         /\ \A d \in Calls : CallKept(d)
<1>1. call'[c] = v /\ \A d \in Calls \ {c} : call'[d] = call[d]
  BY DEF TypeOK
<1>2. call' \in [Calls -> Call \cup {None}]
  BY DEF TypeOK
<1>3. \A d \in Calls \ {c} : CallKept(d)
  BY <1>1 DEF CallKept
<1> QED
  BY <1>1, <1>2, <1>3

LEMMA CallEnds ==
  ASSUME TypeOK, NEW c \in Calls, Ends(c)
  PROVE  /\ call' \in [Calls -> Call \cup {None}]
         /\ \A d \in Calls : CallKept(d)
<1>1. call' = [call EXCEPT ![c] = None] /\ call'[c] = None
  BY DEF Ends, TypeOK
<1>2. CallKept(c)
  BY <1>1 DEF CallKept
<1> QED
  BY <1>1, <1>2, OneCall

LEMMA CallGoesOn ==
  ASSUME TypeOK, NEW c \in Calls, call[c] # None,
         NEW step \in {"exchange", "bind", "bound", "revoke", "check",
                       "permit", "authorize", "execute", "current"},
         step \in ExchangeSteps => call[c].step \in ExchangeSteps,
         Becomes(c, step)
  PROVE  /\ call' \in [Calls -> Call \cup {None}]
         /\ \A d \in Calls : CallKept(d)
<1> DEFINE v == [call[c] EXCEPT !.step = step]
<1>1. call[c] \in Call
  BY DEF TypeOK
<1>2. v \in Call /\ v.op = call[c].op /\ v.nonce = call[c].nonce /\ v.step = step
  BY <1>1 DEF Call
<1>3. call' = [call EXCEPT ![c] = v] /\ call'[c] = v
  BY DEF Becomes, TypeOK
<1> HIDE DEF v
<1>4. CallKept(c)
  BY <1>2, <1>3 DEF CallKept
<1> QED
  BY <1>2, <1>3, <1>4, OneCall

\* Maps without some entries, and without expired ones.
LEMMA WithoutType ==
  ASSUME NEW V, NEW map \in [Nonces -> V \cup {None}], NEW S
  PROVE  /\ Without(map, S) \in [Nonces -> V \cup {None}]
         /\ \A n \in Nonces : /\ n \in S => Without(map, S)[n] = None
                              /\ n \notin S => Without(map, S)[n] = map[n]
BY DEF Without

LEMMA FreshType ==
  ASSUME NEW V, NEW map \in [Nonces -> V \cup {None}]
  PROVE  /\ Fresh(map) \in [Nonces -> V \cup {None}]
         /\ \A n \in Nonces : Fresh(map)[n] # None =>
              Fresh(map)[n] = map[n] /\ map[n].expiresAt > now
         /\ \A n \in Nonces : map[n] # None /\ map[n].expiresAt > now =>
              Fresh(map)[n] = map[n]
BY DEF Fresh

----------------------------------------------------------------------------
(* Each step *)

\* A call ends or goes on, and sessions may be forgotten.
LEMMA CallStep ==
  ASSUME LoginInvariant, UNCHANGED <<now, attempt, drawn, issued, ended, exchanges>>,
         call' \in [Calls -> Call \cup {None}],
         \A c \in Calls : CallKept(c),
         remote' \in [Nonces -> {"none", "bound", "revoked", "unknown"}],
         session' \in [Nonces -> Session \cup {None}],
         \A n \in Nonces : session'[n] # None => session[n] # None
  PROVE  LoginInvariant'
<1>1. SessionHasAttempt'
  BY AttemptsStay
<1>2. now' \in Times /\ ended' \subseteq Nonces /\ exchanges' \in [Nonces -> Nat]
  BY DEF LoginInvariant, TypeOK
<1>3. attempt' \in [Nonces -> Attempt \cup {None}]
  BY DEF LoginInvariant, TypeOK
<1> QED
  BY <1>1, <1>2, <1>3, ForgettingStep

LEMMA ClaimRefusedStep ==
  ASSUME LoginInvariant, NEW c \in Calls, ClaimRefused(c)
  PROVE  LoginInvariant'
<1> USE DEF LoginInvariant
<1>1. remote' \in [Nonces -> {"none", "bound", "revoked", "unknown"}]
  BY DEF ClaimRefused, TypeOK
<1>2. session' = session /\ session \in [Nonces -> Session \cup {None}]
  BY DEF ClaimRefused, TypeOK
<1>3. Ends(c) /\ UNCHANGED <<now, attempt, drawn, issued, ended, exchanges>>
  BY DEF ClaimRefused
<1> QED
  BY <1>1, <1>2, <1>3, CallEnds, CallStep

LEMMA ExchangedStep ==
  ASSUME LoginInvariant, NEW c \in Calls, Exchanged(c)
  PROVE  LoginInvariant'
<1> USE DEF LoginInvariant
<1>1. call[c] # None /\ call[c].step \in ExchangeSteps /\ Becomes(c, "bind")
  BY DEF Exchanged, Waits, ExchangeSteps
<1>2. /\ call' \in [Calls -> Call \cup {None}]
      /\ \A d \in Calls : CallKept(d)
  BY <1>1, CallGoesOn
<1>3. UNCHANGED <<now, attempt, session, remote, drawn, issued, ended, exchanges>>
  BY DEF Exchanged
<1> QED
  BY <1>2, <1>3, CallStep DEF TypeOK

LEMMA RemoteBindsStep ==
  ASSUME LoginInvariant, NEW c \in Calls, NEW life \in Lives,
         RemoteBinds(c, life)
  PROVE  LoginInvariant'
<1> USE DEF LoginInvariant
<1> DEFINE v == [call[c] EXCEPT !.step = "bound", !.grant = now + life]
<1>1. call[c] \in Call /\ call[c].op = "login" /\ call[c].step = "bind"
  BY DEF RemoteBinds, Waits, TypeOK
<1>2. now + life \in Nat
  BY SessionsAssumption DEF TypeOK, Times
<1>3. v \in Call /\ v.op = call[c].op /\ v.nonce = call[c].nonce
  BY <1>1, <1>2 DEF Call
<1>4. call' = [call EXCEPT ![c] = v] /\ call'[c] = v
  BY DEF RemoteBinds, TypeOK
<1> HIDE DEF v
<1>5. CallKept(c)
  BY <1>1, <1>3, <1>4, CallAssumption DEF CallKept, ExchangeSteps
<1>6. /\ call' \in [Calls -> Call \cup {None}]
      /\ \A d \in Calls : CallKept(d)
  BY <1>3, <1>4, <1>5, OneCall
<1>7. /\ UNCHANGED <<now, attempt, session, drawn, issued, ended, exchanges>>
      /\ remote' \in [Nonces -> {"none", "bound", "revoked", "unknown"}]
  BY DEF RemoteBinds, TypeOK
<1> QED
  BY <1>6, <1>7, CallStep DEF TypeOK

\* A login that fails before a grant is known, or whose grant was given up,
\* forgets its attempt; nothing was published for its nonce.
LEMMA LoginEndsStep ==
  ASSUME LoginInvariant, NEW c \in Calls, LoginFails(c) \/ LoginRevoked(c)
  PROVE  LoginInvariant'
<1> USE DEF LoginInvariant
<1> DEFINE n == call[c].nonce
<1>1. /\ call[c] # None /\ call[c].op = "login"
      /\ call[c].step \in ExchangeSteps
      /\ attempt' = Without(attempt, {n})
      /\ Ends(c)
      /\ UNCHANGED <<now, session, drawn, issued, ended, exchanges>>
  BY DEF LoginFails, LoginRevoked, Forgets, Waits, ExchangeSteps
<1>2. n \in Nonces /\ InExchange(c, n)
  BY <1>1 DEF InExchange, ExchangeSteps, TypeOK
<1>3. session[n] = None
  BY <1>2 DEF ExchangesApart, TypeOK, Sessions
<1>4. remote' \in [Nonces -> {"none", "bound", "revoked", "unknown"}]
  BY DEF LoginFails, LoginRevoked, RefusedGrant, TypeOK
<1>5. /\ attempt' \in [Nonces -> Attempt \cup {None}]
      /\ \A m \in Nonces : m # n => attempt'[m] = attempt[m]
      /\ attempt'[n] = None
  BY <1>1, <1>2 DEF Without, TypeOK
<1>6. SessionHasAttempt'
  BY <1>1, <1>2, <1>3, <1>5 DEF SessionHasAttempt
<1>7. /\ call' \in [Calls -> Call \cup {None}]
      /\ \A d \in Calls : CallKept(d)
  BY <1>1, CallEnds
<1> HIDE DEF n
<1> QED
  BY <1>1, <1>4, <1>5, <1>6, <1>7, ForgettingStep DEF TypeOK

\* What expires at once in both maps keeps sessions findable.
LEMMA SweptStep ==
  ASSUME LoginInvariant, now' = now, drawn' = drawn,
         attempt' = Fresh(attempt), session' = Fresh(session)
  PROVE  SessionHasAttempt'
<1> USE DEF LoginInvariant
<1> SUFFICES ASSUME NEW n \in Nonces, session'[n] # None,
                    drawn[n] + AttemptTime > now
             PROVE  attempt'[n] # None /\ attempt'[n].published
  BY DEF SessionHasAttempt
<1>1. session[n] # None
  BY FreshType DEF TypeOK
<1>2. attempt[n] # None /\ attempt[n].published
  BY <1>1 DEF SessionHasAttempt
<1>3. attempt[n].expiresAt > now
  BY <1>2 DEF AttemptsAreDrawn
<1> QED
  BY <1>2, <1>3, FreshType DEF TypeOK

LEMMA PublishRefusedStep ==
  ASSUME LoginInvariant, NEW c \in Calls, PublishRefused(c)
  PROVE  LoginInvariant'
<1> USE DEF LoginInvariant
<1>1. /\ call[c] # None /\ call[c].step \in ExchangeSteps /\ Becomes(c, "revoke")
      /\ UNCHANGED <<now, remote, drawn, issued, ended, exchanges>>
  BY DEF PublishRefused, Waits, ExchangeSteps
<1>2. /\ call' \in [Calls -> Call \cup {None}]
      /\ \A d \in Calls : CallKept(d)
  BY <1>1, CallGoesOn
<1>3. CASE UNCHANGED <<attempt, session>>
  BY <1>1, <1>2, <1>3, CallStep DEF TypeOK
<1>4. CASE attempt' = Fresh(attempt) /\ session' = Fresh(session)
  <2>1. SessionHasAttempt'
    BY <1>1, <1>4, SweptStep
  <2>2. /\ attempt' \in [Nonces -> Attempt \cup {None}]
        /\ \A n \in Nonces : attempt'[n] # None => attempt'[n] = attempt[n]
    BY <1>4, FreshType DEF TypeOK
  <2>3. /\ session' \in [Nonces -> Session \cup {None}]
        /\ \A n \in Nonces : session'[n] # None => session[n] # None
    BY <1>4, FreshType DEF TypeOK
  <2> QED
    BY <1>1, <1>2, <2>1, <2>2, <2>3, ForgettingStep DEF TypeOK
<1> QED
  BY <1>3, <1>4 DEF PublishRefused

\* The session of a published attempt, and it alone, is what a cancellation
\* takes along.
LEMMA PublishedType ==
  ASSUME NEW n \in Nonces \cup {None}
  PROVE  /\ PublishedBy(n) \subseteq Nonces
         /\ n = None => PublishedBy(n) = {}
         /\ n \in Nonces /\ attempt[n] # None /\ attempt[n].published
              => n \in PublishedBy(n)
BY SessionsAssumption DEF PublishedBy

\* Cancelling an attempt whose cookie lives leaves no session behind.
LEMMA CancelledAttempt ==
  ASSUME LoginInvariant, NEW p \in Nonces \cup {None}, Cookie(p),
         NEW S, PublishedBy(p) \subseteq S
  PROVE  /\ \A n \in Nonces :
              /\ Without(session, S)[n] # None
              /\ drawn[n] + AttemptTime > now
              => /\ n # p
                 /\ attempt[n] # None /\ attempt[n].published
                 /\ attempt[n].expiresAt > now
         /\ p # None => /\ Without(session, S)[p] = None
                        /\ drawn[p] # None
<1> USE DEF LoginInvariant
<1>1. ASSUME NEW n \in Nonces, Without(session, S)[n] # None,
             drawn[n] + AttemptTime > now
      PROVE  /\ n # p
             /\ attempt[n] # None /\ attempt[n].published
             /\ attempt[n].expiresAt > now
  <2>1. session[n] # None /\ n \notin S
    BY <1>1 DEF Without
  <2>2. attempt[n] # None /\ attempt[n].published
    BY <1>1, <2>1 DEF SessionHasAttempt
  <2>3. n # p
    BY <2>1, <2>2, PublishedType
  <2>4. attempt[n].expiresAt > now
    BY <1>1, <2>2 DEF AttemptsAreDrawn
  <2> QED
    BY <2>2, <2>3, <2>4
<1>2. ASSUME p # None
      PROVE  Without(session, S)[p] = None /\ drawn[p] # None
  <2>1. p \in Nonces /\ drawn[p] # None /\ now < drawn[p] + AttemptTime
    BY <1>2 DEF Cookie
  <2>2. drawn[p] + AttemptTime > now
    BY <2>1, SessionsAssumption DEF TypeOK, Times
  <2> QED
    BY <1>1, <2>1, <2>2
<1> QED
  BY <1>1, <1>2

\* The two maps after a cancellation and a sweep.
KeptAttempts(p) == Fresh(Without(attempt, {p}))
KeptSessions(p) == Fresh(Without(session, PublishedBy(p)))

LEMMA CancelAndSweep ==
  ASSUME LoginInvariant, NEW p \in Nonces \cup {None}, Cookie(p)
  PROVE  /\ KeptAttempts(p) \in [Nonces -> Attempt \cup {None}]
         /\ \A n \in Nonces : KeptAttempts(p)[n] # None => KeptAttempts(p)[n] = attempt[n]
         /\ KeptSessions(p) \in [Nonces -> Session \cup {None}]
         /\ \A n \in Nonces : KeptSessions(p)[n] # None =>
              /\ session[n] # None
              /\ drawn[n] + AttemptTime > now =>
                   KeptAttempts(p)[n] # None /\ KeptAttempts(p)[n].published
         /\ p # None => /\ KeptSessions(p)[p] = None
                        /\ KeptAttempts(p)[p] = None
                        /\ drawn[p] # None
<1> USE DEF LoginInvariant
<1> DEFINE w == Without(session, PublishedBy(p))
           a == KeptAttempts(p)
           s == KeptSessions(p)
<1>1. \A n \in Nonces : s[n] # None => w[n] # None /\ session[n] # None
  BY DEF KeptAttempts, KeptSessions, Fresh, Without
<1>2. /\ s \in [Nonces -> Session \cup {None}]
      /\ a \in [Nonces -> Attempt \cup {None}]
  BY DEF KeptAttempts, KeptSessions, Fresh, Without, TypeOK
<1>3. \A n \in Nonces : a[n] # None => a[n] = attempt[n]
  BY DEF KeptAttempts, KeptSessions, Fresh, Without
<1>4. ASSUME NEW n \in Nonces, s[n] # None, drawn[n] + AttemptTime > now
      PROVE  a[n] # None /\ a[n].published
  <2>1. w[n] # None
    BY <1>1, <1>4
  <2>2. /\ n # p
        /\ attempt[n] # None /\ attempt[n].published
        /\ attempt[n].expiresAt > now
    BY <1>4, <2>1, CancelledAttempt
  <2> QED
    BY <2>2 DEF KeptAttempts, KeptSessions, Fresh, Without
<1>5. ASSUME p # None
      PROVE  s[p] = None /\ a[p] = None /\ drawn[p] # None
  <2>1. p \in Nonces /\ w[p] = None /\ drawn[p] # None
    BY <1>5, CancelledAttempt
  <2> QED
    BY <2>1 DEF KeptAttempts, KeptSessions, Fresh, Without
<1> QED
  BY <1>1, <1>2, <1>3, <1>4, <1>5

LEMMA BeginRefusedStep ==
  ASSUME LoginInvariant, NEW p \in NonceOrNone, BeginRefused(p)
  PROVE  LoginInvariant'
<1> USE DEF LoginInvariant
<1>1. /\ Cookie(p)
      /\ attempt' = KeptAttempts(p)
      /\ session' = KeptSessions(p)
      /\ ended' = ended \cup ({p} \ {None})
      /\ UNCHANGED <<now, call, remote, drawn, issued, exchanges>>
  BY DEF BeginRefused, KeptAttempts, KeptSessions
<1>2. /\ attempt' \in [Nonces -> Attempt \cup {None}]
      /\ \A n \in Nonces : attempt'[n] # None => attempt'[n] = attempt[n]
      /\ session' \in [Nonces -> Session \cup {None}]
      /\ \A n \in Nonces : session'[n] # None =>
           /\ session[n] # None
           /\ drawn[n] + AttemptTime > now =>
                attempt'[n] # None /\ attempt'[n].published
      /\ p # None => session'[p] = None /\ attempt'[p] = None /\ drawn[p] # None
  BY <1>1, CancelAndSweep DEF NonceOrNone
<1>3. SessionHasAttempt'
  BY <1>1, <1>2 DEF SessionHasAttempt
<1>4. /\ ended' \subseteq Nonces
      /\ \A n \in ended' : \/ n \in ended
                           \/ /\ drawn[n] # None
                              /\ session'[n] = None
                              /\ attempt'[n] = None \/ n \in issued
  BY <1>1, <1>2 DEF TypeOK, NonceOrNone
<1>5. \A c \in Calls : CallKept(c)
  BY <1>1 DEF CallKept
<1> QED
  BY <1>1, <1>2, <1>3, <1>4, <1>5, ForgettingStep DEF TypeOK

LEMMA LogoutBeginStep ==
  ASSUME LoginInvariant, NEW c \in Calls, NEW id \in NonceOrNone,
         NEW n \in NonceOrNone, LogoutBegin(c, id, n)
  PROVE  LoginInvariant'
<1> USE DEF LoginInvariant
<1> DEFINE gone == PublishedBy(n) \cup ({id} \ {None})
           v == NewCall("logout", "revoke", n, id,
                        {m \in gone : session[m] # None})
<1>1. /\ Known(id) /\ Cookie(n)
      /\ session' = Without(session, gone)
      /\ attempt' = Without(attempt, {n})
      /\ ended' = ended \cup ({id, n} \ {None})
      /\ call' = [call EXCEPT ![c] = v]
      /\ UNCHANGED <<now, remote, drawn, issued, exchanges>>
  BY DEF LogoutBegin
<1>2. gone \subseteq Nonces /\ PublishedBy(n) \subseteq gone
  BY PublishedType DEF NonceOrNone
<1>3. v \in Call /\ v.op = "logout"
  BY <1>2, SessionsAssumption DEF NewCall, Call, NonceOrNone, Times
<1>4. call'[c] = v
  BY <1>1 DEF TypeOK
<1> HIDE DEF v
<1>5. /\ call' \in [Calls -> Call \cup {None}]
      /\ \A d \in Calls : CallKept(d)
  <2>1. CallKept(c)
    BY <1>3, <1>4 DEF CallKept
  <2> QED
    BY <1>1, <1>3, <2>1, OneCall
<1>6. /\ \A m \in Nonces :
           session'[m] # None /\ drawn[m] + AttemptTime > now =>
             m # n /\ attempt[m] # None /\ attempt[m].published
      /\ n # None => session'[n] = None /\ drawn[n] # None
  BY <1>1, <1>2, CancelledAttempt DEF NonceOrNone
<1>7. /\ attempt' \in [Nonces -> Attempt \cup {None}]
      /\ \A m \in Nonces : attempt'[m] # None => attempt'[m] = attempt[m]
      /\ \A m \in Nonces : m # n => attempt'[m] = attempt[m]
      /\ n # None => attempt'[n] = None
  BY <1>1 DEF Without, TypeOK, NonceOrNone
<1>8. /\ session' \in [Nonces -> Session \cup {None}]
      /\ \A m \in Nonces : session'[m] # None => session[m] # None
      /\ id # None => session'[id] = None
  BY <1>1 DEF Without, TypeOK, NonceOrNone
<1>9. SessionHasAttempt'
  BY <1>1, <1>6, <1>7 DEF SessionHasAttempt
<1>10. id # None => id \in issued /\ drawn[id] # None
  BY <1>1 DEF Known, ClaimsLast
<1>11. /\ ended' \subseteq Nonces
       /\ \A m \in ended' : \/ m \in ended
                            \/ /\ drawn[m] # None
                               /\ session'[m] = None
                               /\ attempt'[m] = None \/ m \in issued
  BY <1>1, <1>6, <1>7, <1>8, <1>10 DEF TypeOK, NonceOrNone
<1> QED
  BY <1>1, <1>5, <1>7, <1>8, <1>9, <1>11, ForgettingStep DEF TypeOK

LEMMA CompleteBeginStep ==
  ASSUME LoginInvariant, NEW c \in Calls, NEW n \in Nonces,
         NEW old \in NonceOrNone, CompleteBegin(c, n, old)
  PROVE  LoginInvariant'
<1> USE DEF LoginInvariant
<1> DEFINE v == NewCall("login", "old", n, old, Held(old))
<1>1. /\ Cookie(n) /\ Known(old)
      /\ call' = [call EXCEPT ![c] = v] \/ call' = call
      /\ session' = Without(session, {old})
      /\ ended' = ended \cup ({old} \ {None})
      /\ UNCHANGED <<now, attempt, remote, drawn, issued, exchanges>>
  BY DEF CompleteBegin
<1>2. /\ v \in Call
      /\ v.op = "login" /\ v.step = "old" /\ v.nonce = n
  BY SessionsAssumption DEF NewCall, Call, NonceOrNone, Times, Held
<1>3. drawn[n] # None
  BY <1>1, SessionsAssumption DEF Cookie
<1> HIDE DEF v
<1>4. /\ call' \in [Calls -> Call \cup {None}]
      /\ \A d \in Calls : CallKept(d)
  <2>1. CASE call' = [call EXCEPT ![c] = v]
    <3>1. call'[c] = v
      BY <2>1 DEF TypeOK
    <3>2. CallKept(c)
      BY <1>2, <1>3, <3>1 DEF CallKept
    <3> QED
      BY <1>2, <2>1, <3>2, OneCall
  <2>2. CASE call' = call
    BY <2>2 DEF CallKept, TypeOK
  <2> QED
    BY <1>1, <2>1, <2>2
<1>5. /\ session' \in [Nonces -> Session \cup {None}]
      /\ \A m \in Nonces : session'[m] # None => session[m] # None
      /\ old # None => session'[old] = None
  BY <1>1 DEF Without, TypeOK, NonceOrNone
<1>6. SessionHasAttempt'
  BY <1>1, <1>5, AttemptsStay
<1>7. old # None => old \in issued /\ drawn[old] # None
  BY <1>1 DEF Known, ClaimsLast
<1>8. /\ ended' \subseteq Nonces
      /\ \A m \in ended' : \/ m \in ended
                           \/ /\ drawn[m] # None
                              /\ session'[m] = None
                              /\ attempt'[m] = None \/ m \in issued
  BY <1>1, <1>5, <1>7 DEF TypeOK, NonceOrNone
<1>9. /\ attempt' \in [Nonces -> Attempt \cup {None}]
      /\ \A m \in Nonces : attempt'[m] # None => attempt'[m] = attempt[m]
  BY <1>1 DEF TypeOK
<1> QED
  BY <1>1, <1>4, <1>5, <1>6, <1>8, <1>9, ForgettingStep DEF TypeOK

LEMMA LogoutGoesOnStep ==
  ASSUME LoginInvariant, NEW c \in Calls,
         (\E m \in Nonces : LogoutRevokes(c, m)) \/ LogoutEnds(c)
  PROVE  LoginInvariant'
<1> USE DEF LoginInvariant
<1>1. ASSUME NEW m \in Nonces, LogoutRevokes(c, m)
      PROVE  LoginInvariant'
  <2> DEFINE v == [call[c] EXCEPT !.todo = @ \ {m}]
  <2>1. /\ call[c] \in Call /\ call[c].op = "logout"
        /\ call' = [call EXCEPT ![c] = v]
        /\ remote' \in [Nonces -> {"none", "bound", "revoked", "unknown"}]
        /\ UNCHANGED <<now, attempt, session, drawn, issued, ended, exchanges>>
    BY <1>1 DEF LogoutRevokes, Waits, TypeOK
  <2>2. v \in Call /\ v.op = "logout"
    BY <2>1 DEF Call
  <2>3. call'[c] = v
    BY <2>1 DEF TypeOK
  <2> HIDE DEF v
  <2>4. /\ call' \in [Calls -> Call \cup {None}]
        /\ \A d \in Calls : CallKept(d)
    <3>1. CallKept(c)
      BY <2>2, <2>3 DEF CallKept
    <3> QED
      BY <2>1, <2>2, <3>1, OneCall
  <2> QED
    BY <2>1, <2>4, CallStep DEF TypeOK
<1>2. CASE LogoutEnds(c)
  <2>1. Ends(c) /\ UNCHANGED <<now, attempt, session, remote, drawn, issued, ended, exchanges>>
    BY <1>2 DEF LogoutEnds
  <2> QED
    BY <2>1, CallEnds, CallStep DEF TypeOK
<1> QED
  BY <1>1, <1>2

LEMMA RequestBeginStep ==
  ASSUME LoginInvariant, NEW c \in Calls, NEW n \in Nonces, RequestBegin(c, n)
  PROVE  LoginInvariant'
<1> USE DEF LoginInvariant
<1> DEFINE v == NewCall("request", "check", n, None, {})
<1>1. /\ n \in issued
      /\ session' = session \/ session' = Without(session, {n})
      /\ call' = [call EXCEPT ![c] = v] \/ call' = call
      /\ UNCHANGED <<now, attempt, remote, drawn, issued, ended, exchanges>>
  BY DEF RequestBegin, ForgetExpired
<1>2. v \in Call /\ v.op = "request" /\ v.nonce = n
  BY SessionsAssumption DEF NewCall, Call, Times
<1> HIDE DEF v
<1>3. /\ call' \in [Calls -> Call \cup {None}]
      /\ \A d \in Calls : CallKept(d)
  <2>1. CASE call' = [call EXCEPT ![c] = v]
    <3>1. call'[c] = v
      BY <2>1 DEF TypeOK
    <3>2. CallKept(c)
      BY <1>1, <1>2, <3>1 DEF CallKept
    <3> QED
      BY <1>2, <2>1, <3>2, OneCall
  <2>2. CASE call' = call
    BY <2>2 DEF CallKept, TypeOK
  <2> QED
    BY <1>1, <2>1, <2>2
<1>4. /\ session' \in [Nonces -> Session \cup {None}]
      /\ \A m \in Nonces : session'[m] # None => session[m] # None
  BY <1>1 DEF Without, TypeOK
<1> QED
  BY <1>1, <1>3, <1>4, CallStep DEF TypeOK

\* A check changes a session that is there, or takes it away.
LEMMA CheckedStep ==
  ASSUME LoginInvariant, NEW c \in Calls, NEW life \in Lives, Checked(c, life)
  PROVE  LoginInvariant'
<1> USE DEF LoginInvariant
<1> DEFINE n == call[c].nonce
           v == CheckedSession(n, now + life)
<1>1. /\ call[c] # None /\ call[c].op = "request" /\ call[c].step = "check"
      /\ session' = [session EXCEPT ![n] = v]
      /\ Ends(c) \/ Becomes(c, "permit")
      /\ UNCHANGED <<now, attempt, remote, drawn, issued, ended, exchanges>>
  BY DEF Checked, Waits
<1>2. v = None \/ (session[n] # None /\ v \in Session)
  <2>1. now + life \in Nat
    BY SessionsAssumption DEF TypeOK, Times
  <2>2. ASSUME session[n] # None
        PROVE  session[n] \in Session
    BY <1>1, <2>2 DEF TypeOK
  <2> QED
    BY <2>1, <2>2 DEF CheckedSession, CheckAccepts, Live, Session, Earlier
<1>3. n \in Nonces
  BY <1>1 DEF TypeOK
<1> HIDE DEF v, n
<1>4. /\ session' \in [Nonces -> Session \cup {None}]
      /\ \A m \in Nonces : session'[m] # None => session[m] # None
  BY <1>1, <1>2, <1>3 DEF TypeOK
<1>5. /\ call' \in [Calls -> Call \cup {None}]
      /\ \A d \in Calls : CallKept(d)
  <2>1. CASE Ends(c)
    BY <2>1, CallEnds
  <2>2. CASE Becomes(c, "permit")
    BY <1>1, <2>2, CallGoesOn DEF ExchangeSteps
  <2> QED
    BY <1>1, <2>1, <2>2
<1> QED
  BY <1>1, <1>4, <1>5, CallStep DEF TypeOK

LEMMA RequestEndsStep ==
  ASSUME LoginInvariant, NEW c \in Calls,
         CheckFails(c) \/ Execute(c) \/ RequestFails(c)
  PROVE  LoginInvariant'
<1> USE DEF LoginInvariant
<1>1. /\ Ends(c)
      /\ session' = session \/ session' = Without(session, {call[c].nonce})
      /\ UNCHANGED <<now, attempt, remote, drawn, issued, ended, exchanges>>
  BY DEF CheckFails, Execute, RequestFails, ForgetExpired
<1>2. /\ session' \in [Nonces -> Session \cup {None}]
      /\ \A m \in Nonces : session'[m] # None => session[m] # None
  BY <1>1 DEF Without, TypeOK
<1> QED
  BY <1>1, <1>2, CallEnds, CallStep DEF TypeOK

LEMMA RequestGoesOnStep ==
  ASSUME LoginInvariant, NEW c \in Calls, Permitted(c) \/ Authorized(c)
  PROVE  LoginInvariant'
<1> USE DEF LoginInvariant
<1>1. /\ call[c] # None
      /\ Becomes(c, "authorize") \/ Becomes(c, "current")
      /\ UNCHANGED <<now, attempt, session, remote, drawn, issued, ended, exchanges>>
  BY DEF Permitted, Authorized, Waits
<1>2. /\ call' \in [Calls -> Call \cup {None}]
      /\ \A d \in Calls : CallKept(d)
  <2>1. CASE Becomes(c, "authorize")
    BY <1>1, <2>1, CallGoesOn DEF ExchangeSteps
  <2>2. CASE Becomes(c, "current")
    BY <1>1, <2>2, CallGoesOn DEF ExchangeSteps
  <2> QED
    BY <1>1, <2>1, <2>2
<1> QED
  BY <1>1, <1>2, CallStep DEF TypeOK

LEMMA CloseStep ==
  ASSUME LoginInvariant, Close
  PROVE  LoginInvariant'
<1> USE DEF LoginInvariant
<1>1. /\ attempt' = Without(attempt, Nonces)
      /\ session' = Without(session, Nonces)
      /\ UNCHANGED <<now, call, remote, drawn, issued, ended, exchanges>>
  BY DEF Close
<1>2. \A n \in Nonces : attempt'[n] = None /\ session'[n] = None
  BY <1>1 DEF Without
<1>3. /\ attempt' \in [Nonces -> Attempt \cup {None}]
      /\ session' \in [Nonces -> Session \cup {None}]
  BY <1>1 DEF Without
<1>4. SessionHasAttempt'
  BY <1>2 DEF SessionHasAttempt
<1>5. \A c \in Calls : CallKept(c)
  BY <1>1 DEF CallKept
<1> QED
  BY <1>1, <1>2, <1>3, <1>4, <1>5, ForgettingStep DEF TypeOK

\* A cookie that still lives after a tick lived before it.
LEMMA TickStep ==
  ASSUME LoginInvariant, Tick
  PROVE  LoginInvariant'
<1> USE DEF LoginInvariant
<1>1. /\ now' \in Times /\ now' = now + 1
      /\ UNCHANGED <<attempt, session, call, remote, drawn, issued, ended, exchanges>>
  BY SessionsAssumption DEF Tick, TypeOK, Times
<1>2. SessionHasAttempt'
  <2> SUFFICES ASSUME NEW n \in Nonces, session[n] # None,
                      drawn[n] + AttemptTime > now + 1
               PROVE  attempt[n] # None /\ attempt[n].published
    BY <1>1 DEF SessionHasAttempt
  <2>1. drawn[n] \in Nat
    BY DEF TypeOK, Sessions, ClaimsLast, Times
  <2>2. drawn[n] + AttemptTime > now
    BY <2>1, SessionsAssumption DEF TypeOK, Times
  <2> QED
    BY <2>2 DEF SessionHasAttempt
<1>3. \A c \in Calls : CallKept(c)
  BY <1>1 DEF CallKept
<1> QED
  BY <1>1, <1>2, <1>3, ForgettingStep DEF TypeOK

----------------------------------------------------------------------------
(* The steps that draw, claim and publish *)

\* A nonce that was not drawn has no attempt, no session and no call.
LEMMA BeginLoginStep ==
  ASSUME LoginInvariant, NEW p \in NonceOrNone, NEW n \in Nonces,
         BeginLogin(p, n)
  PROVE  LoginInvariant'
<1> USE DEF LoginInvariant
<1> DEFINE a == KeptAttempts(p)
           s == KeptSessions(p)
           v == [expiresAt |-> now + AttemptTime, claimed |-> FALSE,
                 published |-> FALSE]
<1>1. /\ Cookie(p)
      /\ drawn[n] = None
      /\ attempt' = [a EXCEPT ![n] = v]
      /\ session' = s
      /\ drawn' = [drawn EXCEPT ![n] = now]
      /\ ended' = ended \cup ({p} \ {None})
      /\ UNCHANGED <<now, call, remote, issued, exchanges>>
  BY DEF BeginLogin, KeptAttempts, KeptSessions
<1>2. /\ a \in [Nonces -> Attempt \cup {None}]
      /\ \A m \in Nonces : a[m] # None => a[m] = attempt[m]
      /\ s \in [Nonces -> Session \cup {None}]
      /\ \A m \in Nonces : s[m] # None =>
           /\ session[m] # None
           /\ drawn[m] + AttemptTime > now => a[m] # None /\ a[m].published
      /\ p # None => s[p] = None /\ a[p] = None /\ drawn[p] # None
  BY <1>1, CancelAndSweep DEF NonceOrNone
<1>3. /\ v \in Attempt /\ v.expiresAt = now + AttemptTime
      /\ ~v.claimed /\ ~v.published
  BY SessionsAssumption DEF TypeOK, Times, Attempt
<1> HIDE DEF a, s, v
<1>4. /\ attempt'[n] = v
      /\ \A m \in Nonces : m # n => attempt'[m] = a[m]
      /\ attempt' \in [Nonces -> Attempt \cup {None}]
  BY <1>1, <1>2, <1>3
<1>5. /\ drawn'[n] = now /\ now # None
      /\ \A m \in Nonces : m # n => drawn'[m] = drawn[m]
      /\ drawn' \in [Nonces -> Times \cup {None}]
  BY <1>1, SessionsAssumption DEF TypeOK, Times
<1>6. n \notin issued /\ s[n] = None
  BY <1>1, <1>2 DEF ClaimsLast, TypeOK, Sessions
<1>7. \A c \in Calls : ~InExchange(c, n) /\ (InExchange(c, n)' <=> InExchange(c, n))
  BY <1>1 DEF InExchange, AttemptsAreDrawn
<1>8. \A c \in Calls, m \in Nonces : InExchange(c, m)' <=> InExchange(c, m)
  BY <1>1 DEF InExchange
<1>9. TypeOK'
  <2>1. \A m \in Attempts(attempt') :
          attempt'[m].published => attempt'[m].claimed /\ m \in issued'
    BY <1>1, <1>2, <1>3, <1>4 DEF Attempts, TypeOK
  <2>2. Sessions(session') \subseteq issued'
    BY <1>1, <1>2 DEF Sessions, TypeOK
  <2>3. ended' \subseteq Nonces
    BY <1>1 DEF TypeOK, NonceOrNone
  <2> QED
    BY <1>1, <1>2, <1>4, <1>5, <2>1, <2>2, <2>3 DEF TypeOK
<1>10. ExchangesApart'
  BY <1>1, <1>8 DEF ExchangesApart
<1>11. AttemptsAreDrawn'
  <2>1. \A m \in Nonces : attempt'[m] # None =>
          drawn'[m] # None /\ attempt'[m].expiresAt = drawn'[m] + AttemptTime
    BY <1>2, <1>3, <1>4, <1>5 DEF AttemptsAreDrawn
  <2>2. ASSUME NEW c \in Calls, call[c] # None, call[c].op = "login"
        PROVE  drawn'[call[c].nonce] # None
    BY <1>1, <1>5, <2>2 DEF AttemptsAreDrawn, TypeOK
  <2> QED
    BY <1>1, <2>1, <2>2 DEF AttemptsAreDrawn
<1>12. ClaimsLast'
  <2>1. ASSUME NEW c \in Calls, NEW m \in Nonces, InExchange(c, m)'
        PROVE  attempt'[m] = None \/ attempt'[m].claimed
    <3>1. InExchange(c, m) /\ m # n
      BY <1>7, <1>8, <2>1
    <3> QED
      BY <1>2, <1>4, <3>1 DEF ClaimsLast
  <2>2. ASSUME NEW m \in issued'
        PROVE  /\ drawn'[m] # None
               /\ attempt'[m] = None \/ attempt'[m].claimed
    <3>1. m \in issued /\ m # n /\ m \in Nonces
      BY <1>1, <1>6, <2>2 DEF TypeOK
    <3> QED
      BY <1>2, <1>4, <1>5, <3>1 DEF ClaimsLast
  <2> QED
    BY <2>1, <2>2 DEF ClaimsLast
<1>13. SessionHasAttempt'
  BY <1>1, <1>2, <1>4, <1>5, <1>6 DEF SessionHasAttempt
<1>14. EndedIsOver'
  <2> SUFFICES ASSUME NEW m \in ended'
               PROVE  /\ drawn'[m] # None
                      /\ session'[m] = None
                      /\ attempt'[m] = None \/ m \in issued'
    BY DEF EndedIsOver
  <2>1. /\ m \in Nonces /\ drawn[m] # None
        /\ s[m] = None
        /\ a[m] = None \/ m \in issued
    BY <1>1, <1>2 DEF EndedIsOver, TypeOK, NonceOrNone
  <2> QED
    BY <1>1, <1>4, <1>5, <2>1
<1> QED
  BY <1>9, <1>10, <1>11, <1>12, <1>13, <1>14

\* An attempt that is claimed is of a nonce no call exchanges and that was
\* not published.
LEMMA ClaimStep ==
  ASSUME LoginInvariant, NEW c \in Calls, Claim(c)
  PROVE  LoginInvariant'
<1> USE DEF LoginInvariant
<1> DEFINE n == call[c].nonce
           u == Claimed(attempt[n])
           v == [call[c] EXCEPT !.step = "exchange", !.startedAt = now,
                                !.todo = {}]
<1>1. /\ call[c] # None /\ call[c].op = "login" /\ call[c].step = "old"
      /\ attempt[n] # None /\ ~attempt[n].claimed
      /\ attempt' = [attempt EXCEPT ![n] = u]
      /\ call' = [call EXCEPT ![c] = v]
      /\ UNCHANGED <<now, session, drawn, issued, ended>>
  BY DEF Claim, Waits, MayClaim, CurrentAttempt
<1>2. remote' \in [Nonces -> {"none", "bound", "revoked", "unknown"}]
  BY DEF Claim, TypeOK
<1>3. n \in Nonces /\ drawn[n] # None
  BY <1>1 DEF TypeOK, AttemptsAreDrawn
<1>4. /\ u \in Attempt /\ u.expiresAt = attempt[n].expiresAt
      /\ u.claimed /\ u.published = attempt[n].published
  BY <1>1, <1>3 DEF Claimed, Attempt, TypeOK
<1>5. /\ v \in Call /\ v.op = "login" /\ v.nonce = n
      /\ v.step = "exchange"
  <2>1. call[c] \in Call /\ now \in Times
    BY <1>1 DEF TypeOK
  <2> QED
    BY <1>1, <2>1 DEF Call
<1>6. n \notin issued /\ \A d \in Calls : ~InExchange(d, n)
  BY <1>1, <1>3 DEF ClaimsLast
<1>7. /\ call'[c] = v /\ \A d \in Calls : d # c => call'[d] = call[d]
      /\ call' \in [Calls -> Call \cup {None}]
  <2> HIDE DEF v
  <2> QED
    BY <1>1, <1>5 DEF TypeOK
<1> HIDE DEF n, u, v
<1>8. /\ attempt'[n] = u
      /\ \A m \in Nonces : m # n => attempt'[m] = attempt[m]
      /\ attempt' \in [Nonces -> Attempt \cup {None}]
  BY <1>1, <1>3, <1>4 DEF TypeOK
<1>9. \A d \in Calls, m \in Nonces : InExchange(d, m)' =>
        (d = c /\ m = n) \/ (d # c /\ m # n /\ InExchange(d, m))
  BY <1>5, <1>6, <1>7 DEF InExchange
<1>10. TypeOK'
  <2>1. \A d \in Calls : call'[d] # None /\ call'[d].op # "logout" =>
          call'[d].nonce \in Nonces
    BY <1>3, <1>5, <1>7 DEF TypeOK
  <2>2. \A d \in Calls : call'[d] # None /\ call'[d].op = "request" =>
          call'[d].nonce \in issued'
    BY <1>1, <1>5, <1>7 DEF TypeOK
  <2>3. \A m \in Attempts(attempt') :
          attempt'[m].published => attempt'[m].claimed /\ m \in issued'
    BY <1>1, <1>3, <1>4, <1>8 DEF Attempts, TypeOK
  <2>4. exchanges' \in [Nonces -> Nat]
    BY <1>3 DEF Claim, TypeOK, n
  <2> QED
    BY <1>1, <1>2, <1>7, <1>8, <2>1, <2>2, <2>3, <2>4 DEF TypeOK
<1>11. ExchangesApart'
  <2>1. \A m \in Nonces, d, e \in Calls :
          InExchange(d, m)' /\ InExchange(e, m)' => d = e
    BY <1>9 DEF ExchangesApart
  <2>2. \A m \in Nonces : m \in issued' => \A d \in Calls : ~InExchange(d, m)'
    BY <1>1, <1>6, <1>9 DEF ExchangesApart
  <2> QED
    BY <2>1, <2>2 DEF ExchangesApart
<1>12. AttemptsAreDrawn'
  <2>1. \A m \in Nonces : attempt'[m] # None =>
          drawn'[m] # None /\ attempt'[m].expiresAt = drawn'[m] + AttemptTime
    BY <1>1, <1>3, <1>4, <1>8 DEF AttemptsAreDrawn
  <2>2. \A d \in Calls : call'[d] # None /\ call'[d].op = "login" =>
          drawn'[call'[d].nonce] # None
    BY <1>1, <1>3, <1>5, <1>7 DEF AttemptsAreDrawn
  <2> QED
    BY <2>1, <2>2 DEF AttemptsAreDrawn
<1>13. ClaimsLast'
  <2>1. \A d \in Calls, m \in Nonces : InExchange(d, m)' =>
          attempt'[m] = None \/ attempt'[m].claimed
    BY <1>4, <1>8, <1>9 DEF ClaimsLast
  <2>2. \A m \in issued' : /\ drawn'[m] # None
                           /\ attempt'[m] = None \/ attempt'[m].claimed
    BY <1>1, <1>4, <1>8 DEF ClaimsLast, TypeOK
  <2> QED
    BY <2>1, <2>2 DEF ClaimsLast
<1>14. SessionHasAttempt'
  BY <1>1, <1>4, <1>8, CallAssumption DEF SessionHasAttempt
<1>15. EndedIsOver'
  BY <1>1, <1>6, <1>8 DEF EndedIsOver, TypeOK
<1> QED
  BY <1>10, <1>11, <1>12, <1>13, <1>14, <1>15

\* What is published belongs to the one call that exchanges its nonce, whose
\* attempt is still there: it was not ended.
LEMMA PublishStep ==
  ASSUME LoginInvariant, NEW c \in Calls, Publish(c)
  PROVE  LoginInvariant'
<1> USE DEF LoginInvariant
<1> DEFINE n == call[c].nonce
           u == [attempt[n] EXCEPT !.published = TRUE]
           v == [grant |-> call[c].grant, expiresAt |-> NewExpiry(c),
                 born |-> call[c].startedAt]
<1>1. /\ call[c] # None /\ call[c].op = "login" /\ call[c].step = "bound"
      /\ attempt[n] # None /\ attempt[n].expiresAt > now
      /\ session' = [Fresh(session) EXCEPT ![n] = v]
      /\ attempt' = [m \in Nonces |->
           IF m = n /\ attempt[m] # None
           THEN [attempt[m] EXCEPT !.published = TRUE]
           ELSE Fresh(attempt)[m]]
      /\ issued' = issued \cup {n}
      /\ Ends(c)
      /\ UNCHANGED <<now, remote, drawn, ended, exchanges>>
  BY DEF Publish, Waits, MayPublish, CurrentAttempt
<1>2. n \in Nonces /\ InExchange(c, n) /\ drawn[n] # None
  BY <1>1 DEF InExchange, TypeOK, AttemptsAreDrawn
<1>3. /\ n \notin issued /\ attempt[n].claimed
      /\ \A d \in Calls : InExchange(d, n) => d = c
  BY <1>1, <1>2 DEF ExchangesApart, ClaimsLast
<1>4. /\ u \in Attempt /\ u.expiresAt = attempt[n].expiresAt
      /\ u.claimed /\ u.published
  <2>1. attempt[n] \in Attempt
    BY <1>1, <1>2 DEF TypeOK
  <2> QED
    BY <1>3, <2>1 DEF Attempt
<1>5. v \in Session
  <2>1. call[c] \in Call
    BY <1>1 DEF TypeOK
  <2>2. call[c].grant \in Nat /\ call[c].startedAt \in Times
    BY <2>1 DEF Call
  <2>3. NewExpiry(c) \in Nat
    BY <2>2, SessionsAssumption DEF NewExpiry, Earlier, Times
  <2> QED
    BY <2>2, <2>3 DEF Session
<1>6. /\ attempt'[n] = u
      /\ \A m \in Nonces : m # n /\ attempt'[m] # None => attempt'[m] = attempt[m]
      /\ \A m \in Nonces : m # n /\ attempt[m] # None /\ attempt[m].expiresAt > now
           => attempt'[m] = attempt[m]
  BY <1>1, <1>2 DEF Fresh
<1>7. /\ session'[n] = v
      /\ \A m \in Nonces : m # n /\ session'[m] # None => session[m] # None
      /\ session' \in [Nonces -> Session \cup {None}]
  <2> HIDE DEF v, n
  <2>1. /\ Fresh(session) \in [Nonces -> Session \cup {None}]
        /\ \A m \in Nonces : Fresh(session)[m] # None => session[m] # None
    BY DEF Fresh, TypeOK
  <2> QED
    BY <1>1, <1>2, <1>5, <2>1
<1>8. attempt' \in [Nonces -> Attempt \cup {None}]
  <2> HIDE DEF u, n
  <2>1. \A m \in Nonces : attempt'[m] \in Attempt \cup {None}
    BY <1>2, <1>4, <1>6 DEF TypeOK
  <2> QED
    BY <1>1, <2>1
<1>9. /\ call' \in [Calls -> Call \cup {None}]
      /\ call'[c] = None
      /\ \A d \in Calls : d # c => call'[d] = call[d]
  BY <1>1 DEF Ends, TypeOK
<1> HIDE DEF n, u, v
<1>10. \A d \in Calls, m \in Nonces : InExchange(d, m)' =>
         d # c /\ m # n /\ InExchange(d, m)
  BY <1>3, <1>9 DEF InExchange
<1>11. TypeOK'
  <2>1. \A d \in Calls : call'[d] # None /\ call'[d].op # "logout" =>
          call'[d].nonce \in Nonces
    BY <1>9 DEF TypeOK
  <2>2. \A d \in Calls : call'[d] # None /\ call'[d].op = "request" =>
          call'[d].nonce \in issued'
    BY <1>1, <1>9 DEF TypeOK
  <2>3. ASSUME NEW m \in Nonces, attempt'[m] # None, attempt'[m].published
        PROVE  attempt'[m].claimed /\ m \in issued'
    <3>1. CASE m = n
      BY <1>1, <1>4, <1>6, <3>1
    <3>2. CASE m # n
      BY <1>1, <1>6, <2>3, <3>2 DEF TypeOK, Attempts
    <3> QED
      BY <3>1, <3>2
  <2>4. Sessions(session') \subseteq issued'
    BY <1>1, <1>7 DEF Sessions, TypeOK
  <2> QED
    BY <1>1, <1>2, <1>7, <1>8, <1>9, <2>1, <2>2, <2>3, <2>4 DEF TypeOK, Attempts
<1>12. ExchangesApart'
  <2>1. \A m \in Nonces, d, e \in Calls :
          InExchange(d, m)' /\ InExchange(e, m)' => d = e
    BY <1>10 DEF ExchangesApart
  <2>2. \A m \in Nonces : m \in issued' => \A d \in Calls : ~InExchange(d, m)'
    BY <1>1, <1>10 DEF ExchangesApart
  <2> QED
    BY <2>1, <2>2 DEF ExchangesApart
<1>13. AttemptsAreDrawn'
  <2>1. \A m \in Nonces : attempt'[m] # None =>
          drawn'[m] # None /\ attempt'[m].expiresAt = drawn'[m] + AttemptTime
    BY <1>1, <1>4, <1>6 DEF AttemptsAreDrawn
  <2>2. \A d \in Calls : call'[d] # None /\ call'[d].op = "login" =>
          drawn'[call'[d].nonce] # None
    BY <1>1, <1>9 DEF AttemptsAreDrawn
  <2> QED
    BY <2>1, <2>2 DEF AttemptsAreDrawn
<1>14. ClaimsLast'
  <2>1. \A d \in Calls, m \in Nonces : InExchange(d, m)' =>
          attempt'[m] = None \/ attempt'[m].claimed
    BY <1>6, <1>10 DEF ClaimsLast
  <2>2. \A m \in issued' : /\ drawn'[m] # None
                           /\ attempt'[m] = None \/ attempt'[m].claimed
    BY <1>1, <1>2, <1>4, <1>6 DEF ClaimsLast, TypeOK
  <2> QED
    BY <2>1, <2>2 DEF ClaimsLast
<1>15. SessionHasAttempt'
  <2> SUFFICES ASSUME NEW m \in Nonces, session'[m] # None,
                      drawn[m] + AttemptTime > now
               PROVE  attempt'[m] # None /\ attempt'[m].published
    BY <1>1 DEF SessionHasAttempt
  <2>1. CASE m = n
    BY <1>4, <1>6, <2>1, CallAssumption
  <2>2. CASE m # n
    <3>1. attempt[m] # None /\ attempt[m].published
      BY <1>7, <2>2 DEF SessionHasAttempt
    <3>2. attempt[m].expiresAt > now
      BY <3>1 DEF AttemptsAreDrawn
    <3> QED
      BY <1>6, <2>2, <3>1, <3>2
  <2> QED
    BY <2>1, <2>2
<1>16. EndedIsOver'
  <2>1. n \notin ended
    BY <1>1, <1>3 DEF EndedIsOver
  <2>2. \A m \in ended : m \in Nonces /\ m # n
    BY <2>1 DEF TypeOK
  <2> QED
    BY <1>1, <1>6, <1>7, <2>2 DEF EndedIsOver
<1> QED
  BY <1>11, <1>12, <1>13, <1>14, <1>15, <1>16

----------------------------------------------------------------------------
(* The theorems *)

\* Every step keeps the invariant.
LEMMA InvariantIsInductive ==
  ASSUME LoginInvariant, [Next]_vars
  PROVE  LoginInvariant'
<1>1. CASE LoginStep
  <2>1. ASSUME NEW p \in NonceOrNone, NEW n \in Nonces, BeginLogin(p, n)
        PROVE  LoginInvariant'
    BY <2>1, BeginLoginStep
  <2>2. ASSUME NEW p \in NonceOrNone, BeginRefused(p)
        PROVE  LoginInvariant'
    BY <2>2, BeginRefusedStep
  <2>3. ASSUME NEW c \in Calls, NEW n \in Nonces, NEW old \in NonceOrNone,
               CompleteBegin(c, n, old)
        PROVE  LoginInvariant'
    BY <2>3, CompleteBeginStep
  <2>4. ASSUME NEW c \in Calls,
               \/ Claim(c) \/ ClaimRefused(c) \/ Exchanged(c) \/ LoginFails(c)
               \/ Publish(c) \/ PublishRefused(c) \/ LoginRevoked(c)
        PROVE  LoginInvariant'
    BY <2>4, ClaimStep, ClaimRefusedStep, ExchangedStep, LoginEndsStep,
       PublishStep, PublishRefusedStep
  <2>5. ASSUME NEW c \in Calls, NEW life \in Lives, RemoteBinds(c, life)
        PROVE  LoginInvariant'
    BY <2>5, RemoteBindsStep
  <2> QED
    BY <1>1, <2>1, <2>2, <2>3, <2>4, <2>5 DEF LoginStep
<1>2. CASE LogoutStep
  BY <1>2, LogoutBeginStep, LogoutGoesOnStep DEF LogoutStep
<1>3. CASE RequestStep
  <2>1. ASSUME NEW c \in Calls, NEW life \in Lives, Checked(c, life)
        PROVE  LoginInvariant'
    BY <2>1, CheckedStep
  <2> QED
    BY <1>3, <2>1, RequestBeginStep, RequestEndsStep, RequestGoesOnStep
    DEF RequestStep
<1>4. CASE Close
  BY <1>4, CloseStep
<1>5. CASE Tick
  BY <1>5, TickStep
<1>6. CASE UNCHANGED vars
  BY <1>6 DEF vars, LoginInvariant, TypeOK, ExchangesApart, InExchange,
     AttemptsAreDrawn, ClaimsLast, SessionHasAttempt, EndedIsOver, Attempts,
     Sessions
<1> QED
  BY <1>1, <1>2, <1>3, <1>4, <1>5, <1>6 DEF Next

\* The sessions behave, whatever the constants, as LoginInvariant says.
THEOREM SessionsInvariant == Spec => []LoginInvariant
<1>1. LoginInvariant /\ [Next]_vars => LoginInvariant'
  BY InvariantIsInductive
<1> QED
  BY <1>1, InitInvariant, PTL DEF Spec

\* Maps, calls and histories keep their types.
THEOREM SessionsTypeOK == Spec => []TypeOK
<1>1. LoginInvariant => TypeOK
  BY DEF LoginInvariant
<1> QED
  BY <1>1, SessionsInvariant, PTL

\* A login its browser ended has no session: cancelLogin and logout reach the
\* session through the attempt, as long as the nonce's cookie lives, and the
\* completion in flight finds its attempt gone.
THEOREM SessionsEndedStaysOut == Spec => []EndedStaysOut
<1>1. LoginInvariant => EndedStaysOut
  BY DEF LoginInvariant, EndedIsOver, EndedStaysOut
<1> QED
  BY <1>1, SessionsInvariant, PTL

----------------------------------------------------------------------------
(* Exchanged once *)

\* A nonce whose exchange was begun has an attempt that is claimed, or none
\* for good: it was drawn already.
ExchangesCounted ==
  \A n \in Nonces :
    /\ exchanges[n] <= 1
    /\ exchanges[n] # 0 => /\ drawn[n] # None
                           /\ attempt[n] = None \/ attempt[n].claimed

\* A step that neither draws nor claims the nonce n: its attempt is gone or
\* as claimed as before, and it stays drawn.
NonceKept(n) ==
  /\ exchanges'[n] = exchanges[n]
  /\ drawn[n] # None => drawn'[n] # None
  /\ attempt[n] = None /\ drawn[n] # None => attempt'[n] = None
  /\ attempt[n] # None /\ attempt[n].claimed =>
       attempt'[n] = None \/ attempt'[n].claimed

LEMMA NonceKeptStep ==
  ASSUME LoginInvariant, [Next]_vars, NEW n \in Nonces
  PROVE  \/ NonceKept(n)
         \/ drawn[n] = None /\ exchanges'[n] = exchanges[n]
         \/ \E c \in Calls : Claim(c) /\ call[c].nonce = n
<1> USE DEF LoginInvariant
<1>1. CASE UNCHANGED <<attempt, drawn, exchanges>>
  BY <1>1 DEF NonceKept
<1>2. ASSUME NEW S, UNCHANGED <<drawn, exchanges>>,
             attempt' \in {Without(attempt, S), Fresh(attempt),
                           Fresh(Without(attempt, S))}
      PROVE  NonceKept(n)
  BY <1>2 DEF NonceKept, Without, Fresh
<1>3. ASSUME NEW p \in NonceOrNone, NEW m \in Nonces, BeginLogin(p, m), drawn[n] # None
      PROVE  NonceKept(n)
  <2>1. /\ n # m
        /\ \E v : attempt' = [Fresh(Without(attempt, {p})) EXCEPT ![m] = v]
        /\ drawn' = [drawn EXCEPT ![m] = now] /\ exchanges' = exchanges
    BY <1>3 DEF BeginLogin
  <2>2. attempt'[n] = Fresh(Without(attempt, {p}))[n] /\ drawn'[n] = drawn[n]
    BY <2>1 DEF Fresh, TypeOK
  <2> QED
    BY <2>1, <2>2 DEF NonceKept, Without, Fresh
<1>4. ASSUME NEW p \in NonceOrNone, NEW m \in Nonces, BeginLogin(p, m)
      PROVE  exchanges'[n] = exchanges[n]
  BY <1>4 DEF BeginLogin
<1>5. ASSUME NEW c \in Calls, Claim(c), call[c].nonce # n
      PROVE  NonceKept(n)
  <2>1. /\ \E v : attempt' = [attempt EXCEPT ![call[c].nonce] = v]
        /\ exchanges' = [exchanges EXCEPT ![call[c].nonce] = @ + 1]
        /\ drawn' = drawn
    BY <1>5 DEF Claim
  <2> QED
    BY <1>5, <2>1 DEF NonceKept, TypeOK
<1>6. ASSUME NEW c \in Calls, Publish(c)
      PROVE  NonceKept(n)
  <2>1. /\ n = call[c].nonce /\ attempt[n] # None =>
             attempt'[n] = [attempt[n] EXCEPT !.published = TRUE]
        /\ ~(n = call[c].nonce /\ attempt[n] # None) =>
             attempt'[n] = Fresh(attempt)[n]
        /\ UNCHANGED <<drawn, exchanges>>
    BY <1>6 DEF Publish
  <2>2. CASE n = call[c].nonce /\ attempt[n] # None
    BY <2>1, <2>2 DEF NonceKept, Attempt, TypeOK
  <2>3. CASE ~(n = call[c].nonce /\ attempt[n] # None)
    BY <2>1, <2>3 DEF NonceKept, Fresh
  <2> QED
    BY <2>2, <2>3
<1>7. CASE LoginStep
  <2>1. ASSUME NEW p \in NonceOrNone, BeginRefused(p)
        PROVE  NonceKept(n)
    BY <1>2, <2>1 DEF BeginRefused
  <2>2. ASSUME NEW c \in Calls,
               \/ ClaimRefused(c) \/ Exchanged(c)
               \/ \E life \in Lives : RemoteBinds(c, life)
               \/ \E m \in Nonces, old \in NonceOrNone : CompleteBegin(c, m, old)
        PROVE  NonceKept(n)
    <3>1. attempt' = attempt /\ drawn' = drawn /\ exchanges' = exchanges
      BY <2>2 DEF ClaimRefused, Exchanged, RemoteBinds, CompleteBegin
    <3> QED
      BY <3>1 DEF NonceKept
  <2>3. ASSUME NEW c \in Calls, LoginFails(c) \/ LoginRevoked(c)
        PROVE  NonceKept(n)
    BY <1>2, <2>3 DEF LoginFails, LoginRevoked, Forgets
  <2>4. ASSUME NEW c \in Calls, PublishRefused(c)
        PROVE  NonceKept(n)
    <3>1. /\ UNCHANGED <<drawn, exchanges>>
          /\ attempt' = attempt \/ attempt' = Fresh(attempt)
      BY <2>4 DEF PublishRefused
    <3> QED
      BY <1>1, <3>1 DEF NonceKept, Fresh
  <2> QED
    BY <1>3, <1>4, <1>5, <1>6, <1>7, <2>1, <2>2, <2>3, <2>4 DEF LoginStep
<1>8. CASE LogoutStep
  <2>1. ASSUME NEW c \in Calls, NEW id \in NonceOrNone, NEW m \in NonceOrNone,
               LogoutBegin(c, id, m)
        PROVE  NonceKept(n)
    BY <1>2, <2>1 DEF LogoutBegin
  <2> QED
    BY <1>1, <1>8, <2>1 DEF LogoutStep, LogoutRevokes, LogoutEnds
<1>9. CASE RequestStep
  BY <1>1, <1>9 DEF RequestStep, RequestBegin, Checked, CheckFails, Permitted,
     Authorized, Execute, RequestFails
<1>10. CASE Close
  BY <1>2, <1>10 DEF Close
<1> QED
  BY <1>1, <1>7, <1>8, <1>9, <1>10 DEF Next, Tick, vars

LEMMA StepCounted ==
  ASSUME LoginInvariant, ExchangesCounted, [Next]_vars
  PROVE  ExchangesCounted'
<1> SUFFICES ASSUME NEW n \in Nonces
             PROVE  /\ exchanges'[n] <= 1
                    /\ exchanges'[n] # 0 => /\ drawn'[n] # None
                                            /\ attempt'[n] = None \/ attempt'[n].claimed
  BY DEF ExchangesCounted
<1>1. CASE NonceKept(n)
  BY <1>1 DEF NonceKept, ExchangesCounted
<1>2. CASE drawn[n] = None /\ exchanges'[n] = exchanges[n]
  BY <1>2 DEF ExchangesCounted
<1>3. ASSUME NEW c \in Calls, Claim(c), call[c].nonce = n
      PROVE  /\ exchanges'[n] = 1 /\ drawn'[n] # None
             /\ attempt'[n].claimed
  <2>1. /\ attempt[n] # None /\ ~attempt[n].claimed
        /\ attempt' = [attempt EXCEPT ![n] = Claimed(attempt[n])]
        /\ exchanges' = [exchanges EXCEPT ![n] = exchanges[n] + 1]
        /\ drawn' = drawn
    BY <1>3 DEF Claim, MayClaim, CurrentAttempt
  <2>2. exchanges[n] = 0 /\ drawn[n] # None
    BY <2>1 DEF ExchangesCounted, LoginInvariant, AttemptsAreDrawn
  <2>3. attempt[n] \in Attempt /\ attempt'[n] = Claimed(attempt[n])
    BY <2>1 DEF LoginInvariant, TypeOK
  <2>4. attempt'[n].claimed
    BY <2>3 DEF Claimed, Attempt
  <2> QED
    BY <2>1, <2>2, <2>4 DEF LoginInvariant, TypeOK
<1> QED
  BY <1>1, <1>2, <1>3, NonceKeptStep

\* The code of a login is exchanged once, whatever became of the exchange: the
\* claim is set before completeLogin's first await, a failed completion leaves
\* no attempt to claim, and a nonce is drawn once.
THEOREM SessionsExchangedOnce == Spec => []ExchangedOnce
<1>1. Init => ExchangesCounted
  BY DEF Init, ExchangesCounted
<1>2. LoginInvariant /\ ExchangesCounted /\ [Next]_vars => ExchangesCounted'
  BY StepCounted
<1>3. ExchangesCounted => ExchangedOnce
  BY DEF ExchangesCounted, ExchangedOnce
<1> QED
  BY <1>1, <1>2, <1>3, SessionsInvariant, PTL DEF Spec

----------------------------------------------------------------------------
(* Sessions are not revived *)

\* A session that is there after a step was there before it, unless the step
\* published it or took over the answer of a check.
LEMMA SessionKept ==
  ASSUME LoginInvariant, [Next]_vars, NEW n \in Nonces, session'[n] # None
  PROVE  \/ session'[n] = session[n]
         \/ \E c \in Calls : Publish(c) /\ call[c].nonce = n
         \/ \E c \in Calls, life \in Lives : Checked(c, life) /\ call[c].nonce = n
<1> DEFINE Kept == session'[n] = session[n]
<1>1. ASSUME NEW S, session' = Without(session, S)
      PROVE  Kept
  BY <1>1 DEF Without
<1>2. ASSUME NEW S, session' = Fresh(Without(session, S))
      PROVE  Kept
  BY <1>2 DEF Fresh, Without
<1>3. ASSUME NEW c \in Calls, Publish(c), call[c].nonce # n
      PROVE  Kept
  <2>1. \E v : session' = [Fresh(session) EXCEPT ![call[c].nonce] = v]
    BY <1>3 DEF Publish
  <2> QED
    BY <1>3, <2>1 DEF Fresh
<1>4. ASSUME NEW c \in Calls, NEW life \in Lives, Checked(c, life), call[c].nonce # n
      PROVE  Kept
  <2>1. \E v : session' = [session EXCEPT ![call[c].nonce] = v]
    BY <1>4 DEF Checked
  <2> QED
    BY <1>4, <2>1 DEF LoginInvariant, TypeOK
<1>5. ASSUME NEW c \in Calls, PublishRefused(c)
      PROVE  Kept
  BY <1>5 DEF PublishRefused, Fresh
<1>6. CASE LoginStep
  <2>1. ASSUME NEW p \in NonceOrNone, NEW m \in Nonces, BeginLogin(p, m)
        PROVE  Kept
    BY <1>2, <2>1 DEF BeginLogin
  <2>2. ASSUME NEW p \in NonceOrNone, BeginRefused(p)
        PROVE  Kept
    BY <1>2, <2>2 DEF BeginRefused
  <2>3. ASSUME NEW c \in Calls, NEW m \in Nonces, NEW old \in NonceOrNone,
               CompleteBegin(c, m, old)
        PROVE  Kept
    BY <1>1, <2>3 DEF CompleteBegin
  <2>4. ASSUME NEW c \in Calls,
               \/ Claim(c) \/ ClaimRefused(c) \/ Exchanged(c)
               \/ LoginFails(c) \/ LoginRevoked(c)
               \/ \E life \in Lives : RemoteBinds(c, life)
        PROVE  Kept
    BY <2>4 DEF Claim, ClaimRefused, Exchanged, LoginFails, LoginRevoked, RemoteBinds
  <2> QED
    BY <1>3, <1>5, <1>6, <2>1, <2>2, <2>3, <2>4 DEF LoginStep
<1>7. CASE LogoutStep
  <2>1. ASSUME NEW c \in Calls, NEW id \in NonceOrNone,
               NEW m \in NonceOrNone, LogoutBegin(c, id, m)
        PROVE  Kept
    BY <1>1, <2>1 DEF LogoutBegin
  <2> QED
    BY <1>7, <2>1 DEF LogoutStep, LogoutRevokes, LogoutEnds
<1>8. CASE RequestStep
  <2>1. ASSUME NEW c \in Calls,
               \/ CheckFails(c) \/ RequestFails(c)
               \/ \E m \in Nonces : RequestBegin(c, m)
        PROVE  Kept
    BY <1>1, <2>1 DEF CheckFails, RequestFails, RequestBegin, ForgetExpired
  <2> QED
    BY <1>4, <1>8, <2>1 DEF RequestStep, Permitted, Authorized, Execute
<1>9. CASE Close
  BY <1>1, <1>9 DEF Close
<1>10. CASE Tick \/ UNCHANGED vars
  BY <1>10 DEF Tick, vars
<1> QED
  BY <1>6, <1>7, <1>8, <1>9, <1>10 DEF Next

\* A session that is gone never comes back: a check in flight finds it gone,
\* and the nonce of a login that was published is never published again.
THEOREM SessionsNeverRevived == Spec => NeverRevived
<1> DEFINE Kept == \A n \in issued : session[n] = None => session'[n] = None
<1>1. ASSUME LoginInvariant, [Next]_vars
      PROVE  Kept
  <2> SUFFICES ASSUME NEW n \in issued, session[n] = None, session'[n] # None
               PROVE  FALSE
    OBVIOUS
  <2>1. n \in Nonces
    BY <1>1 DEF LoginInvariant, TypeOK
  <2>2. ASSUME NEW c \in Calls, Publish(c), call[c].nonce = n
        PROVE  FALSE
    BY <1>1, <2>1, <2>2 DEF LoginInvariant, ExchangesApart, InExchange, Publish, Waits
  <2>3. ASSUME NEW c \in Calls, NEW life \in Lives, Checked(c, life), call[c].nonce = n
        PROVE  FALSE
    <3>1. CheckedSession(n, now + life) = None
      BY DEF CheckedSession, CheckAccepts, Live
    <3> QED
      BY <1>1, <2>1, <2>3, <3>1 DEF Checked, LoginInvariant, TypeOK
  <2> QED
    BY <1>1, <2>1, <2>2, <2>3, SessionKept
<1> QED
  BY <1>1, SessionsInvariant, PTL DEF Spec, NeverRevived

----------------------------------------------------------------------------
(* Handlers run for live sessions *)

\* The session's own limit counts from its claim, and no check extends it.
SessionsBounded ==
  \A n \in Nonces : session[n] # None =>
    session[n].expiresAt <= session[n].born + SessionTime

LEMMA StepBounded ==
  ASSUME LoginInvariant, SessionsBounded, [Next]_vars
  PROVE  SessionsBounded'
<1> USE DEF LoginInvariant
<1> SUFFICES ASSUME NEW n \in Nonces, session'[n] # None
             PROVE  session'[n].expiresAt <= session'[n].born + SessionTime
  BY DEF SessionsBounded
<1>1. CASE session'[n] = session[n]
  BY <1>1 DEF SessionsBounded
<1>2. ASSUME NEW c \in Calls, Publish(c), call[c].nonce = n
      PROVE  session'[n].expiresAt <= session'[n].born + SessionTime
  <2>1. call[c] \in Call
    BY <1>2 DEF Publish, Waits, TypeOK
  <2>2. call[c].startedAt \in Nat /\ call[c].grant \in Nat
    BY <2>1 DEF Call, Times
  <2>3. session'[n] = [grant |-> call[c].grant, expiresAt |-> NewExpiry(c),
                       born |-> call[c].startedAt]
    BY <1>2 DEF Publish, Fresh
  <2>4. NewExpiry(c) <= call[c].startedAt + SessionTime
    BY <2>2, SessionsAssumption DEF NewExpiry, Earlier
  <2> QED
    BY <2>3, <2>4
<1>3. ASSUME NEW c \in Calls, NEW life \in Lives, Checked(c, life), call[c].nonce = n
      PROVE  session'[n].expiresAt <= session'[n].born + SessionTime
  <2>1. session'[n] = CheckedSession(n, now + life)
    BY <1>3 DEF Checked, TypeOK
  <2>2. /\ session[n] # None /\ session[n] \in Session
        /\ session'[n] = [session[n] EXCEPT !.grant = now + life,
                                            !.expiresAt = Earlier(@, now + life)]
    BY <2>1 DEF CheckedSession, CheckAccepts, Live, TypeOK
  <2>3. /\ session'[n].born = session[n].born
        /\ session'[n].expiresAt = Earlier(session[n].expiresAt, now + life)
    BY <2>2 DEF Session
  <2>4. /\ session[n].expiresAt \in Nat /\ session[n].born \in Nat
        /\ now + life \in Nat
    BY <2>2, SessionsAssumption DEF Session, TypeOK, Times
  <2>5. session[n].expiresAt <= session[n].born + SessionTime
    BY <2>2 DEF SessionsBounded
  <2> QED
    BY <2>3, <2>4, <2>5, SessionsAssumption DEF Earlier
<1> QED
  BY <1>1, <1>2, <1>3, SessionKept

\* Four answers are awaited after a request first saw its session: a handler
\* still runs only for one that is not over and was not ended.
THEOREM SessionsRunLive == Spec => RunsForLiveSession
<1> DEFINE Kept == \A c \in Calls : Execute(c) =>
      LET n == call[c].nonce
      IN n \notin ended /\ session[n] # None /\ now < session[n].born + SessionTime
<1>1. LoginInvariant /\ SessionsBounded => [Kept]_vars
  <2> SUFFICES ASSUME LoginInvariant, SessionsBounded, NEW c \in Calls, Execute(c)
               PROVE  LET n == call[c].nonce
                      IN n \notin ended /\ session[n] # None
                         /\ now < session[n].born + SessionTime
    OBVIOUS
  <2>1. call[c].nonce \in Nonces /\ Live(call[c].nonce)
    BY DEF LoginInvariant, TypeOK, Execute, Waits, MayRun
  <2>2. PICK n \in Nonces : n = call[c].nonce
    BY <2>1
  <2>3. /\ session[n] # None /\ session[n].expiresAt > now
        /\ session[n].expiresAt <= session[n].born + SessionTime
    BY <2>1, <2>2 DEF Live, SessionsBounded
  <2>4. session[n] \in Session /\ now \in Nat
    BY <2>3 DEF LoginInvariant, TypeOK, Times
  <2>5. now < session[n].born + SessionTime
    BY <2>3, <2>4, SessionsAssumption DEF Session, Times
  <2>6. n \notin ended
    BY <2>3 DEF LoginInvariant, EndedIsOver
  <2> QED
    BY <2>2, <2>3, <2>5, <2>6
<1>2. Init => SessionsBounded
  BY DEF Init, SessionsBounded
<1>3. LoginInvariant /\ SessionsBounded /\ [Next]_vars => SessionsBounded'
  BY StepBounded
<1>4. Spec => [][Kept]_vars
  BY <1>1, <1>2, <1>3, SessionsInvariant, PTL DEF Spec
<1> QED
  BY <1>4 DEF RunsForLiveSession

----------------------------------------------------------------------------
(* Grants are accounted for *)

OpenGrant(c, n) == InExchange(c, n) /\ call[c].step \in {"bound", "revoke"}

\* No grant is bound, and each call with one in hand keeps it, or the grant is
\* published or no longer bound.
LEMMA GrantsKept ==
  ASSUME GrantsAreAccountedFor, issued \subseteq issued',
         \A n \in Nonces : remote'[n] = "bound" => remote[n] = "bound",
         \A c \in Calls, n \in Nonces :
           OpenGrant(c, n) /\ remote'[n] = "bound" /\ n \notin issued' => OpenGrant(c, n)'
  PROVE  GrantsAreAccountedFor'
BY DEF GrantsAreAccountedFor, OpenGrant

\* A call that has no grant in hand moves.
LEMMA CallWithoutGrant ==
  ASSUME GrantsAreAccountedFor, NEW c \in Calls, \A n \in Nonces : ~OpenGrant(c, n),
         \A d \in Calls : d # c => call'[d] = call[d],
         issued \subseteq issued',
         \A n \in Nonces : remote'[n] = "bound" => remote[n] = "bound"
  PROVE  GrantsAreAccountedFor'
<1>1. \A d \in Calls, n \in Nonces : OpenGrant(d, n) => OpenGrant(d, n)'
  BY DEF OpenGrant, InExchange
<1> QED
  BY <1>1, GrantsKept

LEMMA StepAccounted ==
  ASSUME LoginInvariant, GrantsAreAccountedFor, [Next]_vars
  PROVE  GrantsAreAccountedFor'
<1> USE DEF LoginInvariant
<1>1. CASE UNCHANGED <<call, remote, issued>>
  BY <1>1 DEF GrantsAreAccountedFor, InExchange
<1>2. ASSUME NEW c \in Calls, call[c] = None \/ call[c].op # "login",
             \A d \in Calls : d # c => call'[d] = call[d], issued' = issued,
             \A n \in Nonces : remote'[n] = "bound" => remote[n] = "bound"
      PROVE  GrantsAreAccountedFor'
  BY <1>2, CallWithoutGrant DEF OpenGrant, InExchange
<1>3. ASSUME NEW c \in Calls, Claim(c) \/ ClaimRefused(c) \/ Exchanged(c)
      PROVE  GrantsAreAccountedFor'
  <2>1. \A n \in Nonces : ~OpenGrant(c, n)
    BY <1>3 DEF OpenGrant, InExchange, Claim, ClaimRefused, Exchanged, Waits
  <2>2. \A d \in Calls : d # c => call'[d] = call[d]
    BY <1>3 DEF Claim, ClaimRefused, Exchanged, Becomes, Ends, TypeOK
  <2>3. /\ issued' = issued
        /\ \A n \in Nonces : remote'[n] = "bound" => remote[n] = "bound"
    BY <1>3 DEF Claim, ClaimRefused, Exchanged
  <2> QED
    BY <2>1, <2>2, <2>3, CallWithoutGrant
<1>4. ASSUME NEW c \in Calls, NEW life \in Lives, RemoteBinds(c, life)
      PROVE  GrantsAreAccountedFor'
  <2>1. PICK m \in Nonces : m = call[c].nonce
    BY <1>4 DEF RemoteBinds, Waits, TypeOK
  <2>2. PICK v : v = [call[c] EXCEPT !.step = "bound", !.grant = now + life]
    OBVIOUS
  <2>3. /\ call[c] # None /\ call[c] \in Call
        /\ call[c].op = "login" /\ call[c].step = "bind"
    BY <1>4 DEF RemoteBinds, Waits, TypeOK
  <2>4. /\ v # None /\ v.op = "login" /\ v.nonce = m /\ v.step = "bound"
    <3>1. v.op = "login" /\ v.nonce = m /\ v.step = "bound"
      BY <2>1, <2>2, <2>3 DEF Call
    <3>2. now + life \in Nat
      BY SessionsAssumption DEF TypeOK, Times
    <3>3. v \in Call
      BY <2>2, <2>3, <3>2 DEF Call
    <3> QED
      BY <3>1, <3>3, CallAssumption
  <2>5. /\ call'[c] = v /\ \A d \in Calls : d # c => call'[d] = call[d]
        /\ issued' = issued
        /\ \A n \in Nonces : n # m => remote'[n] = remote[n]
    BY <1>4, <2>1, <2>2 DEF RemoteBinds, TypeOK
  <2>6. OpenGrant(c, m)'
    BY <2>4, <2>5 DEF OpenGrant, InExchange
  <2>7. \A d \in Calls, n \in Nonces : OpenGrant(d, n) => d # c
    BY <2>3 DEF OpenGrant
  <2>8. \A d \in Calls, n \in Nonces : OpenGrant(d, n) => OpenGrant(d, n)'
    BY <2>5, <2>7 DEF OpenGrant, InExchange
  <2> SUFFICES ASSUME NEW n \in Nonces, remote'[n] = "bound", n \notin issued
               PROVE  \E d \in Calls : OpenGrant(d, n)'
    BY <2>5 DEF GrantsAreAccountedFor, OpenGrant
  <2>9. CASE n = m
    BY <2>6, <2>9
  <2>10. CASE n # m
    BY <2>5, <2>8, <2>10 DEF GrantsAreAccountedFor, OpenGrant
  <2> QED
    BY <2>9, <2>10
<1>5. ASSUME NEW c \in Calls, LoginFails(c) \/ LoginRevoked(c) \/ Publish(c)
      PROVE  GrantsAreAccountedFor'
  <2>1. /\ call[c] # None /\ call[c].op = "login" /\ call[c].nonce \in Nonces
        /\ Ends(c)
    BY <1>5 DEF LoginFails, LoginRevoked, Publish, Waits, TypeOK
  <2>2. \A d \in Calls : d # c => call'[d] = call[d]
    BY <2>1 DEF Ends, TypeOK
  <2>3. /\ issued \subseteq issued'
        /\ \A n \in Nonces : remote'[n] = "bound" => remote[n] = "bound"
    BY <1>5 DEF LoginFails, LoginRevoked, RefusedGrant, Publish, TypeOK
  <2>4. \A n \in Nonces : OpenGrant(c, n) =>
          n = call[c].nonce /\ (remote'[n] # "bound" \/ n \in issued')
    BY <1>5 DEF OpenGrant, InExchange, LoginFails, LoginRevoked, RefusedGrant, Publish,
       TypeOK
  <2>5. \A d \in Calls, n \in Nonces : d # c /\ OpenGrant(d, n) => OpenGrant(d, n)'
    BY <2>2 DEF OpenGrant, InExchange
  <2> QED
    BY <2>3, <2>4, <2>5, GrantsKept
<1>6. ASSUME NEW c \in Calls, PublishRefused(c)
      PROVE  GrantsAreAccountedFor'
  <2>1. PICK v : v = [call[c] EXCEPT !.step = "revoke"]
    OBVIOUS
  <2>2. call[c] # None /\ call[c] \in Call /\ call[c].op = "login"
    BY <1>6 DEF PublishRefused, Waits, TypeOK
  <2>3. /\ v \in Call /\ v.op = "login" /\ v.nonce = call[c].nonce /\ v.step = "revoke"
    BY <2>1, <2>2 DEF Call
  <2>4. /\ call'[c] = v /\ \A d \in Calls : d # c => call'[d] = call[d]
        /\ UNCHANGED <<issued, remote>>
    BY <1>6, <2>1 DEF PublishRefused, Becomes, TypeOK
  <2>5. \A d \in Calls, n \in Nonces : OpenGrant(d, n) => OpenGrant(d, n)'
    BY <2>3, <2>4, CallAssumption DEF OpenGrant, InExchange
  <2> QED
    BY <2>4, <2>5, GrantsKept
<1>7. ASSUME NEW c \in Calls,
             \/ \E n \in Nonces, old \in NonceOrNone : CompleteBegin(c, n, old)
             \/ \E id, n \in NonceOrNone : LogoutBegin(c, id, n)
             \/ \E n \in Nonces : RequestBegin(c, n)
      PROVE  GrantsAreAccountedFor'
  <2>1. /\ call[c] = None /\ UNCHANGED <<remote, issued>>
        /\ \A d \in Calls : d # c => call'[d] = call[d]
    BY <1>7 DEF CompleteBegin, LogoutBegin, RequestBegin, TypeOK
  <2> QED
    BY <1>2, <2>1
<1>8. ASSUME NEW c \in Calls,
             \/ \E m \in Nonces : LogoutRevokes(c, m)
             \/ LogoutEnds(c)
             \/ \E life \in Lives : Checked(c, life)
             \/ CheckFails(c) \/ Permitted(c) \/ Authorized(c) \/ Execute(c)
             \/ RequestFails(c)
      PROVE  GrantsAreAccountedFor'
  <2>1. call[c].op # "login" /\ issued' = issued
    BY <1>8 DEF LogoutRevokes, LogoutEnds, Checked, CheckFails, Permitted, Authorized,
       Execute, RequestFails, Waits
  <2>2. \A n \in Nonces : remote'[n] = "bound" => remote[n] = "bound"
    BY <1>8 DEF LogoutRevokes, LogoutEnds, Checked, CheckFails, Permitted, Authorized,
       Execute, RequestFails, TypeOK
  <2>3. \A d \in Calls : d # c => call'[d] = call[d]
    BY <1>8 DEF LogoutRevokes, LogoutEnds, Checked, CheckFails, Permitted, Authorized,
       Execute, RequestFails, Becomes, Ends, TypeOK
  <2> QED
    BY <1>2, <2>1, <2>2, <2>3
<1>9. CASE LoginStep
  <2>1. ASSUME NEW p \in NonceOrNone,
               BeginRefused(p) \/ \E n \in Nonces : BeginLogin(p, n)
        PROVE  GrantsAreAccountedFor'
    BY <1>1, <2>1 DEF BeginLogin, BeginRefused
  <2> QED
    BY <1>3, <1>4, <1>5, <1>6, <1>7, <1>9, <2>1 DEF LoginStep
<1>10. CASE LogoutStep \/ RequestStep
  BY <1>7, <1>8, <1>10 DEF LogoutStep, RequestStep
<1> QED
  BY <1>1, <1>9, <1>10 DEF Next, Close, Tick, vars

\* No grant is forgotten: as long as Cernere has it and no session was made of
\* it, the one login that bound it is still there to publish or revoke it.
THEOREM SessionsGrantsAccounted == Spec => []GrantsAreAccountedFor
<1>1. Init => GrantsAreAccountedFor
  BY DEF Init, GrantsAreAccountedFor
<1>2. LoginInvariant /\ GrantsAreAccountedFor /\ [Next]_vars => GrantsAreAccountedFor'
  BY StepAccounted
<1> QED
  BY <1>1, <1>2, SessionsInvariant, PTL DEF Spec
============================================================================
