-------------------------- MODULE MeetingSessions --------------------------
(***************************************************************************)
(* The login sessions of the meetings (src/server/meetings/                *)
(* scoped-sessions.ts), the login routes in front of them (cernere-login.ts)*)
(* and the requests they carry (scoped-middleware.ts through the           *)
(* Composite's sessions.run).                                              *)
(*                                                                         *)
(* Attempts and sessions live in the memory of one process.  A call runs   *)
(* without interruption up to its next await: an answer of the remote      *)
(* authority Cernere, or of the database.  A nonce is claimed at most once *)
(* and a session id is drawn when it is, so a session is named by its      *)
(* nonce.                                                                  *)
(***************************************************************************)
EXTENDS Integers, FiniteSets

CONSTANTS
  Nonces,       \* random nonces that may be drawn (bounds the logins)
  Calls,        \* calls in flight at the same time
  AttemptTime,  \* 300 s: life of an attempt and of its cookie
  SessionTime,  \* 900 s: longest life of a session
  Lives,        \* lives Cernere may give a grant
  MaxAttempts, MaxSessions,  \* 10,000 each in the code
  MaxTime,      \* bounds the clock
  None          \* no value

ASSUME SessionsAssumption ==
  /\ AttemptTime \in Nat /\ SessionTime \in Nat /\ MaxTime \in Nat
  /\ MaxAttempts \in Nat /\ MaxSessions \in Nat
  /\ Lives \subseteq Nat \ {0}
  /\ None \notin Nonces /\ None \notin Nat

VARIABLES
  now,      \* Date.now()
  attempt,  \* the attempts map: nonce -> attempt or None
  session,  \* the sessions map: nonce of its login -> session or None
  call,     \* the calls waiting for an answer, or None
  remote,   \* what Cernere knows of the grant bound for a nonce
  drawn,    \* history: when each nonce was drawn, or None
  issued,   \* history: the sessions that were published
  ended,    \* history: logins their browser has ended
  exchanges \* history: how often the code of a nonce's login was exchanged

vars == <<now, attempt, session, call, remote, drawn, issued, ended, exchanges>>

Times == 0..MaxTime

Attempt == [expiresAt: Nat, claimed: BOOLEAN, published: BOOLEAN]

\* `born` is a history value: when completeLogin claimed the nonce.
Session == [grant: Nat, expiresAt: Nat, born: Times]

Call ==
  [op: {"login", "request", "logout"},
   step: {"old", "exchange", "bind", "bound", "revoke", "check", "permit",
          "authorize", "execute", "current"},
   nonce: Nonces \cup {None}, old: Nonces \cup {None},
   startedAt: Times, grant: Nat, todo: SUBSET Nonces]

ASSUME CallAssumption == None \notin Call \cup Session \cup Attempt

Waits(c, op, step) == /\ call[c] # None
                      /\ call[c].op = op
                      /\ call[c].step = step
Becomes(c, step) == call' = [call EXCEPT ![c].step = step]
Ends(c) == call' = [call EXCEPT ![c] = None]

NewCall(op, step, n, old, todo) ==
  [op |-> op, step |-> step, nonce |-> n, old |-> old,
   startedAt |-> 0, grant |-> 0, todo |-> todo]

----------------------------------------------------------------------------
(* The two maps *)

Attempts(a) == {n \in Nonces : a[n] # None}
Sessions(s) == {n \in Nonces : s[n] # None}

\* current(id), for a session that was not replaced: ids are random.
Live(n) == session[n] # None /\ session[n].expiresAt > now

Without(map, S) == [n \in Nonces |-> IF n \in S THEN None ELSE map[n]]

\* sweep
Fresh(map) == [n \in Nonces |-> IF map[n] # None /\ map[n].expiresAt > now
                                THEN map[n] ELSE None]

\* currentAttempt: in the map, which cancelLogin, sweep, close and the end of
\* the login take it from, and not expired.
CurrentAttempt(n) == attempt[n] # None /\ attempt[n].expiresAt > now

\* The sessions cancelLogin removes: the published one of the nonce.
PublishedBy(n) ==
  IF n # None THEN {m \in {n} : attempt[m] # None /\ attempt[m].published}
              ELSE {}

\* A browser presents a nonce while its cookie lives, and a session id it was
\* given.
Cookie(n) == n # None => drawn[n] # None /\ now < drawn[n] + AttemptTime
Known(n) == n # None => n \in issued

----------------------------------------------------------------------------
(* Login *)

\* POST /session/login/start: the previous attempt is cancelled, expired
\* entries are swept, a nonce is drawn.
BeginLogin(previous, n) ==
  LET a == Fresh(Without(attempt, {previous}))
  IN /\ Cookie(previous)
     /\ drawn[n] = None
     /\ Cardinality(Attempts(a)) < MaxAttempts
     /\ attempt' = [a EXCEPT ![n] =
          [expiresAt |-> now + AttemptTime, claimed |-> FALSE,
           published |-> FALSE]]
     /\ session' = Fresh(Without(session, PublishedBy(previous)))
     /\ drawn' = [drawn EXCEPT ![n] = now]
     /\ ended' = ended \cup ({previous} \ {None})
     /\ UNCHANGED <<now, call, remote, issued, exchanges>>

\* beginLogin that answers 429: the cancellation and the sweep stay.
BeginRefused(previous) ==
  LET a == Fresh(Without(attempt, {previous}))
  IN /\ Cookie(previous)
     /\ Cardinality(Attempts(a)) >= MaxAttempts
     /\ attempt' = a
     /\ session' = Fresh(Without(session, PublishedBy(previous)))
     /\ ended' = ended \cup ({previous} \ {None})
     /\ UNCHANGED <<now, call, remote, drawn, issued, exchanges>>

\* What logout has to revoke of a session; an expired grant makes it fail.
Held(n) == IF n = None THEN {} ELSE {m \in {n} : session[m] # None}
Revocable(S) == \A m \in S : session[m].grant > now

\* POST /session/login/complete: first the old session is dropped here and,
\* over the network, there.
CompleteBegin(c, n, old) ==
  /\ call[c] = None
  /\ n # None /\ Cookie(n)
  /\ Known(old)
  /\ call' = IF Revocable(Held(old))
             THEN [call EXCEPT ![c] = NewCall("login", "old", n, old, Held(old))]
             ELSE call
  /\ session' = Without(session, {old})
  /\ ended' = ended \cup ({old} \ {None})
  /\ UNCHANGED <<now, attempt, remote, drawn, issued, exchanges>>

MayClaim(n) == CurrentAttempt(n) /\ ~attempt[n].claimed

\* Claimed before the first await of completeLogin.
Claimed(a) == [a EXCEPT !.claimed = TRUE]

\* The old session is revoked (or there was none); the nonce is claimed and
\* the exchange begins.
Claim(c) ==
  LET n == call[c].nonce
  IN /\ Waits(c, "login", "old")
     /\ MayClaim(n)
     /\ remote' = [m \in Nonces |-> IF m \in call[c].todo THEN "revoked"
                                                         ELSE remote[m]]
     /\ attempt' = [attempt EXCEPT ![n] = Claimed(@)]
     /\ call' = [call EXCEPT ![c] = [@ EXCEPT
          !.step = "exchange", !.startedAt = now, !.todo = {}]]
     /\ exchanges' = [exchanges EXCEPT ![n] = @ + 1]
     /\ UNCHANGED <<now, session, drawn, issued, ended>>

\* A replayed, cancelled or expired nonce, or a failed revocation.
ClaimRefused(c) ==
  /\ Waits(c, "login", "old")
  /\ remote' \in {remote, [m \in Nonces |->
       IF m \in call[c].todo THEN "revoked" ELSE remote[m]]}
  /\ Ends(c)
  /\ UNCHANGED <<now, attempt, session, drawn, issued, ended, exchanges>>

\* The exchange is answered and the attempt still current: bind is sent.
Exchanged(c) ==
  /\ Waits(c, "login", "exchange")
  /\ CurrentAttempt(call[c].nonce)
  /\ Becomes(c, "bind")
  /\ UNCHANGED <<now, attempt, session, remote, drawn, issued, ended, exchanges>>

\* Cernere binds the grant; the answer is on its way.
RemoteBinds(c, life) ==
  /\ Waits(c, "login", "bind")
  /\ remote' = [remote EXCEPT ![call[c].nonce] = "bound"]
  /\ call' = [call EXCEPT ![c] = [@ EXCEPT !.step = "bound",
                                           !.grant = now + life]]
  /\ UNCHANGED <<now, attempt, session, drawn, issued, ended, exchanges>>

\* Mutant: an attempt whose exchange or bind failed may be tried again.
Reopens(n) ==
  attempt' = [attempt EXCEPT ![n] =
    IF @ = None THEN None ELSE [@ EXCEPT !.claimed = FALSE]]

\* A login that published nothing forgets its attempt as it ends.
Forgets(n) == attempt' = Without(attempt, {n})

\* exchange or bind fails, or the attempt is no longer current after the
\* exchange: no grant is known, the attempt is forgotten.  A bind whose
\* answer is lost leaves a grant nobody here knows of.
LoginFails(c) ==
  /\ call[c] # None /\ call[c].op = "login"
  /\ call[c].step \in {"exchange", "bind", "bound"}
  /\ remote' = IF call[c].step = "bound"
               THEN [remote EXCEPT ![call[c].nonce] = "unknown"] ELSE remote
  /\ Forgets(call[c].nonce)
  /\ Ends(c)
  /\ UNCHANGED <<now, session, drawn, issued, ended, exchanges>>

\* Mutant: the attempt is not looked at after the bind.
MayPublishCancelled(c) ==
  call[c].grant > now /\ call[c].grant <= now + SessionTime

\* What completeLogin checks when the grant is bound.
MayPublish(c) ==
  /\ CurrentAttempt(call[c].nonce)
  /\ call[c].grant > now /\ call[c].grant <= now + SessionTime

\* Room for a session, after a sweep.
HasRoom == Cardinality(Sessions(Fresh(session))) < MaxSessions

Earlier(a, b) == IF a <= b THEN a ELSE b

\* The session's own limit counts from the claim.
NewExpiry(c) == Earlier(call[c].grant, call[c].startedAt + SessionTime)

\* The grant is published as a session of this process.
Publish(c) ==
  LET n == call[c].nonce
  IN /\ Waits(c, "login", "bound")
     /\ MayPublish(c) /\ HasRoom
     /\ session' = [Fresh(session) EXCEPT ![n] =
          [grant |-> call[c].grant, expiresAt |-> NewExpiry(c),
           born |-> call[c].startedAt]]
     /\ attempt' = [m \in Nonces |->
          IF m = n /\ attempt[m] # None THEN [attempt[m] EXCEPT !.published = TRUE]
          ELSE Fresh(attempt)[m]]
     /\ issued' = issued \cup {n}
     /\ Ends(c)
     /\ UNCHANGED <<now, remote, drawn, ended, exchanges>>

\* The grant is refused, at the checks or for want of room, and revoked
\* before the call ends.
PublishRefused(c) ==
  /\ Waits(c, "login", "bound")
  /\ ~(MayPublish(c) /\ HasRoom)
  /\ IF MayPublish(c) THEN attempt' = Fresh(attempt) /\ session' = Fresh(session)
                      ELSE UNCHANGED <<attempt, session>>
  /\ Becomes(c, "revoke")
  /\ UNCHANGED <<now, remote, drawn, issued, ended, exchanges>>

\* Mutant: the grant of a refused login is left alone.
RefusedGrantKept(c) == remote' = remote

\* The revocation of a refused grant succeeds, or its failure is swallowed.
RefusedGrant(c) ==
  \E outcome \in {"revoked", "unknown"} :
    remote' = [remote EXCEPT ![call[c].nonce] = outcome]

LoginRevoked(c) ==
  /\ Waits(c, "login", "revoke")
  /\ RefusedGrant(c)
  /\ Forgets(call[c].nonce)
  /\ Ends(c)
  /\ UNCHANGED <<now, session, drawn, issued, ended, exchanges>>

----------------------------------------------------------------------------
(* Logout *)

\* POST /session/logout: everything local at once, before any revocation.
LogoutBegin(c, id, n) ==
  LET gone == PublishedBy(n) \cup ({id} \ {None})
  IN /\ call[c] = None
     /\ Known(id) /\ Cookie(n)
     /\ session' = Without(session, gone)
     /\ attempt' = Without(attempt, {n})
     /\ ended' = ended \cup ({id, n} \ {None})
     /\ call' = [call EXCEPT ![c] = NewCall("logout", "revoke", n, id,
          {m \in gone : session[m] # None})]
     /\ UNCHANGED <<now, remote, drawn, issued, exchanges>>

\* One revocation is answered, the one of the session cookie first.
LogoutRevokes(c, m) ==
  /\ Waits(c, "logout", "revoke")
  /\ m \in call[c].todo
  /\ call[c].old \in call[c].todo => m = call[c].old
  /\ remote' = [remote EXCEPT ![m] = "revoked"]
  /\ call' = [call EXCEPT ![c].todo = @ \ {m}]
  /\ UNCHANGED <<now, attempt, session, drawn, issued, ended, exchanges>>

\* All are revoked, or one fails and the rest is not tried.
LogoutEnds(c) ==
  /\ Waits(c, "logout", "revoke")
  /\ Ends(c)
  /\ UNCHANGED <<now, attempt, session, remote, drawn, issued, ended, exchanges>>

----------------------------------------------------------------------------
(* Requests of a session *)

\* current(id) deletes an expired session.
ForgetExpired(n) == session' = IF Live(n) THEN session
                               ELSE Without(session, {n})

\* check: the session is live, Cernere is asked.
RequestBegin(c, n) ==
  /\ call[c] = None
  /\ n \in issued
  /\ ForgetExpired(n)
  /\ call' = IF Live(n)
             THEN [call EXCEPT ![c] = NewCall("request", "check", n, None, {})]
             ELSE call
  /\ UNCHANGED <<now, attempt, remote, drawn, issued, ended, exchanges>>

\* check accepts an answer that does not extend the grant it has now.
CheckAccepts(n, expiry) == Live(n) /\ expiry <= session[n].grant

\* Mutant: the session is stored without looking whether it is still there.
CheckedBack(n, expiry) ==
  [grant |-> expiry, expiresAt |-> expiry, born |-> now]

\* What is left of a session after the answer of a check.
CheckedSession(n, expiry) ==
  IF CheckAccepts(n, expiry)
  THEN [session[n] EXCEPT !.grant = expiry, !.expiresAt = Earlier(@, expiry)]
  ELSE None

\* check is answered, for a grant Cernere still has; a session that is gone,
\* or an answer that would extend it, ends the request and the session.
Checked(c, life) ==
  LET n == call[c].nonce
  IN /\ Waits(c, "request", "check")
     /\ remote[n] \in {"bound", "unknown"}
     /\ session' = [session EXCEPT ![n] = CheckedSession(n, now + life)]
     /\ IF session'[n] = None THEN Ends(c) ELSE Becomes(c, "permit")
     /\ UNCHANGED <<now, attempt, remote, drawn, issued, ended, exchanges>>

\* check fails: the session is deleted.
CheckFails(c) ==
  /\ Waits(c, "request", "check")
  /\ session' = Without(session, {call[c].nonce})
  /\ Ends(c)
  /\ UNCHANGED <<now, attempt, remote, drawn, issued, ended, exchanges>>

\* sessions.run: the permit is issued and consumed, the session looked at
\* before the resource is authorized.
Permitted(c) ==
  /\ Waits(c, "request", "permit")
  /\ Live(call[c].nonce)
  /\ Becomes(c, "authorize")
  /\ UNCHANGED <<now, attempt, session, remote, drawn, issued, ended, exchanges>>

\* The resource is authorized; execute looks at the session and opens the
\* transaction.
Authorized(c) ==
  /\ Waits(c, "request", "authorize")
  /\ Live(call[c].nonce)
  /\ Becomes(c, "current")
  /\ UNCHANGED <<now, attempt, session, remote, drawn, issued, ended, exchanges>>

\* Mutant: the session is not looked at again inside the transaction.
MayRunUnseen(c) == call[c].nonce \in issued

\* authorizeCurrent, after the ACL was read in the transaction.
MayRun(c) == Live(call[c].nonce)

\* The handler runs.
Execute(c) ==
  /\ Waits(c, "request", "current")
  /\ MayRun(c)
  /\ Ends(c)
  /\ UNCHANGED <<now, attempt, session, remote, drawn, issued, ended, exchanges>>

\* A refused permit or ACL, or a session that is gone; an expired one is
\* forgotten.
RequestFails(c) ==
  /\ call[c] # None /\ call[c].op = "request"
  /\ call[c].step \in {"permit", "authorize", "current"}
  /\ ForgetExpired(call[c].nonce)
  /\ Ends(c)
  /\ UNCHANGED <<now, attempt, remote, drawn, issued, ended, exchanges>>

----------------------------------------------------------------------------
\* close: the router is disposed of; calls in flight go on.
Close ==
  /\ attempt' = Without(attempt, Nonces)
  /\ session' = Without(session, Nonces)
  /\ UNCHANGED <<now, call, remote, drawn, issued, ended, exchanges>>

Tick ==
  /\ now < MaxTime
  /\ now' = now + 1
  /\ UNCHANGED <<attempt, session, call, remote, drawn, issued, ended, exchanges>>

Init ==
  /\ now = 0
  /\ attempt = [n \in Nonces |-> None]
  /\ session = [n \in Nonces |-> None]
  /\ call = [c \in Calls |-> None]
  /\ remote = [n \in Nonces |-> "none"]
  /\ drawn = [n \in Nonces |-> None]
  /\ issued = {}
  /\ ended = {}
  /\ exchanges = [n \in Nonces |-> 0]

NonceOrNone == Nonces \cup {None}

LoginStep ==
  \/ \E p \in NonceOrNone, n \in Nonces : BeginLogin(p, n)
  \/ \E p \in NonceOrNone : BeginRefused(p)
  \/ \E c \in Calls, n \in Nonces, old \in NonceOrNone : CompleteBegin(c, n, old)
  \/ \E c \in Calls : \/ Claim(c) \/ ClaimRefused(c) \/ Exchanged(c)
                      \/ LoginFails(c) \/ Publish(c) \/ PublishRefused(c)
                      \/ LoginRevoked(c)
  \/ \E c \in Calls, l \in Lives : RemoteBinds(c, l)

LogoutStep ==
  \/ \E c \in Calls, id, n \in NonceOrNone : LogoutBegin(c, id, n)
  \/ \E c \in Calls, m \in Nonces : LogoutRevokes(c, m)
  \/ \E c \in Calls : LogoutEnds(c)

RequestStep ==
  \/ \E c \in Calls, n \in Nonces : RequestBegin(c, n)
  \/ \E c \in Calls, l \in Lives : Checked(c, l)
  \/ \E c \in Calls : \/ CheckFails(c) \/ Permitted(c) \/ Authorized(c)
                      \/ Execute(c) \/ RequestFails(c)

Next == LoginStep \/ LogoutStep \/ RequestStep \/ Close \/ Tick

Spec == Init /\ [][Next]_vars

----------------------------------------------------------------------------
(* Properties *)

\* Maps and calls hold values of their types; only a claimed attempt is
\* published, and sessions and requests are of published ones.
TypeOK ==
  /\ now \in Times
  /\ attempt \in [Nonces -> Attempt \cup {None}]
  /\ session \in [Nonces -> Session \cup {None}]
  /\ call \in [Calls -> Call \cup {None}]
  /\ remote \in [Nonces -> {"none", "bound", "revoked", "unknown"}]
  /\ drawn \in [Nonces -> Times \cup {None}]
  /\ issued \subseteq Nonces
  /\ ended \subseteq Nonces
  /\ exchanges \in [Nonces -> Nat]
  /\ \A c \in Calls : call[c] # None /\ call[c].op # "logout" =>
       call[c].nonce \in Nonces
  /\ \A c \in Calls : call[c] # None /\ call[c].op = "request" =>
       call[c].nonce \in issued
  /\ \A n \in Attempts(attempt) :
       attempt[n].published => attempt[n].claimed /\ n \in issued
  /\ Sessions(session) \subseteq issued

\* Once the browser ended a login, by a logout with the nonce's or the
\* session's cookie or by beginning another login, no session of it exists:
\* a completion still in flight cannot publish one, whatever it waits for,
\* and a check in flight cannot bring one back.
EndedStaysOut == \A n \in ended : session[n] = None

\* A session that is gone never comes back.
NeverRevived ==
  [][\A n \in issued : session[n] = None => session'[n] = None]_vars

\* The code of a login is exchanged at most once, however often its completion
\* is sent, also after the first exchange failed, was never answered or gave a
\* grant that was refused.
ExchangedOnce == \A n \in Nonces : exchanges[n] <= 1

\* The call that claimed a nonce, from its exchange to its end.
InExchange(c, n) ==
  /\ call[c] # None
  /\ call[c].op = "login"
  /\ call[c].nonce = n
  /\ call[c].step \in {"exchange", "bind", "bound", "revoke"}

\* A grant this process knows of is not forgotten: as long as Cernere has it
\* and no session was made of it, the login that bound it is still on its way
\* to publish or to revoke it.
GrantsAreAccountedFor ==
  \A n \in Nonces :
    remote[n] = "bound" /\ n \notin issued
      => \E c \in Calls : /\ InExchange(c, n)
                          /\ call[c].step \in {"bound", "revoke"}

\* A handler runs only for a session its browser has not ended and whose time
\* is not over, although four answers were awaited since the session was
\* first looked at.
RunsForLiveSession ==
  [][\A c \in Calls : Execute(c) =>
       LET n == call[c].nonce
       IN n \notin ended /\ session[n] # None /\ now < session[n].born + SessionTime]_vars
============================================================================
