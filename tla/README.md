# Aedilis in TLA+

Aedilis books facilities, schedules meetings, runs managed Google Meet spaces and
records attendance.  This directory models its server (`server/`), model-checks it
with TLC and proves the most important facts about it with TLAPS.

## Inventory

| Component | State it keeps | Operations | Hard behaviour |
|---|---|---|---|
| reservation ledger (`routes/reservations.ts`, `routes/facilities.ts`, `db.ts`, `meetings/facility-reservation.ts`) | `facility_cache`, `reservation`, `booking_audience`, `meeting_facility_reservation` | POST/PATCH/DELETE of reservations, synchronisation and overlap toggle of facilities, reserve/release for a meeting | preflight outside the transaction, partial edits, a meeting owning a row |
| booking audience (`booking-access/policy.ts`) | - | default, validation, readability | omitted fields |
| meeting polls (`meetings/repository.ts`, `routes.ts`, `glab-handoff.ts`) | `meeting_poll`, `meeting_response`, `meeting_glab_handoff` | create, edit, finalize, cancel, answer, hand over | revisions, answers to slots that were edited, finalizing again |
| meeting identities (`identity.ts`, `device-identity.ts`, `discord-respondent.ts`, `discord-handoff.ts`) | `meeting_identity` | device, account and Discord actors; linking | two logins linking at once, network between check and write |
| outbox (`meetings/outbox.ts`) | `meeting_outbox` | tick, lease, send, retry | crash after a send, retry of what was sent, permanent failure |
| sessions (`scoped-sessions.ts`, `cernere-login.ts`) | login attempts, sessions (memory) | begin/complete login, check, consume, logout | logout during an exchange, expiry, revocation |
| managed Meet (`meet/*.ts`) | `meet_external_space`, Google connections, `meet_oauth_state` | create, configure, adopt, connect, refresh | uncertain outcome of a non-idempotent call, restart between two steps |
| check-in (`checkin/*.ts`, `routes/checkin.ts`) | `attendance`, `gps_checkin_photo`, `gateway_registry`, limiter | browser, kiosk and GPS check-in, registration of gateways | replay, photo reuse, a reservation cancelled or a gateway registered anew meanwhile |
| Cernere project client (`lib/cernere-project-client.ts`) | socket, pending requests, reconnect timer | connect, request, close | reconnect racing close, late answers |
| persistence (`persistence/*.ts`) | connection queue, transactions, the lock of all processes | `prepare`, `transaction` | nested transactions, work that fails in front of other work, a lost answer of COMMIT |
| GLAB delegation (`glab/*.ts`) | deadlines of the requests in flight | capture the body, consume the delegation, execute | a delegation, a signed context or a client that ends while the handler runs; an error response instead of an exception |
| authentication, facility source, Corpus, start-up, web pages, scripts, vendored code, spike | see `PROJECT.json` | | not modelled, with reasons |

The components meet in the database: meetings reserve and release rows of the
ledger inside their own transactions, sessions and GLAB permits decide who acts,
the outbox reports what a meeting did, and every write goes through the one
connection queue of `persistence/`.

## Modules

| Module | Role |
|---|---|
| `BookingAccess` | pure operators: defaults, validation and readability of an audience |
| `BookingLedger` | the reservation ledger; EXTENDS `BookingAccess` |
| `FacilityCalendar` | abstract specification: a calendar changed in single steps |
| `LedgerRefinement` | `BookingLedger` implements `FacilityCalendar` (INSTANCE ... WITH) |
| `MeetingPoll` | polls, answers, identities and the GLAB handoff; EXTENDS `BookingLedger`, whose operations it calls inside its own transactions |
| `MeetingOutbox` | delivery of the notifications a meeting's transactions queued |
| `MeetingSessions` | login attempts, sessions and the requests they carry |
| `MeetAccounts` | Google tokens, hosts, authorizations and refreshes |
| `MeetSpaces` | the provisioning of Meet spaces; EXTENDS `MeetAccounts` |
| `DiscordRespondents` | answers to a meeting under a Discord identity |
| `CheckIn` | attendance; its calendar is an INSTANCE of `FacilityCalendar` |
| `AttendancePolicy` | pure operators: overrides and passkey streaks, with their reference definition |
| `ProjectClient` | the WebSocket towards Cernere |
| `Store` | abstract specification: work takes effect whole and once, or never |
| `AtomicStore` | the connection queues, transactions, savepoints and the lock |
| `GlabTarget` | a delegated operation of a meeting; EXTENDS `AtomicStore`, whose work it is, and shows that the two implement `Store` |
| `BookingProofs` | theorems about `BookingLedger`, `LedgerRefinement` and `MeetingPoll` |
| `MeetingOutboxProofs` | theorems about `MeetingOutbox` |
| `MeetingSessionsProofs` | theorems about `MeetingSessions` |
| `MeetSpacesProofs` | theorems about `MeetAccounts` and `MeetSpaces` |
| `DiscordRespondentsProofs` | theorems about `DiscordRespondents` |
| `CheckInProofs` | theorems about `CheckIn` |
| `ProjectClientProofs` | theorems about `ProjectClient` |
| `GlabTargetProofs` | theorems about `AtomicStore` and `GlabTarget`, the refinement of `Store` among them |
| `MCBookingLedger`, `MCMeetingPoll`, `MCMeetingOutbox`, `MCMeetingSessions`, `MCMeetSpaces`, `MCDiscordRespondents`, `MCCheckIn`, `MCGlabTarget` | finite instances; the `.cfg` files give the constants |

### How code became actions

The unit of interleaving is what the code runs without giving way.  In the routes
that use the database this is one statement outside of a transaction, or one whole
transaction (`persistence/database.ts` queues both on one connection).  In the
modules that live in memory it is everything up to the next `await`.  A handler with
several such units is a record (`request`, `visit`, `call`, `tick`) that moves from
step to step; whatever it read earlier stays in the record, as the local variables of
the handler do.  An early return, a thrown refusal and a lost connection end the
record without a write (`RequestFails`, `VisitFails`, `RequestFails` of a session).

Operators commented *Mutant* are wrong variants of the definition that follows them.
They are not part of any behaviour.  `PROJECT.json` names, for each property, a
variant that breaks it.

### BookingLedger

`facility_cache`, `reservation` (with its `booking_audience` row) and `link`
(`meeting_facility_reservation`) are the tables.  `request` holds the HTTP requests
in flight.  A POST goes through `PostBegin` (body, audience and range), `ResolveKnown`
(upsert of the cache), `ReadPolicy`, `Preflight` and `PostCommit`, its transaction.
A PATCH goes through `PatchBegin` (the link check), `PatchRead`, `PatchParse`, the same
preflight unless the times stay, and `PatchCommit`, which reads the row again.
DELETE is one transaction.  The overlap toggle synchronises, writes and synchronises
again.  `ReserveMeetingFacility` and `ReleaseMeetingFacility` are what the meetings
call; here any meeting may call them at any time with any slot, which is more than
`MeetingPoll` does.

Abstractions: time is a small range of instants cut into minutes; purpose, names and
formatting are left out; the source answers one of the `Declared` policies each time
it is asked; `reservation[r].meeting` is a history value (for which meeting a row was
made); ids are interchangeable.

### MeetingPoll

`poll` is a row of `meeting_poll` with its audience, `response` one of
`meeting_response`, `handoff` one of `meeting_glab_handoff`, `identity` one of
`meeting_identity`; `device` is a browser's device cookie and `enqueued` the outbox
rows of the last step.  `visit` is a browser's page and the request it has sent: the
page fixes the revisions and the candidates the user saw.  `Edit`, `Finalize`,
`Cancel`, `GlabFinalize`, `GlabCancel`, `Answer`, `Reanswer` and `DeleteResponse` are
the transactions; `ValidateFacility`, `EditAudience` and `EditGuest` are the statements
PATCH runs before its own.  The routes of the ledger run beside them.

Abstractions: the GET of a page and the reads a handler makes first are `View` and
`Begin`; the two `actorFor` calls of one handler are one; ties of `created_at` between
identities do not occur (identities are numbered in order of creation); an answer
keeps the candidate its author saw instead of yes, maybe or no; a request of a login
session, which runs in one transaction, is the case in which nothing runs between the
steps; an edit starts from a page that does not remember an answer; Discord respondents
are a module of their own; the half year a device cookie lasts is not timed; `Create`
reads its actor, registers it if need be (`ensureActor`) and inserts the meeting in one
step (a registration alone is `Session`); a request names the revision its page saw,
where the routes take any number from the body.

### MeetingOutbox

`status`, `attempts` and `due` are the columns of a row.  `tick` is a call of the
worker with the batch it selected and the row it has in hand; `running`, `stopped` and
`up` are its flags and the process.  A row goes through `Lease`, `ReadOwner`,
`ReadAudience`, `Identify`, `Deliver` or `SendFails`, and `Record` or `Failed`, which
also takes the errors of its reads (`ReadFails`).  `Crash`, `Stop`, `RecordFails` and
`TickBreaks` may happen at any await.

Abstractions: `due_at` is only compared with the clock, so it is a Boolean; the lease
of 120 s outlives one attempt (10 s at Cernere and two requests of 15 s at Discord),
so a row in hand does not become due; one process runs the worker and all rows concern
one meeting; the order within a batch is arbitrary; a read and the update to `skipped`
that follows it are one step.  A process that exits kills its tick where it stands.

### MeetingSessions

`attempt` and `session` are the two maps of `MeetingSessions`, keyed by the nonce (a
nonce is claimed once, so it names the session too); `call` holds the completions,
logouts and requests in flight; `remote` is what Cernere has.  `drawn`, `issued`,
`ended`, `exchanges` (how often the code of a nonce's login was exchanged) and
`session[n].born` are history.

Abstractions: `check`, `permit`, `authorize` and `current` are the four answers a
request waits for before its handler, which itself is one step (`Execute`);
`LogoutRevokes` may succeed where the code would find the grant expired and give up;
the risk table of `operation-policy.ts` is left out.

### MeetAccounts and MeetSpaces

`token` is the Google token Cernere keeps of a user, `host` the tables `meet_organizer`
and `meet_group_organizer`, `flow` an authorization (its row of `meet_oauth_state`
exists while it is `issued`), `refresh` the map of refreshes in flight and `row` the
tables `meeting_meet` and `meet_external_space`.  An authorization goes through
`Start`, `Clear`, `Issue`, `Complete`, `Recheck`, `Exchange`, `ReadOld`, `CheckLinked`,
`Store` and `Save`, the awaits of `authorizationUrl`, `takeState` and `bind`.

`MeetSpaces` extends it with `job`, the calls of `ensureSpace` in flight, `active`,
the set that keeps a record to one call, and what Google has: `made`, the number of
spaces created for a record, and `member`, the accounts that host or co-host the
space.  A call goes through `ReadRow`, `ReadEmail`, `AskAccess`, the refresh it shares
(`Settle`), `ReadHostEmail`, `Insert`, `Create`, `SaveName`, `Configure` and `Finish`;
`Doubt` is the catch block, `Fails` every other failure or refusal.  Each write, at the
database, at Cernere and at Google, may take effect and lose its answer.

Abstractions: a Google account is its subject and its address; an access token is the
account it was given for; the calls of `configure` are one step; the reads of the two
host tables are one; whom a meeting is booked for is any host at each first attempt;
what a relayed request says of a user's role in an organization is an input.  The
abort of a delegated request is one of the ways in which an await fails.

### DiscordRespondents

`respondent` is `meeting_discord_respondent`, `device` the rows of `meeting_device` the
handoffs issue, `jar` the cookies of a browser, `response` the revision of an answer.
A handoff goes through `Handoff` and `ReadsAudience` (the two reads of
`requireGuestMeeting`), `Consume` (Concordia's answer), `Rechecks` and `ReadsAudience`
again, and `Establish`, its transaction; the answer with the cookie may be lost.
`View`, `Begin`, `SaveResponse` and `DeleteResponse` are what a page does under the
identity of its cookie, `Edit` and `CloseMeeting` what the organizer does meanwhile.
`since` is history: what the meeting allowed (answers without a login, readers without one) from the arrival of the proof on.

Abstractions: a meeting is its state, its guest setting, whether it is public, and its
revision; a code also names the device row it leads to, as both are used once; whoever
may read a meeting that is not public is one of `Insiders`; the contents of an answer
are the subject of `MeetingPoll`.

### CheckIn and AttendancePolicy

`gateway`, `attendance` and `photo` are the tables, `hits` the map of the limiter.  A
`visit` is a request: it goes through `BrowserVerify`, `KioskVerify` or `Gps` and
`Parsed`, `Verify` (everything the gateway's row decides), for a form `Reused`, then
`Match`, `Record` or `RecordGps`, and `Announce`.  The bookings it is matched with are
those of `FacilityCalendar`, which the ledger implements, moved and ended by `Calendar`
between any two steps.  The field `held` of a visit
(every registration its gateway had since the request came in) and `announced` are
history.

Abstractions: a signature holds when its key is the registered one; positions are their
distances from the venue; an attestation has its defaults filled in; a webhook that was
handed over counts as sent (it is not waited for, nor tried again); a token of a kiosk
is always that of the gateway's last registration.  `AttendancePolicy` translates the
loop that counts the days on which a user had nothing but a passkey, and TLC compares it
with its definition (the longest run of consecutive days) for all sets of days of a
week and all methods of six check-ins in three days.

### ProjectClient

`ws`, `reconnectTimer` and `closedByCaller` are the fields, `logins` the calls of
`connect` that wait for a token, `socket` what has become of each WebSocket, `pending`
the map of requests.  `Opens`, `Errors`, `CloseEvent` and `Message` are the handlers of
a socket's events; `TimerFires`, `TimesOut`, `Request` and `Close` the rest.

Abstraction: a socket that failed before it was open reports its close event before the
reconnect delay is over, or never.  Were it later, the event would clear the `ws` of
the next connection, which stays open and unused while another is made.

### Store, AtomicStore and GlabTarget

`queue` is the `ConnectionQueue` of each process, `conn` its transaction with the
savepoints inside it, `lock` the advisory lock (with SQLite there is one process and
`BEGIN IMMEDIATE` is the lock), `content` what is committed and `answer` how a promise
was settled.  `Nest`, `Release` and `RollbackTo` are a transaction inside a
transaction; a statement that fails is undone by its own savepoint and is no step.
`Fails` is any failure of a query, a COMMIT of which nobody can tell included; `Crash`
ends a process.

`GlabTarget` is the work: `CaptureBody`, `Consume` and `Execute` are the gate, `Admit`
the checks at the start of the transaction, `FirstRow`, `Enters`, `SecondRow` and
`Handled` a handler that writes before and inside its own nested transaction,
`HandlerThrows` and `Undo` its refusal at any point, `Finish` the last look and the
COMMIT.  No await separates the look from the sending of COMMIT; PostgreSQL carries it
out a round trip later, under the lock, but the permit may end in that time, so
`CommittedWithinItsPermit` is about the moment at which COMMIT is sent.
`EditSubmitted` and `EditWrites` are the owner's edit of the audience.
`ImplementsStore` says that through all of this `content` changes as `Store` allows:
this is the promise on which every other module that takes a transaction for one step
relies.

Abstractions: what a handler writes is two rows; the body and the signature of the
context are good or the call is refused; Cernere's consumption of a delegation is one
step, its lost answer another.

## Runs

| Run | Bounds | What it shows |
|---|---|---|
| `ledger` | 1 facility, 2 rows, 1 meeting, 2 requests, 3 instants | two concurrent requests are the smallest race between a preflight and a transaction, a meeting that finalizes twice needs two rows; three instants give two intervals that touch, overlap or invert |
| `meet` | 2 users, 2 Google accounts, 2 hosts (Aedilis and an organization), 2 fronts, 1 authorization, 2 records (a meeting's and a front end's event), 2 requests | requests for the two records share a refresh of their host's token; requests for one record retry after every outcome beside an authorization of either user. The constraint `Bounds` leaves out an authorization while both records are in use, an organization's host beside both, and hosts that are not administrators; any number of everything, without it, is proved |
| `poll_answers` | 2 browsers, 2 identities, 1 answer id, no reservation ids, meeting revisions up to 3, answer revisions up to 2 | both pages of one answer, an answer against an edit that moves the candidate or makes the meeting private, and two edits that overlap between their reads and their transaction, with given and omitted settings; without reservation ids no meeting is finalized here (`poll_facility` does that), the organizer edits or cancels |
| `poll_facility` | 1 browser, 1 request, 2 rows, revisions up to 4 | create, finalize, edit, finalize, hand over, cancel beside the ledger's routes; each step is a step of `BookingLedger` and of `FacilityCalendar` |
| `outbox` | 2 rows, 2 overlapping ticks, 2 attempts, 1 breakdown, 1 change of settings | breakdown before, during and after a delivery, and a change at any await |
| `sessions` | 2 nonces, 2 calls, attempts of 2, sessions of 2 and grants of 1 to 3 time units, room for 1 session | two completions compete for the last place, a completion is sent again after its exchange failed, a logout meets a completion at each of its awaits |
| `discord` | 1 meeting, 1 person, 2 codes, 2 browsers, 2 identities, revisions up to 3, sessions of 1 time unit | the person comes back with the second code, at once, on the other browser or after the first session ended, while the meeting is edited twice |
| `checkin` | 1 user, 1 gateway with 2 registrations (facility and key both change), 2 attestations, 2 photos of one moment, 1 booking, 2 visits, 3 instants | each pair of visits, by any of the three routes, between which the gateway moves to the other facility and key and back, the booking is moved or ended, the clock passes the freshness or the process restarts; one attestation has the old place and key and the other the new place and the old key, one form is of each registration; the limit is 1 form an instant |
| `project_client` | 3 sockets, 3 requests, 2 logins | more sockets and logins than `OneConnection` allows, so that the bounds hide nothing |
| `glab` | 2 processes, 3 calls, 2 delegations, 1 edit, 2 instants | one delegation presented to both processes, with a group and without, an operation of the owner, and the edit, in every order of queue, lock, failure and crash |
| `doc_opted_in`, `doc_meet_identity` | | disagreements between documents and code, below |

`MaxRevision`, `MaxTime`, `MaxFaults`, `MaxChanges`, `ReservationIds`, `ResponseIds`,
`Identities`, `Nonces`, `Jobs`, `MaxClock`, `MaxAnswers` and `MaxLogins` bound what would otherwise grow.  Each is at the
value at which the scenario a property is about fits in full; the variants named
*Mutant* are found within the same bounds, which shows that the scenarios occur.
Rows are never removed, so in all instances a behaviour ends when the ids are used up;
deadlock is therefore not an error in these runs.  Symmetry is used for random ids and
interchangeable browsers, requests, calls and nonces, never in the run
with a liveness property.

A run takes from a second to three minutes with two workers; the largest, `discord`,
`meet` and `checkin`, have between one and a half and five million states.  The type invariants are proved,
not run.

### Fairness

`MeetingOutbox`: a step of a running tick happens, because
`setInterval` fires again and again and every await ends (each request has a timeout).
A lease or a backoff runs out (`BecomesDue`).  A process that was stopped exits and
whoever runs the server starts it again.  No fairness is assumed for a delivery to
succeed, for a user or for the absence of breakdowns beyond their bound.  Under this
every pending row is settled (`EventuallySettled`).

`ProjectClient`: the timers of the process fire, a socket that is closing or has failed
reports so, and, among attempts repeated for ever, some get their token and some open
(strong fairness of `TokenArrives` and `Opens`).  Without the last assumption the code
only promises to keep trying.  Under this a client that is not closed is connected again
(`Reconnects`).

`GlabTarget`: work that has begun goes on or fails, because statements and connections
have timeouts, and the lock, once free, is granted in turn to the processes that wait
(strong fairness of `Starts`, as PostgreSQL queues its waiters).  Under this no failure
or crash leaves the queues standing (`QueueDrains`).

## Proofs

Every safety invariant, action property and refinement that a passing run checks is
also a theorem, for every value of the constants that satisfies the named assumptions
of the modules and so for any number of requests, rows, users and calls.  Each proof
has the same shape: an inductive invariant (`...Invariant`), one lemma per action that
says the action keeps it, and the property as a consequence.  The invariants were
checked by TLC on the instances of the runs before they were proved.  What is worth
knowing of each is why its property is not inductive by itself.

### The ledger (`BookingProofs`, part one)

- **`LedgerTypeOK`**.  A step of a request uses what an earlier step left in its
  record, so typing needs `RequestShape`: which fields each kind of request carries at
  which step, and that a PATCH names an existing row whose facility it remembers.
- **`LedgerMeetingHolds`**, **`LedgerCancelledIsFinal`**, **`LedgerOverlaps`**,
  **`LedgerIntervals`**.  A lemma reduces `Next` to the four ways a row is written (a
  POST or a meeting creates it, a PATCH moves it, it is cancelled); each property is a
  few cases of it.  `IntervalsAreProper` is inductive only together with the ranges of
  the POST requests in flight.
- **`LedgerInductive`**, **`LedgerManagedFromMeetingOnly`**.  PATCH looks at the link
  table before its transaction.  No link can appear for its row afterwards: a meeting
  makes its own rows, and a row it gave up is cancelled for good (`PatchesUnmanaged`).
- **`LedgerImplementsCalendar`**.  The step of a request that commits is the step of
  the calendar, all others stutter; a row is `Free`, held or `Over`.

### Meetings (`BookingProofs`, part two)

- **`PollImplementsLedger`**, **`PollImplementsCalendar`**.  Each step of a meeting
  calls `ReserveMeetingFacility` or `ReleaseMeetingFacility` with arguments the ledger
  allows, or leaves the ledger alone.  So part one holds of the whole.
- **`PollInductive`**.  `VisitsKnow` is the core: what a page and its request know (the
  candidates, the audience completed from the one that was stored, the guest setting,
  the answer) is so as long as the revision on the page is the meeting's or the
  answer's.  It is kept because every step that touches a meeting or an answer gives it
  a greater revision (`PollsAdvance`, `ResponsesAdvance`), and it is what makes the
  comparison of revisions in the transactions enough.
- **`PollFinalizedHoldsSlot`**, **`PollHandoffFrozen`**.  Per meeting: a step of the
  ledger's routes leaves the row of a meeting alone (`StaysFor`,
  from what part one knows of the PATCHes in flight), and a step of another meeting cannot reach it.  A meeting
  that does not exist yet holds nothing, and a snapshot with a facility has a
  reservation.
- **`PollAnswersMatchSlots`**, **`PollNoLostAnswer`**, **`PollSettingsSurviveEdit`**,
  **`PollAnswersFromReaders`**.  Consequences of `VisitsKnow` in the committing step.

### Outbox, sessions and Meet

- **`OutboxInductive`**, **`OutboxResentOnlyAfterUnknown`**, **`OutboxOnlyWhileWilling`**
  (`MeetingOutboxProofs`).  A row in hand is leased and in the hand of one call alone
  (`JobsInHand`), so every delivery is recorded, about to be recorded by that call, or
  counted as unknown (`Accounted`).  `Permitted` keeps what was read at each await.
- **`SessionsTypeOK`**, **`SessionsEndedStaysOut`**, **`SessionsExchangedOnce`**,
  **`SessionsNeverRevived`**, **`SessionsRunLive`**, **`SessionsGrantsAccounted`**
  (`MeetingSessionsProofs`).  The invariant `LoginInvariant` says why ending a login
  ends its session although the session map is not searched: as long as the nonce's
  cookie lives, a session can be found through its published attempt
  (`SessionHasAttempt`), because an attempt expires with the cookie
  (`AttemptsAreDrawn`); and a nonce that is exchanged or was published cannot be
  claimed again (`ClaimsLast`).  Steps that draw, claim and publish nothing are one
  lemma, `ForgettingStep`; `BeginLogin`, `Claim` and `Publish` have their own.
  `SessionsExchangedOnce` counts the exchanges begun for a nonce: one that was begun
  leaves a claimed attempt, or none at a nonce already drawn (`ExchangesCounted`), so a
  failed or unanswered exchange is not tried again.  `SessionsRunLive` adds that a
  session's own limit counts from its claim (`SessionsBounded`); it speaks of the
  session alone, not of the permit or the ACL.
- **`SpacesTypeOK`**, **`SpacesOneSpacePerRecord`**, **`SpacesOneRequestPerRecord`**,
  **`SpacesNobodyWaitsInVain`**, **`SpacesAccountsAreNotMixed`**,
  **`SpacesHostsHaveToken`**, **`SpacesReadyForItsRequester`** (`MeetSpacesProofs`).
  `SpacesInvariant` has four parts.  `AccountsInvariant` says what an authorization
  knows at each stage (the refresh token it carries is of the account Google answered
  for) and what a refresh in flight holds.  `JobsInvariant` gives a request a host, an
  access token and a row from the step on that relies on it.  `CreationInvariant` is
  why a space is made once: a record without a row has no space, and one whose space is
  about to be created has none either and only one creator.  It follows from the
  primary key alone; the lock (`LockInvariant`) is proved beside it.  The steps of a
  request are a few shapes: it goes on (`RequestGoesOn`), requests end (`RequestsEnd`),
  or it inserts or creates.  `SpacesReadyForItsRequester` excuses a requester without an
  address, and one whose address was read to be the host's when the access token already
  belonged to another account (the host was re-authorized between the awaits): such a
  requester may be told ready and neither host nor co-host the space.  Every other one
  is a co-host, whatever came between.

### Discord, check-in, Cernere and the store

- **`RespondentInductive`**, **`RespondentAnsweredOnce`**,
  **`RespondentInvitedSinceProof`** (`DiscordRespondentsProofs`).  A person has at most
  one identity in a meeting (`OneIdentity`), because the transaction looks for the one
  an earlier transaction made.  `SinceCovers` says that what a handoff has checked is
  in its history, and that whatever the meeting allows now is, too.
- **`CheckInInductive`**, **`CheckInAnnouncedOnce`**, **`CheckInReservationOfTheUser`**,
  **`CheckInPhotosUsedOnce`**, **`CheckInSignedForItsFacility`** (`CheckInProofs`).
  A visit has seen the registration its gateway has now (`VisitsWitness`), so what it
  takes from the gateway's row is of a registration that was in force while it was under
  way, key and facility alike (`VisitsSigned`); a booking it was matched with was the user's in that facility and
  can only move in time or end (`BookingOf`), and of a row without a webhook at most
  one visit is about to send it (`OneAnnouncer`).
- **`ClientInductive`**, **`ClientOneConnection`**, **`ClientPendingOnItsSocket`**,
  **`ClientClosedForGood`** (`ProjectClientProofs`).  `OneAttempt`: of a login that
  waits for its token, a socket and the timer there is exactly one while the client is
  not closed.  `FailedAlone`: while the close event of a failed socket may still come
  there is nothing it could hit.
  `ClientClosedForGood` is about timers, logins and connection attempts: the attempt
  that was under way at `close()` goes on, its socket may open and stay, and requests
  may be sent on it.
- **`GlabInductive`**, **`GlabAnswerTellsTheTruth`**, **`GlabCommittedWithinItsPermit`**,
  **`GlabImplementsStore`** (`GlabTargetProofs`).  A process has a transaction exactly
  when it holds the lock (`OneTransaction`); what it sees is what is committed but for
  what its own call wrote, savepoint by savepoint (`Views`); so a COMMIT is
  the step that takes effect in `Store`, a rollback, a failure or a crash one that
  leaves the content alone, and the rest stutters.  The audience by which a call was admitted is still the
  committed one when it commits (`Permits`), because an edit would need the lock.

### Assumptions

They are on constants only: ids and sentinels are distinct (`None`, `NoRow`, `Gone`,
`Free`, `Over` and their like are no value of the rows they stand beside), times and
bounds are natural numbers, administrators are users, grants live for at least one time
unit, what an organizer may send is well formed, and of `GlabTarget` the initial content
has no rows.  Nothing is assumed of the sizes of sets, of `MaxAttempts`, `MaxSessions`
or the lifetimes beyond being numbers; only the outbox needs finitely many
notifications.  TLC evaluates each assumption in the runs.

### What stays with TLC

- `EventuallySettled`, `Reconnects` and `QueueDrains`: liveness under fairness, for
  which the prover has no rules.
- The comparison of the streaks in `AttendancePolicy` with their definition, for days
  and check-ins within bounds: it is an induction over data.
- The two disagreements with documents, which are counterexamples.

## Where documents and code disagree

- `POST /api/facilities/:id/overlap` is described as a check for a free slot
  (`spec/feature/facility.md`, `conflict-detection.md`); the handler sets the
  facility's overlap policy (`ToggleSet` of `BookingLedger`).
- An administrator may change a reservation of another user according to
  `spec/feature/reservation.md` and `admin.md`; PATCH answers 403
  (the owner guard of `PatchRead`).  Neither this nor the former needs a run: it is
  what one guard or assignment says.
- Linked participants who opted in are told of a meeting's change according to
  `spec/feature/meeting-polls.md`; an identity that is linked after the opt-in keeps
  `notify` 0, so its user is not told of meetings answered with it (`doc_opted_in`).
- "Never silently replace the Google identity after it has been assigned to a
  meeting" (`meet/oauth.ts:146`): the look for a linked Meet and the store of the new
  account are several awaits apart, and a Meet created in between does not stop the
  store (`doc_meet_identity`).  A refresh whose copy of the token is older than a
  re-authorization has the same effect (`meet/tokens.ts:44`).
- "A creator re-link must never replace" the token of a representative
  (`meet/organizers.ts:26`): two authorizations of one user, one as a creator and one
  as an organizer, may end with the creator's token of a user who hosts.  `MeetSpaces`
  states it as `HostsMayHost`; no run checks it, because it does not hold.

- "A concurrently closed/private meeting cannot acquire a guest session"
  (`meetings/discord-handoff.ts:46`): the second check is two reads in front of the
  transaction that establishes the respondent, so a meeting closed in between does.
  What such a session can do is no more than what one made a moment earlier can, since
  every answer is checked again; `InvitedSinceProof` states what does hold.

## Plan

The state machines and the proofs of what the runs check are there.  What is left:

1. Properties the proved invariants make cheap to state and that no run asks for yet,
   such as `OneRequestPerRecord` of the spaces, which is proved only.
2. The reservation and managed-Meet targets of the GLAB delegation, as work of
   `AtomicStore` beside the meeting operation of `GlabTarget`.
3. The links between modules that are so far read by eye: that `MeetingPoll` enqueues
   what `MeetingOutbox` starts from, and that `DiscordRespondents` sees of a meeting
   what `MeetingPoll` does to it, as refinements.
4. Start-up and the exporting Corpus views, if they come to keep state of their own.

## Not modelled

Cryptography and parsing (the signature of a booking context, JWT, attestation
signatures, Exif, the rewriting of SQL placeholders), pure input and output (pages,
configuration, start-up), the exporting Corpus views, the vendored Cernere library
except for what the sessions and delegations need of it, the one-shot site scripts and
the check-in prototype.  Of the check-in, the route that takes event summaries inserts a
row that nothing reads.  Of the GLAB delegation, the reservation and managed-Meet
targets, which put other handlers behind the gate that `GlabTarget` models.
`PROJECT.json` lists each with its reason.
