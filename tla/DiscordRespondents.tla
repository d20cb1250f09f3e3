------------------------- MODULE DiscordRespondents -------------------------
(***************************************************************************)
(* Answers to a meeting under a Discord identity, without a login          *)
(* (src/server/meetings: discord-handoff.ts, discord-respondent.ts,        *)
(* device-identity.ts): the browser hands over a one-use code, Concordia   *)
(* says whose it is, and the browser gets a cookie with which it answers   *)
(* in that one meeting for half a day.  Every check of the meeting is a    *)
(* read, or two, of its own; meanwhile the organizer edits and closes the  *)
(* meeting, and the same person comes back with another code or browser.   *)
(*                                                                         *)
(* Meeting polls, guests and logins are the subject of MeetingPoll; here a *)
(* meeting is what these requests look at.                                 *)
(***************************************************************************)
EXTENDS Naturals, FiniteSets

CONSTANTS
  Meetings, Persons, Browsers,
  Guild,       \* the organization of the configuration
  Codes,       \* one-use codes; also the id of the device row one leads to
  CodeFor,     \* [meeting, guild, person] of a code
  Identities,  \* ids of meeting_identity, taken in order
  Insiders,    \* browsers that may read a meeting that is not public
  Lifetime,    \* of a device row: 12 hours
  MaxClock, MaxRevision, MaxAnswers, \* bound the clock and the revisions
  None

ASSUME DiscordAssumption ==
  /\ \A c \in Codes : CodeFor[c].meeting \in Meetings /\ CodeFor[c].person \in Persons
  /\ Identities \subseteq Nat /\ Insiders \subseteq Browsers
  /\ Lifetime \in Nat /\ MaxClock \in Nat /\ MaxRevision \in Nat
  /\ MaxAnswers \in Nat

VARIABLES
  meeting,    \* [open, guest, public, revision] of a meeting
  spent,      \* codes that Concordia has let be used
  respondent, \* meeting_discord_respondent: the owner_id of a person
  device,     \* meeting_device by id: [owner, until], or None
  jar,        \* a browser's cookie for the path of a meeting, or None
  handoff,    \* a browser's POST /:id/discord-handoff, or None
  page,       \* a browser's page and the answer it sends, or None
  response,   \* revision of an identity's response in a meeting; 0: none
  clock,
  since       \* history: what the meeting allowed since the proof arrived

vars == <<meeting, spent, respondent, device, jar, handoff, page, response, clock, since>>

TakesGuests(r) == r.open /\ r.guest

Allows(r) == {what \in {"answers", "readers"} :
  IF what = "answers" THEN TakesGuests(r) ELSE r.public}

----------------------------------------------------------------------------
(* The handoff *)

Steps(b, step) == handoff' = [handoff EXCEPT ![b].step = step]
EndHandoff(b) == handoff' = [handoff EXCEPT ![b] = None] /\ since' = [since EXCEPT ![b] = {}]
At(b, step) == handoff[b] # None /\ handoff[b].step = step
Proven(b) == \E step \in {"row again", "audience again", "establish"} : At(b, step)
MeetingOf(b) == meeting[handoff[b].meeting]

\* requireGuestMeeting, first read: the row of the meeting.
Handoff(b, m, c) ==
  /\ handoff[b] = None
  /\ TakesGuests(meeting[m])
  /\ handoff' = [handoff EXCEPT ![b] = [step |-> "audience", meeting |-> m, code |-> c]]
  /\ UNCHANGED <<meeting, spent, respondent, device, jar, page, response, clock, since>>

\* requireGuestMeeting, second read: its audience.
ReadsAudience(b) ==
  /\ \/ At(b, "audience") /\ Steps(b, "consume")
     \/ At(b, "audience again") /\ Steps(b, "establish")
  /\ MeetingOf(b).public
  /\ UNCHANGED <<meeting, spent, respondent, device, jar, page, response, clock, since>>

\* The proof is for this meeting and from the configured guild.
ProofHolds(b) ==
  LET proof == CodeFor[handoff[b].code] IN
  /\ proof.meeting = handoff[b].meeting
  /\ proof.guild = Guild

\* Concordia consumes the code and its proof arrives; else nobody tries again.
Consume(b) ==
  /\ At(b, "consume")
  /\ handoff[b].code \notin spent
  /\ spent' = spent \cup {handoff[b].code}
  /\ \/ /\ ProofHolds(b)
        /\ Steps(b, "row again")
        /\ since' = [since EXCEPT ![b] = Allows(MeetingOf(b))]
     \/ EndHandoff(b)
  /\ UNCHANGED <<meeting, respondent, device, jar, page, response, clock>>

\* Mutant: after the network round trip nothing is read again.
RowAgainSkipped(b) == Steps(b, "establish")

RowAgain(b) == TakesGuests(MeetingOf(b)) /\ Steps(b, "audience again")

\* requireGuestMeeting again
Rechecks(b) ==
  /\ At(b, "row again")
  /\ RowAgain(b)
  /\ UNCHANGED <<meeting, spent, respondent, device, jar, page, response, clock, since>>

\* A refusal, a failed request of Concordia, a lost connection.
HandoffFails(b) ==
  /\ handoff[b] # None
  /\ EndHandoff(b)
  /\ UNCHANGED <<meeting, spent, respondent, device, jar, page, response, clock>>

Known == {i \in Identities : \E m \in Meetings, p \in Persons : i \in respondent[m][p]}

\* Mutant: whoever comes back is given an identity of its own again.
OwnerIdNew(m, p) == {i \in Identities : \A j \in Known : j < i}

\* The identity the person has in this meeting, or a new one.
OwnerId(m, p) ==
  IF respondent[m][p] # {} THEN respondent[m][p]
  ELSE {i \in Identities : \A j \in Known : j < i}

\* establishDiscordRespondent: one transaction; expired rows go, a row and
\* the cookie are issued.  The answer with the cookie may be lost.
Establish(b) ==
  LET m == handoff[b].meeting
      c == handoff[b].code
      p == CodeFor[c].person
  IN /\ At(b, "establish")
     /\ \E i \in OwnerId(m, p) :
          /\ respondent' = [respondent EXCEPT ![m][p] = @ \cup {i}]
          /\ device' = [d \in Codes |->
               IF d = c THEN [owner |-> i, until |-> clock + Lifetime]
               ELSE IF device[d] # None /\ device[d].until <= clock THEN None
               ELSE device[d]]
     /\ \/ jar' = [jar EXCEPT ![b][m] = c]
        \/ UNCHANGED jar
     /\ EndHandoff(b)
     /\ UNCHANGED <<meeting, spent, page, response, clock>>

----------------------------------------------------------------------------
(* Acting as a respondent *)

\* deviceIdentity, asked with the meeting of the path: the identity behind
\* the cookie, none once its row has expired or is gone, or belongs to
\* another meeting.
DeviceIdentity(b, m) ==
  {i \in Identities :
     /\ jar[b][m] # None /\ device[jar[b][m]] # None
     /\ device[jar[b][m]].owner = i /\ device[jar[b][m]].until > clock
     /\ \E p \in Persons : i \in respondent[m][p]}

\* The device row of the cookie, when the cookie is good.
LoggedOut(b, m) == IF DeviceIdentity(b, m) = {} THEN {} ELSE {jar[b][m]}

\* DELETE /:id/discord-session
Logout(b, m) ==
  /\ jar[b][m] # None
  /\ device' = [d \in Codes |-> IF d \in LoggedOut(b, m) THEN None ELSE device[d]]
  /\ jar' = [jar EXCEPT ![b][m] = None]
  /\ UNCHANGED <<meeting, spent, respondent, handoff, page, response, clock, since>>

\* GET /:id, as whoever may read it.
View(b, m) ==
  /\ page[b] = None
  /\ meeting[m].public \/ (b \in Insiders /\ DeviceIdentity(b, m) = {})
  /\ page' = [page EXCEPT ![b] =
       [meeting |-> m, revision |-> meeting[m].revision,
        responses |-> response[m], actor |-> None]]
  /\ UNCHANGED <<meeting, spent, respondent, device, jar, handoff, response, clock, since>>

\* A request for a response: the actor is read, which for a respondent has no
\* group, and the meeting must be readable to it.
Begin(b) ==
  /\ page[b] # None /\ page[b].actor = None
  /\ meeting[page[b].meeting].public
  /\ \E i \in DeviceIdentity(b, page[b].meeting) :
       page' = [page EXCEPT ![b].actor = i]
  /\ UNCHANGED <<meeting, spent, respondent, device, jar, handoff, response, clock, since>>

Response(b) == response[page[b].meeting][page[b].actor]

\* The response, or its absence, is the one on the page.
AsOnPage(b) ==
  /\ page[b] # None /\ page[b].actor # None
  /\ Response(b) = page[b].responses[page[b].actor]

EndPage(b) == page' = [page EXCEPT ![b] = None]

\* What saveResponse looks at in its transaction.
MayAnswer(b) ==
  /\ page[b].revision = meeting[page[b].meeting].revision
  /\ TakesGuests(meeting[page[b].meeting])

\* saveResponse: an insertion, or a change of the response that is there.
SaveResponse(b) ==
  /\ AsOnPage(b)
  /\ MayAnswer(b)
  /\ Response(b) < MaxAnswers
  /\ response' = [response EXCEPT ![page[b].meeting][page[b].actor] = @ + 1]
  /\ EndPage(b)
  /\ UNCHANGED <<meeting, spent, respondent, device, jar, handoff, clock, since>>

\* deleteResponse: the owner alone decides.
DeleteResponse(b) ==
  /\ AsOnPage(b)
  /\ Response(b) > 0
  /\ response' = [response EXCEPT ![page[b].meeting][page[b].actor] = 0]
  /\ EndPage(b)
  /\ UNCHANGED <<meeting, spent, respondent, device, jar, handoff, clock, since>>

PageFails(b) ==
  /\ page[b] # None
  /\ EndPage(b)
  /\ UNCHANGED <<meeting, spent, respondent, device, jar, handoff, response, clock, since>>

----------------------------------------------------------------------------
(* The organizer and the clock *)

Becomes(m, row) ==
  /\ meeting[m].revision < MaxRevision
  /\ meeting' = [meeting EXCEPT ![m] = row]
  /\ since' = [b \in Browsers |->
       IF Proven(b) /\ handoff[b].meeting = m
       THEN since[b] \cup Allows(row) ELSE since[b]]
  /\ UNCHANGED <<spent, respondent, device, jar, handoff, page, clock>>

\* PATCH /:id: audience and guest setting in one transaction, which opens the
\* poll again and touches every answer.  Guests may answer only where the
\* public may read.
Edit(m, guest, public) ==
  /\ guest => public
  /\ Becomes(m, [open |-> TRUE, guest |-> guest, public |-> public,
                 revision |-> meeting[m].revision + 1])
  /\ response' = [response EXCEPT ![m] = [i \in Identities |-> IF @[i] = 0 THEN 0 ELSE @[i] + 1]]

\* Finalized, perhaps for another time, or cancelled.
CloseMeeting(m) ==
  /\ Becomes(m, [meeting[m] EXCEPT !.open = FALSE, !.revision = @ + 1])
  /\ UNCHANGED response

Tick ==
  /\ clock < MaxClock
  /\ clock' = clock + 1
  /\ UNCHANGED <<meeting, spent, respondent, device, jar, handoff, page, response, since>>

----------------------------------------------------------------------------
Init ==
  /\ meeting = [m \in Meetings |-> [open |-> TRUE, guest |-> TRUE, public |-> TRUE, revision |-> 1]]
  /\ spent = {}
  /\ respondent = [m \in Meetings |-> [p \in Persons |-> {}]]
  /\ device = [c \in Codes |-> None]
  /\ jar = [b \in Browsers |-> [m \in Meetings |-> None]]
  /\ handoff = [b \in Browsers |-> None]
  /\ page = [b \in Browsers |-> None]
  /\ response = [m \in Meetings |-> [i \in Identities |-> 0]]
  /\ clock = 0
  /\ since = [b \in Browsers |-> {}]

BrowserStep(b) ==
  \/ \E m \in Meetings, c \in Codes : Handoff(b, m, c)
  \/ \E m \in Meetings : Logout(b, m) \/ View(b, m)
  \/ ReadsAudience(b) \/ Consume(b) \/ Rechecks(b) \/ Establish(b) \/ HandoffFails(b)
  \/ Begin(b) \/ SaveResponse(b) \/ DeleteResponse(b) \/ PageFails(b)

Next ==
  \/ \E b \in Browsers : BrowserStep(b)
  \/ \E m \in Meetings : CloseMeeting(m) \/ \E guest, public \in BOOLEAN : Edit(m, guest, public)
  \/ Tick

Spec == Init /\ [][Next]_vars

----------------------------------------------------------------------------
(* Properties *)

\* However often a person comes back, with new codes, on other browsers, at
\* once or after the session has ended, it has one response in a meeting.
AnsweredOnce == \A m \in Meetings, p \in Persons :
  Cardinality({i \in respondent[m][p] : response[m][i] > 0}) <= 1

\* Whoever is given a session: since its proof arrived the meeting took
\* answers without a login, and was public, at one moment at least.  (The
\* checks are not part of the transaction that gives the session, so that
\* the meeting may have been closed again by then.)
InvitedSinceProof ==
  [][\A c \in Codes : device[c] = None /\ device'[c] # None =>
       \E b \in Browsers : /\ handoff[b] # None /\ handoff[b].code = c
                           /\ since[b] = {"answers", "readers"}]_vars

=============================================================================
