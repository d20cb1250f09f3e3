---------------------------- MODULE MeetingPoll ----------------------------
(***************************************************************************)
(* Meeting polls on top of the reservation ledger: the meeting routes      *)
(* (src/server/meetings/routes.ts), their transactions (repository.ts),    *)
(* the handoff of a finalized poll to GLAB (glab-handoff.ts) and the       *)
(* identities that own meetings and answers (identity.ts).                 *)
(*                                                                         *)
(* A browser looks at a meeting and later sends a request that names the   *)
(* revisions it saw.  The request reads its actor, then, for an edit, the  *)
(* facilities, the audience and the guest setting, each in a statement of  *)
(* its own, and commits in one transaction.  A request of a login session  *)
(* does all of this inside one transaction (scoped-middleware.ts); that is *)
(* the case in which nothing runs between its steps.                       *)
(***************************************************************************)
EXTENDS BookingLedger, FiniteSetsExt

CONSTANTS
  Browsers,     \* browsers; each has its own device cookie and one open page
  Identities,   \* rows meeting_identity may get, numbered in order of creation
  SlotIds,      \* candidate ids
  VenueNames,   \* names of venues
  Inputs,       \* the bodies the instance creates and edits meetings with
  OnDiscord,    \* users whose Discord identity Cernere can tell
  ResponseIds,  \* the randomUUIDs answers may get (bounds the answers)
  Texts,        \* name, comment, topic and yes/maybe/no of an answer
  MaxResponses, \* 500 in the code
  MaxRevision,  \* bounds the revisions of meetings
  MaxRewrites,  \* bounds the revisions of answers
  None,         \* null, an unused id, a page not open
  Gone          \* the id of a deleted answer

Ranges == [start: Instants, end: Instants]
Candidate == [start: Instants, end: Instants, venue: VenueNames \cup {None}]
Venue == [facility: Facilities \cup {None}, busy: SUBSET Ranges]
Slots == [SlotIds -> Candidate \cup {None}]
Venues == [VenueNames -> Venue \cup {None}]
Given(slots) == {s \in SlotIds : slots[s] # None}

\* meetingInput: at least one candidate, each with a proper range and at no
\* venue or at a registered one; busy periods are proper too.  The guest
\* setting and the parts of the audience may be left out.
IsMeetingInput(in) ==
  /\ in \in [slots: Slots, venues: Venues, guest: BOOLEAN \cup {Unset},
            audience: AudienceBody]
  /\ Given(in.slots) # {}
  /\ \A s \in Given(in.slots) :
       /\ in.slots[s].start < in.slots[s].end
       /\ in.slots[s].venue # None => in.venues[in.slots[s].venue] # None
  /\ \A v \in VenueNames : in.venues[v] # None =>
       \A b \in in.venues[v].busy : b.start < b.end

ASSUME PollAssumption ==
  /\ \A in \in Inputs : IsMeetingInput(in)
  /\ Unset \notin BOOLEAN
  /\ OnDiscord \subseteq Users
  /\ Identities \subseteq Nat
  /\ MaxRevision \in Nat /\ MaxRewrites \in Nat /\ MaxResponses \in Nat
  /\ None \notin Identities \cup SlotIds \cup VenueNames \cup Facilities
                 \cup Users \cup ReservationIds \cup ResponseIds
  /\ None \notin Inputs \cup Meetings /\ Gone # None

\* The rows of meeting_identity, meeting_poll and meeting_response, what is
\* handed over, and what a browser's page and request know.
IdentityRow == [user: Users \cup {None}, notify: BOOLEAN]
PollRow == [owner: Identities, state: {"open", "finalized", "cancelled"},
  selected: SlotIds \cup {None}, revision: Nat, slots: Slots,
  venues: Venues, guest: BOOLEAN, audience: Audience]
ResponseRow == [meeting: Meetings, owner: Identities, revision: Nat,
  text: Texts, answers: Slots]
Snapshot == [slot: SlotIds, content: Candidate,
  facility: Facilities \cup {None}, reservation: ReservationIds \cup {None}]
VisitState == [step: {"seen", "begun", "audience", "guest", "commit"},
  meeting: Meetings \cup {None}, revision: Nat, slots: Slots,
  answer: ResponseIds \cup {None}, row: ResponseRow \cup {None},
  ids: SUBSET Identities, current: Identities \cup {None},
  user: Users \cup {None}, groups: SUBSET Groups, fits: BOOLEAN,
  input: Inputs \cup {None}, todo: SUBSET Facilities, audience: Audience,
  guestSetting: BOOLEAN]

ASSUME NoneAssumption ==
  /\ None \notin IdentityRow \cup PollRow \cup Snapshot \cup VisitState
  /\ None \notin ResponseRow \cup Candidate \cup Venue /\ Gone \notin ResponseRow

VARIABLES
  identity,  \* meeting_identity: [user, notify] or None
  device,    \* the identity a browser's device cookie stands for, or None
  poll,      \* meeting_poll and its booking_audience row, or None
  response,  \* meeting_response by id: a row, None or Gone; `answers` keeps,
             \* for each answered candidate, the candidate the responder had
             \* on the page (a history value; the code stores yes, maybe, no)
  handoff,   \* meeting_glab_handoff: the snapshot, or None
  visit,     \* a browser's open page and the request it has sent, or None
  enqueued   \* recipients of the meeting_outbox rows the last step inserted

identityVars == <<identity, device>>
pollVars == <<identity, device, poll, response, handoff, visit, enqueued>>
allVars == <<vars, pollVars>>

----------------------------------------------------------------------------
(* Rows *)

Live == {r \in ResponseIds : response[r] \notin {None, Gone}}
ResponsesOf(m) == {r \in Live : response[r].meeting = m}
OwnersOf(m) == {response[r].owner : r \in ResponsesOf(m)}

\* venues.find(v => v.name === slot.venue), then its facility.
FacilityAt(p, s) ==
  IF p.slots[s].venue = None THEN None ELSE p.venues[p.slots[s].venue].facility

VenueBusy(p, s) ==
  /\ p.slots[s].venue # None
  /\ \E b \in p.venues[p.slots[s].venue].busy :
       Overlaps(b.start, b.end, p.slots[s].start, p.slots[s].end)

----------------------------------------------------------------------------
(* Actors *)

Registered(user) ==
  {i \in Identities : identity[i] # None /\ user # None
                                         /\ identity[i].user = user}

\* The identities a request acts with: all of its user, and the browser's
\* device while no account is linked to it.
ActorIds(b, user) ==
  Registered(user) \cup
  {i \in Identities : device[b] = i /\ identity[i].user = None}

\* identities[0]: the user's oldest identity, else the device.
CurrentOf(b, user) ==
  IF Registered(user) # {} THEN Min(Registered(user))
  ELSE IF ActorIds(b, user) # {} THEN device[b] ELSE None

Unused(i) == identity[i] = None /\ \A j \in Identities :
                                     identity[j] # None => j < i

\* ensureActor for a logged-in actor: i is the current identity, or a new one.
EnsureActor(user, current, i) ==
  \/ current # None /\ i = current /\ UNCHANGED identityVars
  \/ /\ current = None
     /\ Unused(i)
     /\ identity' = [identity EXCEPT ![i] = [user |-> user, notify |-> FALSE]]
     /\ UNCHANGED device

\* POST /session: an actor without an identity gets one; without a login the
\* browser also gets a device cookie for it.
Session(b, user, i) ==
  /\ CurrentOf(b, user) = None
  /\ Unused(i)
  /\ identity' = [identity EXCEPT ![i] = [user |-> user, notify |-> FALSE]]
  /\ device' = IF user = None THEN [device EXCEPT ![b] = i] ELSE device
  /\ enqueued' = {}
  /\ UNCHANGED <<vars, poll, response, handoff, visit>>

\* POST /session/link: the device becomes an identity of the account and its
\* cookie stops to work.
Link(b, user) ==
  /\ device[b] # None
  /\ identity' = [identity EXCEPT ![device[b]].user = user]
  /\ device' = [device EXCEPT ![b] = None]
  /\ enqueued' = {}
  /\ UNCHANGED <<vars, poll, response, handoff, visit>>

\* POST /session/notifications: every identity the user has now; turning
\* them on needs the user's Discord identity.
Notifications(user, enabled) ==
  /\ enabled => user \in OnDiscord
  /\ identity' = [i \in Identities |->
       IF i \in Registered(user) THEN [identity[i] EXCEPT !.notify = enabled]
                                 ELSE identity[i]]
  /\ enqueued' = {}
  /\ UNCHANGED <<vars, device, poll, response, handoff, visit>>

\* One recipient of each linked and willing user, never the actor.
Willing(owners, ids) ==
  {i \in owners \ ids : identity[i].user # None /\ identity[i].notify}

OnePerUser(S) ==
  {T \in SUBSET S : \A i \in S : \E j \in T :
     /\ identity[j].user = identity[i].user
     /\ \A k \in T : identity[k].user = identity[i].user => k = j}

\* enqueue
Enqueue(owners, ids) == enqueued' \in OnePerUser(Willing(owners, ids))

----------------------------------------------------------------------------
(* Pages and requests *)

\* An open page and nothing sent yet.
Page(m, revision, slots, r, row) ==
  [step |-> "seen", meeting |-> m, revision |-> revision, slots |-> slots,
   answer |-> r, row |-> row,
   ids |-> {}, current |-> None, user |-> None, groups |-> {},
   fits |-> FALSE, input |-> None, todo |-> {},
   audience |-> PublicAudience, guestSetting |-> FALSE]

OnPage(b, step) == visit[b] # None /\ visit[b].step = step
EndVisit(b) == visit' = [visit EXCEPT ![b] = None]

\* The meeting as it is now, for the request of browser b.
Now(b) == poll[visit[b].meeting]
Owns(b) == Now(b).owner \in visit[b].ids

Readable(m, b, user, groups) ==
  CanReadBooking(poll[m].audience, groups, user # None,
                 poll[m].owner \in ActorIds(b, user))

\* GET /:id.  The page also remembers one answer the browser may change.
View(b, m, user, groups, r) ==
  /\ visit[b] = None
  /\ poll[m] # None
  /\ Readable(m, b, user, groups)
  /\ r \in ResponsesOf(m) \cup {None}
  /\ visit' = [visit EXCEPT ![b] =
       Page(m, poll[m].revision, poll[m].slots, r,
            IF r = None THEN None ELSE response[r])]
  /\ enqueued' = {}
  /\ UNCHANGED <<vars, identity, device, poll, response, handoff>>

\* The keys of an answer are those of the page; responseInput compares them
\* with the candidates read when the request arrives.
AnswersFit(b) == Given(visit[b].slots) = Given(Now(b).slots)

\* Every request of a meeting first runs requireReadable and reads its actor,
\* one with an answer also the candidates.
Begin(b, user, groups) ==
  /\ OnPage(b, "seen")
  /\ Readable(visit[b].meeting, b, user, groups)
  /\ visit' = [visit EXCEPT ![b] = [@ EXCEPT
       !.step = "begun", !.user = user, !.groups = groups,
       !.ids = ActorIds(b, user), !.current = CurrentOf(b, user),
       !.fits = AnswersFit(b)]]
  /\ enqueued' = {}
  /\ UNCHANGED <<vars, identity, device, poll, response, handoff>>

\* A refusal (400, 401, 403, 404, 409, 503) or a lost connection.
VisitFails(b) ==
  /\ visit[b] # None
  /\ EndVisit(b)
  /\ enqueued' = {}
  /\ UNCHANGED <<vars, identity, device, poll, response, handoff>>

\* The facilities validateFacilities asks for and upserts.
FacilitiesOf(in) ==
  {in.venues[v].facility : v \in {w \in VenueNames : in.venues[w] # None}}
    \ {None}

\* validateFacilities for one of the venues: an upsert per statement.
ValidateFacility(b, f, declared) ==
  /\ OnPage(b, "audience") \/ OnPage(b, "commit")
  /\ f \in visit[b].todo
  /\ SyncFacility(f, declared)
  /\ visit' = [visit EXCEPT ![b].todo = @ \ {f}]
  /\ enqueued' = {}
  /\ UNCHANGED <<identity, device, poll, response, handoff>>

\* resolveGuestResponses refuses login-free answers on a meeting that is not
\* public.
GuestAllowed(guest, audience) == guest = TRUE => audience.visibility = "public"

\* An omitted setting is the current one while the meeting is public.
ResolveGuest(guest, audience, current) ==
  /\ audience.visibility = "public"
  /\ IF guest = Unset THEN current ELSE guest

----------------------------------------------------------------------------
(* The organizer's requests *)

\* POST /: body and facilities first.  (The instance has an id left.)
CreateBegin(b, input) ==
  /\ visit[b] = None
  /\ \E m \in Meetings : poll[m] = None
  /\ visit' = [visit EXCEPT ![b] =
       [Page(None, 0, input.slots, None, None) EXCEPT
          !.step = "commit", !.input = input, !.todo = FacilitiesOf(input)]]
  /\ enqueued' = {}
  /\ UNCHANGED <<vars, identity, device, poll, response, handoff>>

\* POST /: the actor, which must be logged in, the audience, the insertion.
Create(b, m, user, groups, i) ==
  LET v == visit[b]
      audience == RequestedAudience(v.input.audience, PublicAudience)
  IN /\ OnPage(b, "commit")
     /\ v.meeting = None
     /\ v.todo = {}
     /\ user # None
     /\ EnsureActor(user, CurrentOf(b, user), i)
     /\ MayUseAudience(audience, groups, TRUE)
     /\ GuestAllowed(v.input.guest, audience)
     /\ poll[m] = None
     /\ poll' = [poll EXCEPT ![m] =
          [owner |-> i, state |-> "open", selected |-> None, revision |-> 1,
           slots |-> v.input.slots, venues |-> v.input.venues,
           guest |-> ResolveGuest(v.input.guest, audience, FALSE),
           audience |-> audience]]
     /\ EndVisit(b)
     /\ enqueued' = {}
     /\ UNCHANGED <<vars, response, handoff>>

\* PATCH /:id: the body, after its actor was read.  (A page that remembers an
\* answer is there for that answer; an edit starts from one that does not.)
EditBegin(b, input) ==
  /\ OnPage(b, "begun")
  /\ visit[b].answer = None
  /\ visit' = [visit EXCEPT ![b] = [@ EXCEPT
       !.step = "audience", !.input = input, !.todo = FacilitiesOf(input)]]
  /\ enqueued' = {}
  /\ UNCHANGED <<vars, identity, device, poll, response, handoff>>

\* PATCH /:id: the current audience is read and the asked one checked.
EditAudience(b) ==
  LET audience == RequestedAudience(visit[b].input.audience, Now(b).audience)
  IN /\ OnPage(b, "audience")
     /\ visit[b].todo = {}
     /\ MayUseAudience(audience, visit[b].groups, visit[b].user # None)
     /\ visit' = [visit EXCEPT ![b] = [@ EXCEPT
          !.step = "guest", !.audience = audience]]
     /\ enqueued' = {}
     /\ UNCHANGED <<vars, identity, device, poll, response, handoff>>

\* PATCH /:id: the current guest setting is read and the new one resolved.
EditGuest(b) ==
  /\ OnPage(b, "guest")
  /\ GuestAllowed(visit[b].input.guest, visit[b].audience)
  /\ visit' = [visit EXCEPT ![b] = [@ EXCEPT
       !.step = "commit",
       !.guestSetting = ResolveGuest(visit[b].input.guest, visit[b].audience,
                                     Now(b).guest)]]
  /\ enqueued' = {}
  /\ UNCHANGED <<vars, identity, device, poll, response, handoff>>
\* Mutant: a candidate is told by its id alone.
KeptById(old, new, answers) ==
  [s \in SlotIds |-> IF new[s] # None THEN answers[s] ELSE None]

\* The answers update keeps: those to candidates with the same times and the
\* same venue name as before.
Kept(old, new, answers) ==
  [s \in SlotIds |-> IF new[s] # None /\ new[s] = old[s] THEN answers[s]
                                                      ELSE None]

\* Mutant: an edit does not look at the revision.
EditAllowedAnyRevision(b) ==
  /\ handoff[visit[b].meeting] = None
  /\ Owns(b)
  /\ Now(b).state # "cancelled"

\* Mutant: an edit does not look for a handoff.
EditAllowedHandedOff(b) ==
  /\ Owns(b)
  /\ visit[b].revision = Now(b).revision
  /\ Now(b).state # "cancelled"

\* What update, finalize and cancel check first: no handoff, the owner, the
\* revision on the page, the state.
EditAllowed(b) ==
  /\ handoff[visit[b].meeting] = None
  /\ Owns(b)
  /\ visit[b].revision = Now(b).revision
  /\ Now(b).state # "cancelled"

\* The guest_responses the transaction of PATCH /:id stores.
StoredGuest(b) == visit[b].guestSetting

\* PATCH /:id: the transaction.  Answers to changed candidates are dropped
\* and every answer gets a new revision; the facility is released and the
\* poll reopened.
Edit(b) ==
  LET v == visit[b]
      m == v.meeting
  IN /\ OnPage(b, "commit")
     /\ m # None
     /\ EditAllowed(b)
     /\ Now(b).revision < MaxRevision
     /\ \A r \in ResponsesOf(m) : response[r].revision < MaxRewrites
     /\ response' = [r \in ResponseIds |->
          IF r \in ResponsesOf(m)
          THEN [response[r] EXCEPT
                  !.answers = Kept(Now(b).slots, v.input.slots, @),
                  !.revision = @ + 1]
          ELSE response[r]]
     /\ ReleaseMeetingFacility(m)
     /\ poll' = [poll EXCEPT
          ![m].slots = v.input.slots, ![m].venues = v.input.venues,
          ![m].guest = StoredGuest(b), ![m].audience = v.audience,
          ![m].state = "open", ![m].selected = None, ![m].revision = @ + 1]
     /\ Enqueue(OwnersOf(m), v.ids)
     /\ EndVisit(b)
     /\ UNCHANGED <<identity, device, handoff>>

\* Mutant: a slot at a facility needs no login.
ReserveVenueAnyone(b, s, id) ==
  LET m == visit[b].meeting
      f == FacilityAt(Now(b), s)
  IN IF f = None
     THEN ReleaseMeetingFacility(m)
     ELSE ReserveMeetingFacility(m, visit[b].user, f,
            Minute(Now(b).slots[s].start), Minute(Now(b).slots[s].end),
            Now(b).audience, id)

\* reserveMeetingFacility: without a facility the previous one is released;
\* with one the organizer must be logged in.
ReserveVenue(b, s, id) ==
  LET m == visit[b].meeting
      f == FacilityAt(Now(b), s)
  IN IF f = None
     THEN ReleaseMeetingFacility(m)
     ELSE /\ visit[b].user # None
          /\ ReserveMeetingFacility(m, visit[b].user, f,
               Minute(Now(b).slots[s].start), Minute(Now(b).slots[s].end),
               Now(b).audience, id)

\* MeetingRepository.finalize, without the handoff row.
FinalizeSlot(b, s, id) ==
  /\ EditAllowed(b)
  /\ Now(b).revision < MaxRevision
  /\ Now(b).slots[s] # None
  /\ ~VenueBusy(Now(b), s)
  /\ ReserveVenue(b, s, id)
  /\ LET m == visit[b].meeting IN poll' = [poll EXCEPT
       ![m].state = "finalized", ![m].selected = s, ![m].revision = @ + 1]
  /\ Enqueue(OwnersOf(visit[b].meeting), visit[b].ids)

\* POST /:id/finalize
Finalize(b, s, id) ==
  /\ OnPage(b, "begun")
  /\ FinalizeSlot(b, s, id)
  /\ EndVisit(b)
  /\ UNCHANGED <<identity, device, response, handoff>>

\* MeetingRepository.cancel after its checks.
CancelPoll(b) ==
  /\ Now(b).revision < MaxRevision
  /\ ReleaseMeetingFacility(visit[b].meeting)
  /\ LET m == visit[b].meeting IN poll' = [poll EXCEPT
       ![m].state = "cancelled", ![m].selected = None, ![m].revision = @ + 1]
  /\ Enqueue(OwnersOf(visit[b].meeting), visit[b].ids)
  /\ EndVisit(b)
  /\ UNCHANGED <<identity, device, response, handoff>>

\* DELETE /:id
Cancel(b) ==
  /\ OnPage(b, "begun")
  /\ EditAllowed(b)
  /\ CancelPoll(b)

\* The snapshot of the selected slot; linkedReservation names the meeting's
\* reservation, and a facility without one is refused.
SnapshotOf(p, s, reservationId) ==
  LET f == FacilityAt(p, s)
  IN [slot |-> s, content |-> p.slots[s], facility |-> f,
      reservation |-> IF f = None THEN None ELSE reservationId]

\* POST /:id/glab-event/finalize of a meeting not handed over yet: public
\* only, finalized first unless this slot already is.  A meeting handed over
\* before answers with its snapshot and changes nothing.
GlabFinalize(b, s, id) ==
  LET m == visit[b].meeting
  IN /\ OnPage(b, "begun")
     /\ Owns(b)
     /\ visit[b].user # None
     /\ Now(b).state # "cancelled"
     /\ handoff[m] = None
     /\ Now(b).audience.visibility = "public"
     /\ visit[b].revision = Now(b).revision
     /\ Now(b).slots[s] # None
     /\ IF Now(b).state = "finalized" /\ Now(b).selected = s
        THEN /\ UNCHANGED <<vars, poll>>
             /\ enqueued' = {}
        ELSE FinalizeSlot(b, s, id)
     /\ FacilityAt(Now(b), s) # None => link'[m] # NoId
     /\ handoff' = [handoff EXCEPT ![m] = SnapshotOf(Now(b), s, link'[m])]
     /\ EndVisit(b)
     /\ UNCHANGED <<identity, device, response>>

\* POST /:id/glab-event/cancel: the current revision, whatever the page saw.
GlabCancel(b) ==
  /\ OnPage(b, "begun")
  /\ Owns(b)
  /\ handoff[visit[b].meeting] # None
  /\ Now(b).state # "cancelled"
  /\ CancelPoll(b)

----------------------------------------------------------------------------
(* The responders' requests *)

\* Mutant: the meeting's revision is not compared.
AnswerAllowedAnyRevision(b) ==
  /\ Now(b).state = "open"
  /\ Now(b).guest \/ visit[b].user # None

\* What saveResponse checks of the meeting.
AnswerAllowed(b) ==
  /\ visit[b].revision = Now(b).revision
  /\ Now(b).state = "open"
  /\ Now(b).guest \/ visit[b].user # None

\* POST /:id/responses: a logged-in actor without an identity gets one.
Answer(b, r, text, i) ==
  LET v == visit[b]
      ids == v.ids \cup {i}
  IN /\ OnPage(b, "begun")
     /\ v.fits
     /\ v.answer = None
     /\ IF v.user # None THEN EnsureActor(v.user, v.current, i)
        ELSE i = v.current /\ i # None /\ UNCHANGED identityVars
     /\ AnswerAllowed(b)
     /\ OwnersOf(v.meeting) \cap ids = {}
     /\ Cardinality(ResponsesOf(v.meeting)) < MaxResponses
     /\ response[r] = None
     /\ response' = [response EXCEPT ![r] =
          [meeting |-> v.meeting, owner |-> i, revision |-> 1,
           text |-> text, answers |-> v.slots]]
     /\ Enqueue({Now(b).owner}, ids)
     /\ EndVisit(b)
     /\ UNCHANGED <<vars, poll, handoff>>

\* The answer the page remembers, as it is now.
Mine(b) == response[visit[b].answer]

\* requireOwner and requireRevision of an answer.
MineAllowed(b) ==
  /\ visit[b].answer \in Live
  /\ Mine(b).owner \in visit[b].ids
  /\ Mine(b).revision = visit[b].row.revision

\* Mutant: changing an answer does not advance its revision.
RewrittenSameRevision(row, text, answers) ==
  [row EXCEPT !.text = text, !.answers = answers]

Rewritten(row, text, answers) ==
  [row EXCEPT !.text = text, !.answers = answers, !.revision = @ + 1]

\* PATCH /:id/responses/:responseId
Reanswer(b, text) ==
  LET v == visit[b]
  IN /\ OnPage(b, "begun")
     /\ v.fits
     /\ v.answer # None
     /\ AnswerAllowed(b)
     /\ v.current # None
     /\ MineAllowed(b)
     /\ Mine(b).revision < MaxRewrites
     /\ response' = [response EXCEPT ![v.answer] = Rewritten(Mine(b), text, v.slots)]
     /\ Enqueue({Now(b).owner}, v.ids)
     /\ EndVisit(b)
     /\ UNCHANGED <<vars, identity, device, poll, handoff>>

\* DELETE /:id/responses/:responseId, in any state of the meeting.
DeleteResponse(b) ==
  LET v == visit[b]
  IN /\ OnPage(b, "begun")
     /\ v.answer # None
     /\ MineAllowed(b)
     /\ response' = [response EXCEPT ![v.answer] = Gone]
     /\ Enqueue({Now(b).owner}, v.ids)
     /\ EndVisit(b)
     /\ UNCHANGED <<vars, identity, device, poll, handoff>>
----------------------------------------------------------------------------
PollInit ==
  /\ Init
  /\ identity = [i \in Identities |-> None]
  /\ device = [b \in Browsers |-> None]
  /\ poll = [m \in Meetings |-> None]
  /\ response = [r \in ResponseIds |-> None]
  /\ handoff = [m \in Meetings |-> None]
  /\ visit = [b \in Browsers |-> None]
  /\ enqueued = {}

Logins == Users \cup {None}

IdentityStep ==
  \/ \E b \in Browsers, u \in Logins, i \in Identities : Session(b, u, i)
  \/ \E b \in Browsers, u \in Users : Link(b, u)
  \/ \E u \in Users, on \in BOOLEAN : Notifications(u, on)

PageStep ==
  \/ \E b \in Browsers, m \in Meetings, u \in Logins, g \in SUBSET Groups,
        r \in ResponseIds \cup {None} : View(b, m, u, g, r)
  \/ \E b \in Browsers, u \in Logins, g \in SUBSET Groups : Begin(b, u, g)
  \/ \E b \in Browsers : VisitFails(b)
  \/ \E b \in Browsers, f \in Facilities, d \in Declared :
       ValidateFacility(b, f, d)

OrganizerStep ==
  \/ \E b \in Browsers, in \in Inputs : CreateBegin(b, in) \/ EditBegin(b, in)
  \/ \E b \in Browsers, m \in Meetings, u \in Users, g \in SUBSET Groups,
        i \in Identities : Create(b, m, u, g, i)
  \/ \E b \in Browsers : EditAudience(b) \/ EditGuest(b) \/ Edit(b)
  \/ \E b \in Browsers, s \in SlotIds, id \in ReservationIds :
       Finalize(b, s, id) \/ GlabFinalize(b, s, id)
  \/ \E b \in Browsers : Cancel(b) \/ GlabCancel(b)

ResponderStep ==
  \/ \E b \in Browsers : DeleteResponse(b)
  \/ \E b \in Browsers, r \in ResponseIds, text \in Texts,
        i \in Identities : Answer(b, r, text, i)
  \/ \E b \in Browsers, text \in Texts : Reanswer(b, text)

\* The reservation and facility routes run beside the meetings.
ReservationStep ==
  /\ FacilityStep \/ BeginStep \/ AwaitStep \/ CommitStep
  /\ enqueued' = {}
  /\ UNCHANGED <<identity, device, poll, response, handoff, visit>>

PollNext == \/ IdentityStep \/ PageStep \/ OrganizerStep \/ ResponderStep
            \/ ReservationStep

PollSpec == PollInit /\ [][PollNext]_allVars

----------------------------------------------------------------------------
(* Properties *)

PollTypeOK ==
  /\ identity \in [Identities -> IdentityRow \cup {None}]
  /\ device \in [Browsers -> Identities \cup {None}]
  /\ poll \in [Meetings -> PollRow \cup {None}]
  /\ response \in [ResponseIds -> ResponseRow \cup {None, Gone}]
  /\ handoff \in [Meetings -> Snapshot \cup {None}]
  /\ visit \in [Browsers -> VisitState \cup {None}]
  /\ enqueued \subseteq Identities

Answers(b) == \E r \in ResponseIds, text \in Texts, i \in Identities :
                Answer(b, r, text, i)
Reanswers(b) == \E text \in Texts : Reanswer(b, text)

NothingReserved(m) ==
  \A r \in ReservationIds :
    Active(reservation, r) => reservation[r].meeting # m

\* The meeting's reservation is for the facility, time and audience of the
\* candidate, and it is the one the link names.
HoldsSlot(m, s) ==
  LET p == poll[m]
      f == FacilityAt(p, s)
  IN IF f = None THEN NothingReserved(m)
     ELSE /\ link[m] # NoId
          /\ Active(reservation, link[m])
          /\ LET row == reservation[link[m]] IN
             /\ row.facility = f
             /\ row.start = Minute(p.slots[s].start)
             /\ row.end = Minute(p.slots[s].end)
             /\ row.audience = p.audience

\* A finalized meeting holds the facility of its selected candidate, at the
\* candidate's time and with the meeting's audience, and a meeting that was
\* reopened or cancelled holds nothing, whatever edits, second finalizations
\* and requests to the reservation routes ran in between.
FinalizedHoldsSlot ==
  \A m \in Meetings : poll[m] # None =>
    IF poll[m].state = "finalized"
    THEN /\ poll[m].selected \in Given(poll[m].slots)
         /\ ~VenueBusy(poll[m], poll[m].selected)
         /\ HoldsSlot(m, poll[m].selected)
    ELSE poll[m].selected = None /\ NothingReserved(m)

\* What was handed to GLAB stays as the snapshot says until GLAB cancels it:
\* the same candidate is selected and the same reservation is held.
HandoffFrozen ==
  \A m \in Meetings : handoff[m] # None =>
    \/ /\ poll[m].state = "finalized"
       /\ poll[m].selected = handoff[m].slot
       /\ poll[m].slots[handoff[m].slot] = handoff[m].content
       /\ handoff[m].facility # None =>
            /\ link[m] = handoff[m].reservation
            /\ Active(reservation, handoff[m].reservation)
            /\ reservation[link[m]].facility = handoff[m].facility
    \/ poll[m].state = "cancelled" /\ NothingReserved(m)

\* An answer counts only for the candidate its author saw: an answer to a
\* candidate that was moved or removed does not survive, also when it was
\* submitted before the edit and arrives after it.
AnswersMatchSlots ==
  \A r \in Live : \A s \in Given(response[r].answers) :
    poll[response[r].meeting].slots[s] = response[r].answers[s]

\* Changing or deleting an answer replaces what the page showed and nothing
\* newer, however many pages of its owner are open and whatever the
\* organizer's edits dropped meanwhile.
NoLostAnswer ==
  [][\A b \in Browsers :
       (Reanswers(b) \/ DeleteResponse(b))
         => response[visit[b].answer] = visit[b].row]_allVars

\* An edit that leaves out the visibility, the group or the guest setting
\* keeps the values the meeting has when the edit commits, although they are
\* read in two statements before the transaction.
SettingsSurviveEdit ==
  [][\A b \in Browsers : Edit(b) =>
       LET old == Now(b)
           new == poll'[visit[b].meeting]
       IN /\ visit[b].input.audience.visibility = Unset
               => new.audience.visibility = old.audience.visibility
          /\ visit[b].input.audience.group = Unset
               => new.audience.group = old.audience.group
          /\ visit[b].input.guest = Unset /\ new.audience.visibility = "public"
               => new.guest = old.guest]_allVars

\* A new or changed answer comes from someone who may read the meeting and
\* answer it when the answer is stored, not only when the page was opened.
AnswersFromReaders ==
  [][\A b \in Browsers : Answers(b) \/ Reanswers(b) =>
       /\ Now(b).state = "open"
       /\ Now(b).guest \/ visit[b].user # None
       /\ CanReadBooking(Now(b).audience, visit[b].groups,
                         visit[b].user # None, Owns(b))]_allVars

\* The meetings use the ledger as its own module allows: every step of this
\* module is a step of BookingLedger or leaves its state alone, so what is
\* proved of the ledger holds here.
ImplementsLedger == Spec

----------------------------------------------------------------------------
(* What the documents say *)

OptedIn(user) == \E i \in Registered(user) : identity[i].notify

\* meeting-polls.md promises notifications of a meeting's change to "linked
\* participants who opted in".  Linking a device leaves the notify column of
\* its identity at 0, so an opted-in user is not told of meetings answered
\* from the device.
OptedInParticipantsAreTold ==
  [][\A b \in Browsers : Edit(b) =>
       \A i \in OwnersOf(visit[b].meeting) \ visit[b].ids :
         OptedIn(identity[i].user)
           => \E e \in enqueued' : identity[e].user = identity[i].user]_allVars
============================================================================
