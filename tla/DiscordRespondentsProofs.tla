---------------------- MODULE DiscordRespondentsProofs ----------------------
(***************************************************************************)
(* A person on Discord answers a meeting once, and is given a session only *)
(* where guests were invited: for any number of people, browsers, codes    *)
(* and meetings.                                                           *)
(***************************************************************************)
EXTENDS DiscordRespondents, FiniteSetTheorems, TLAPS

Everything == {"answers", "readers"}
HandoffSteps == {"audience", "consume", "row again", "audience again", "establish"}

TypeOK ==
  /\ meeting \in [Meetings -> [open: BOOLEAN, guest: BOOLEAN, public: BOOLEAN,
                               revision: Nat]]
  /\ spent \subseteq Codes
  /\ respondent \in [Meetings -> [Persons -> SUBSET Identities]]
  /\ device \in [Codes -> [owner: Identities, until: Nat] \cup {None}]
  /\ jar \in [Browsers -> [Meetings -> Codes \cup {None}]]
  /\ handoff \in [Browsers -> [step: HandoffSteps, meeting: Meetings, code: Codes]
                              \cup {None}]
  /\ page \in [Browsers -> [meeting: Meetings, revision: Nat,
                            responses: [Identities -> Nat],
                            actor: Identities \cup {None}] \cup {None}]
  /\ response \in [Meetings -> [Identities -> Nat]]
  /\ clock \in Nat
  /\ since \in [Browsers -> SUBSET Everything]

\* A person has one identity in a meeting, or none yet.
OneIdentity == \A m \in Meetings, p \in Persons :
  \A i, j \in respondent[m][p] : i = j

\* What the second check of a handoff has seen so far was so since the proof,
\* and so is what the meeting allows now.
SinceCovers == \A b \in Browsers : Proven(b) =>
  /\ Allows(MeetingOf(b)) \subseteq since[b]
  /\ At(b, "audience again") => "answers" \in since[b]
  /\ At(b, "establish") => since[b] = Everything

RespondentInvariant == TypeOK /\ OneIdentity /\ SinceCovers

----------------------------------------------------------------------------
LEMMA InitInvariant == Init => RespondentInvariant
<1> SUFFICES ASSUME Init PROVE RespondentInvariant
  OBVIOUS
<1>1. TypeOK
  BY DEF Init, TypeOK, Everything
<1>2. OneIdentity
  BY DEF Init, OneIdentity
<1>3. SinceCovers
  BY DEF Init, SinceCovers, Proven, At
<1>. QED
  BY <1>1, <1>2, <1>3 DEF RespondentInvariant

\* Steps that leave the meetings, the handoffs and their history alone.
LEMMA SinceStays ==
  ASSUME SinceCovers, UNCHANGED <<meeting, handoff, since>>
  PROVE  SinceCovers'
BY DEF SinceCovers, Proven, At, Allows, TakesGuests, MeetingOf

\* Steps of one browser's handoff that leave the meetings alone.
LEMMA OneHandoff ==
  ASSUME SinceCovers, NEW b \in Browsers,
         UNCHANGED meeting,
         \A o \in Browsers \ {b} : handoff'[o] = handoff[o] /\ since'[o] = since[o],
         Proven(b)' =>
           /\ Allows(MeetingOf(b))' \subseteq since'[b]
           /\ At(b, "audience again")' => "answers" \in since'[b]
           /\ At(b, "establish")' => since'[b] = Everything
  PROVE  SinceCovers'
<1> SUFFICES ASSUME NEW o \in Browsers, Proven(o)'
             PROVE  /\ Allows(MeetingOf(o))' \subseteq since'[o]
                    /\ At(o, "audience again")' => "answers" \in since'[o]
                    /\ At(o, "establish")' => since'[o] = Everything
  BY DEF SinceCovers
<1>1. CASE o = b
  BY <1>1
<1>2. CASE o # b
  BY <1>2 DEF SinceCovers, Proven, At, Allows, TakesGuests, MeetingOf
<1>. QED
  BY <1>1, <1>2

----------------------------------------------------------------------------
(* The handoff *)

LEMMA HandoffKeeps ==
  ASSUME RespondentInvariant, NEW b \in Browsers, NEW m \in Meetings, NEW c \in Codes,
         Handoff(b, m, c)
  PROVE  RespondentInvariant'
<1> USE DEF RespondentInvariant
<1>1. TypeOK'
  BY DEF TypeOK, Handoff, HandoffSteps
<1>2. OneIdentity'
  BY DEF OneIdentity, Handoff
<1>3. handoff'[b].step = "audience"
  BY DEF TypeOK, Handoff
<1>4. SinceCovers'
  BY <1>3, OneHandoff DEF TypeOK, Handoff, Proven, At
<1>. QED
  BY <1>1, <1>2, <1>4

LEMMA ReadsAudienceKeeps ==
  ASSUME RespondentInvariant, NEW b \in Browsers, ReadsAudience(b)
  PROVE  RespondentInvariant'
<1> USE DEF RespondentInvariant
<1>1. handoff[b] \in [step: HandoffSteps, meeting: Meetings, code: Codes]
  BY DEF TypeOK, ReadsAudience, At
<1>2. /\ UNCHANGED meeting
      /\ \A o \in Browsers \ {b} : handoff'[o] = handoff[o] /\ since'[o] = since[o]
      /\ since'[b] = since[b] /\ handoff'[b].meeting = handoff[b].meeting
  BY <1>1 DEF TypeOK, ReadsAudience, Steps
<1>3. \/ At(b, "audience") /\ handoff'[b].step = "consume"
      \/ At(b, "audience again") /\ handoff'[b].step = "establish"
  <2>1. CASE At(b, "audience") /\ Steps(b, "consume")
    BY <1>1, <2>1 DEF TypeOK, Steps
  <2>2. CASE At(b, "audience again") /\ Steps(b, "establish")
    BY <1>1, <2>2 DEF TypeOK, Steps
  <2>. QED
    BY <2>1, <2>2 DEF ReadsAudience
<1>4. TypeOK'
  <2>1. ASSUME NEW step \in HandoffSteps, Steps(b, step)
        PROVE  handoff' \in [Browsers -> [step: HandoffSteps, meeting: Meetings, code: Codes]
                                         \cup {None}]
    BY <1>1, <2>1 DEF TypeOK, Steps
  <2>2. \E step \in HandoffSteps : Steps(b, step)
    BY DEF ReadsAudience, HandoffSteps
  <2>. QED
    BY <2>1, <2>2 DEF TypeOK, ReadsAudience
<1>5. OneIdentity'
  BY DEF OneIdentity, ReadsAudience
<1>6. SinceCovers'
  <2>1. CASE At(b, "audience") /\ handoff'[b].step = "consume"
    BY <1>2, <2>1, OneHandoff DEF Proven, At
  <2>2. CASE At(b, "audience again") /\ handoff'[b].step = "establish"
    <3>1. Allows(MeetingOf(b)) \subseteq since[b] /\ "answers" \in since[b]
      BY <2>2 DEF SinceCovers, Proven
    <3>2. "readers" \in since[b]
      BY <3>1 DEF Allows, ReadsAudience
    <3>3. since[b] = Everything
      BY <3>1, <3>2 DEF TypeOK, Everything
    <3>4. Allows(MeetingOf(b))' \subseteq since'[b]
      BY <1>2, <3>1 DEF Allows, TakesGuests, MeetingOf
    <3>. QED
      BY <1>2, <2>2, <3>3, <3>4, OneHandoff DEF At
  <2>. QED
    BY <1>3, <2>1, <2>2
<1>. QED
  BY <1>4, <1>5, <1>6

LEMMA ConsumeKeeps ==
  ASSUME RespondentInvariant, NEW b \in Browsers, Consume(b)
  PROVE  RespondentInvariant'
<1> USE DEF RespondentInvariant
<1>1. handoff[b] \in [step: HandoffSteps, meeting: Meetings, code: Codes]
  BY DEF TypeOK, Consume, At
<1>2. /\ UNCHANGED meeting
      /\ \A o \in Browsers \ {b} : handoff'[o] = handoff[o] /\ since'[o] = since[o]
  BY DEF TypeOK, Consume, Steps, EndHandoff
<1>3. CASE ProofHolds(b) /\ Steps(b, "row again")
           /\ since' = [since EXCEPT ![b] = Allows(MeetingOf(b))]
  <2>1. TypeOK'
    BY <1>1, <1>3 DEF TypeOK, Consume, Steps, HandoffSteps, Allows, Everything
  <2>2. /\ since'[b] = Allows(MeetingOf(b))'
        /\ handoff'[b].step = "row again"
    BY <1>1, <1>2, <1>3 DEF TypeOK, Steps, Allows, TakesGuests, MeetingOf
  <2>3. SinceCovers'
    BY <1>2, <2>2, OneHandoff DEF At
  <2>. QED
    BY <2>1, <2>3 DEF OneIdentity, Consume
<1>4. CASE EndHandoff(b)
  <2>1. TypeOK'
    BY <1>1, <1>4 DEF TypeOK, Consume, EndHandoff
  <2>2. handoff'[b] = None
    BY <1>4 DEF TypeOK, EndHandoff
  <2>3. SinceCovers'
    BY <1>2, <2>2, OneHandoff DEF At, Proven
  <2>. QED
    BY <2>1, <2>3 DEF OneIdentity, Consume
<1>. QED
  BY <1>3, <1>4 DEF Consume

LEMMA RechecksKeeps ==
  ASSUME RespondentInvariant, NEW b \in Browsers, Rechecks(b)
  PROVE  RespondentInvariant'
<1> USE DEF RespondentInvariant
<1>1. handoff[b] \in [step: HandoffSteps, meeting: Meetings, code: Codes]
  BY DEF TypeOK, Rechecks, At
<1>2. /\ UNCHANGED meeting
      /\ \A o \in Browsers \ {b} : handoff'[o] = handoff[o] /\ since'[o] = since[o]
      /\ since'[b] = since[b] /\ handoff'[b].meeting = handoff[b].meeting
      /\ handoff'[b].step = "audience again"
  BY <1>1 DEF TypeOK, Rechecks, RowAgain, Steps
<1>3. TypeOK'
  BY <1>1 DEF TypeOK, Rechecks, RowAgain, Steps, HandoffSteps
<1>4. Allows(MeetingOf(b)) \subseteq since[b]
  BY DEF SinceCovers, Rechecks, Proven
<1>5. "answers" \in since[b]
  BY <1>4 DEF Allows, Rechecks, RowAgain
<1>6. Allows(MeetingOf(b))' \subseteq since'[b]
  BY <1>2, <1>4 DEF Allows, TakesGuests, MeetingOf
<1>7. SinceCovers'
  BY <1>2, <1>5, <1>6, OneHandoff DEF At
<1>. QED
  BY <1>3, <1>7 DEF OneIdentity, Rechecks

LEMMA HandoffFailsKeeps ==
  ASSUME RespondentInvariant, NEW b \in Browsers, HandoffFails(b)
  PROVE  RespondentInvariant'
<1> USE DEF RespondentInvariant
<1>1. TypeOK'
  BY DEF TypeOK, HandoffFails, EndHandoff
<1>2. /\ UNCHANGED meeting
      /\ \A o \in Browsers \ {b} : handoff'[o] = handoff[o] /\ since'[o] = since[o]
      /\ handoff'[b] = None
  BY DEF TypeOK, HandoffFails, EndHandoff
<1>3. SinceCovers'
  BY <1>2, OneHandoff DEF At, Proven
<1>. QED
  BY <1>1, <1>3 DEF OneIdentity, HandoffFails

\* The transaction finds the person's identity again, or makes its first.
LEMMA EstablishKeeps ==
  ASSUME RespondentInvariant, NEW b \in Browsers, Establish(b)
  PROVE  RespondentInvariant'
<1> USE DEF RespondentInvariant
<1> DEFINE m == handoff[b].meeting
           c == handoff[b].code
           p == CodeFor[c].person
<1>1. handoff[b] \in [step: HandoffSteps, meeting: Meetings, code: Codes]
  BY DEF TypeOK, Establish, At
<1>2. m \in Meetings /\ c \in Codes /\ p \in Persons
  BY <1>1, DiscordAssumption
<1>3. PICK i \in OwnerId(m, p) :
        /\ respondent' = [respondent EXCEPT ![m][p] = @ \cup {i}]
        /\ device' = [d \in Codes |->
             IF d = c THEN [owner |-> i, until |-> clock + Lifetime]
             ELSE IF device[d] # None /\ device[d].until <= clock THEN None
             ELSE device[d]]
  BY DEF Establish
<1>4. i \in Identities
  BY <1>2 DEF OwnerId, TypeOK
<1>5. /\ handoff' = [handoff EXCEPT ![b] = None]
      /\ since' = [since EXCEPT ![b] = {}]
      /\ jar' = [jar EXCEPT ![b][m] = c] \/ UNCHANGED jar
      /\ UNCHANGED <<meeting, spent, page, response, clock>>
  BY DEF Establish, EndHandoff
<1>6. TypeOK'
  <2>1. respondent' \in [Meetings -> [Persons -> SUBSET Identities]]
    BY <1>2, <1>3, <1>4 DEF TypeOK
  <2>2. device' \in [Codes -> [owner: Identities, until: Nat] \cup {None}]
    BY <1>3, <1>4, DiscordAssumption DEF TypeOK
  <2>3. jar' \in [Browsers -> [Meetings -> Codes \cup {None}]]
    <3>1. CASE jar' = [jar EXCEPT ![b][m] = c]
      <4> HIDE DEF m, c
      <4>1. [jar[b] EXCEPT ![m] = c] \in [Meetings -> Codes \cup {None}]
        BY <1>2 DEF TypeOK
      <4>. QED
        BY <3>1, <4>1 DEF TypeOK
    <3>2. CASE UNCHANGED jar
      BY <3>2 DEF TypeOK
    <3>. QED
      BY <1>5, <3>1, <3>2
  <2>4. /\ handoff' \in [Browsers -> [step: HandoffSteps, meeting: Meetings, code: Codes]
                                     \cup {None}]
        /\ since' \in [Browsers -> SUBSET Everything]
    BY <1>5 DEF TypeOK
  <2>. QED
    BY <1>5, <2>1, <2>2, <2>3, <2>4 DEF TypeOK
<1>7. OneIdentity'
  <2> SUFFICES ASSUME NEW n \in Meetings, NEW q \in Persons,
                      NEW j \in respondent'[n][q], NEW k \in respondent'[n][q]
               PROVE  j = k
    BY DEF OneIdentity
  <2>1. CASE n = m /\ q = p
    <3>1. respondent'[n][q] = respondent[m][p] \cup {i}
      BY <1>2, <1>3, <2>1 DEF TypeOK
    <3>2. respondent[m][p] # {} => i \in respondent[m][p]
      BY <1>3 DEF OwnerId
    <3>3. \A x, y \in respondent[m][p] : x = y
      BY <1>2 DEF OneIdentity
    <3>4. respondent[m][p] \cup {i} = {i}
      <4> HIDE DEF m, p
      <4>. QED
        BY <3>2, <3>3
    <3>. QED
      BY <3>1, <3>4
  <2>2. CASE ~(n = m /\ q = p)
    <3>1. respondent'[n][q] = respondent[n][q]
      BY <1>2, <1>3, <2>2 DEF TypeOK
    <3>. QED
      BY <3>1 DEF OneIdentity
  <2>. QED
    BY <2>1, <2>2
<1>8. SinceCovers'
  <2>1. /\ \A o \in Browsers \ {b} : handoff'[o] = handoff[o] /\ since'[o] = since[o]
        /\ handoff'[b] = None
    BY <1>5 DEF TypeOK
  <2>. QED
    BY <1>5, <2>1, OneHandoff DEF At, Proven
<1>. QED
  BY <1>6, <1>7, <1>8

----------------------------------------------------------------------------
(* Acting as a respondent *)

\* The steps of a page and of a cookie change neither who a person is nor
\* what a handoff has seen.
LEMMA PageKeeps ==
  ASSUME RespondentInvariant, TypeOK',
         UNCHANGED <<meeting, respondent, handoff, since>>
  PROVE  RespondentInvariant'
<1>1. OneIdentity'
  BY DEF RespondentInvariant, OneIdentity
<1>. QED
  BY <1>1, SinceStays DEF RespondentInvariant

LEMMA LogoutKeeps ==
  ASSUME RespondentInvariant, NEW b \in Browsers, NEW m \in Meetings, Logout(b, m)
  PROVE  RespondentInvariant'
<1>1. TypeOK'
  BY DEF RespondentInvariant, TypeOK, Logout
<1>. QED
  BY <1>1, PageKeeps DEF Logout

LEMMA ViewKeeps ==
  ASSUME RespondentInvariant, NEW b \in Browsers, NEW m \in Meetings, View(b, m)
  PROVE  RespondentInvariant'
<1>1. TypeOK'
  BY DEF RespondentInvariant, TypeOK, View
<1>. QED
  BY <1>1, PageKeeps DEF View

LEMMA BeginKeeps ==
  ASSUME RespondentInvariant, NEW b \in Browsers, Begin(b)
  PROVE  RespondentInvariant'
<1>1. PICK i \in Identities : page' = [page EXCEPT ![b].actor = i]
  BY DEF Begin, DeviceIdentity
<1>2. TypeOK'
  <2>1. page[b] \in [meeting: Meetings, revision: Nat, responses: [Identities -> Nat],
                     actor: Identities \cup {None}]
    BY DEF RespondentInvariant, TypeOK, Begin
  <2>2. [page[b] EXCEPT !.actor = i] \in
          [meeting: Meetings, revision: Nat, responses: [Identities -> Nat],
           actor: Identities \cup {None}]
    BY <2>1
  <2>. QED
    BY <1>1, <2>2 DEF RespondentInvariant, TypeOK, Begin
<1>. QED
  BY <1>2, PageKeeps DEF Begin

\* What AsOnPage, the look at the response, tells of the page.
LEMMA PageActs ==
  ASSUME TypeOK, NEW b \in Browsers, AsOnPage(b)
  PROVE  page[b].meeting \in Meetings /\ page[b].actor \in Identities
BY DEF TypeOK, AsOnPage

LEMMA SaveResponseKeeps ==
  ASSUME RespondentInvariant, NEW b \in Browsers, SaveResponse(b)
  PROVE  RespondentInvariant'
<1>1. page[b].meeting \in Meetings /\ page[b].actor \in Identities
  BY PageActs DEF RespondentInvariant, SaveResponse
<1>2. response' \in [Meetings -> [Identities -> Nat]]
  BY <1>1 DEF RespondentInvariant, TypeOK, SaveResponse
<1>3. TypeOK'
  BY <1>2 DEF RespondentInvariant, TypeOK, SaveResponse, EndPage
<1>. QED
  BY <1>3, PageKeeps DEF SaveResponse

LEMMA DeleteResponseKeeps ==
  ASSUME RespondentInvariant, NEW b \in Browsers, DeleteResponse(b)
  PROVE  RespondentInvariant'
<1>1. page[b].meeting \in Meetings /\ page[b].actor \in Identities
  BY PageActs DEF RespondentInvariant, DeleteResponse
<1>2. response' \in [Meetings -> [Identities -> Nat]]
  BY <1>1 DEF RespondentInvariant, TypeOK, DeleteResponse
<1>3. TypeOK'
  BY <1>2 DEF RespondentInvariant, TypeOK, DeleteResponse, EndPage
<1>. QED
  BY <1>3, PageKeeps DEF DeleteResponse

LEMMA PageFailsKeeps ==
  ASSUME RespondentInvariant, NEW b \in Browsers, PageFails(b)
  PROVE  RespondentInvariant'
<1>1. TypeOK'
  BY DEF RespondentInvariant, TypeOK, PageFails, EndPage
<1>. QED
  BY <1>1, PageKeeps DEF PageFails

----------------------------------------------------------------------------
(* The organizer and the clock *)

\* Whatever becomes of a meeting is remembered for the handoffs that wait.
LEMMA BecomesCovers ==
  ASSUME TypeOK, SinceCovers, NEW m \in Meetings,
         NEW row \in [open: BOOLEAN, guest: BOOLEAN, public: BOOLEAN, revision: Nat],
         Becomes(m, row)
  PROVE  /\ SinceCovers'
         /\ meeting' \in [Meetings -> [open: BOOLEAN, guest: BOOLEAN, public: BOOLEAN,
                                       revision: Nat]]
         /\ since' \in [Browsers -> SUBSET Everything]
<1>1. /\ meeting' = [meeting EXCEPT ![m] = row]
      /\ since' = [b \in Browsers |->
           IF Proven(b) /\ handoff[b].meeting = m
           THEN since[b] \cup Allows(row) ELSE since[b]]
      /\ UNCHANGED handoff
  BY DEF Becomes
<1>2. SinceCovers'
  <2> SUFFICES ASSUME NEW b \in Browsers, Proven(b)'
               PROVE  /\ Allows(MeetingOf(b))' \subseteq since'[b]
                      /\ At(b, "audience again")' => "answers" \in since'[b]
                      /\ At(b, "establish")' => since'[b] = Everything
    BY DEF SinceCovers
  <2>1. /\ Proven(b)
        /\ At(b, "audience again")' = At(b, "audience again")
        /\ At(b, "establish")' = At(b, "establish")
        /\ handoff[b].meeting \in Meetings
    BY <1>1 DEF TypeOK, Proven, At
  <2>2. /\ Allows(MeetingOf(b)) \subseteq since[b]
        /\ At(b, "audience again") => "answers" \in since[b]
        /\ At(b, "establish") => since[b] = Everything
    BY <2>1 DEF SinceCovers
  <2>3. Allows(row) \subseteq Everything
    BY DEF Allows, Everything
  <2>4. since[b] \subseteq since'[b] /\ since'[b] \subseteq since[b] \cup Allows(row)
    BY <1>1
  <2>5. Allows(MeetingOf(b))' \subseteq since'[b]
    <3>1. CASE handoff[b].meeting = m
      <4>1. MeetingOf(b)' = row
        BY <1>1, <3>1 DEF MeetingOf, TypeOK
      <4>2. Allows(MeetingOf(b))' = Allows(row)
        BY <4>1 DEF Allows, TakesGuests
      <4>. QED
        BY <1>1, <2>1, <3>1, <4>2
    <3>2. CASE handoff[b].meeting # m
      <4>1. MeetingOf(b)' = MeetingOf(b)
        BY <1>1, <2>1, <3>2 DEF MeetingOf, TypeOK
      <4>2. Allows(MeetingOf(b))' = Allows(MeetingOf(b))
        BY <4>1 DEF Allows, TakesGuests
      <4>. QED
        BY <2>2, <2>4, <4>2
    <3>. QED
      BY <3>1, <3>2
  <2>. QED
    BY <2>1, <2>2, <2>3, <2>4, <2>5
<1>3. Allows(row) \subseteq Everything
  BY DEF Allows, Everything
<1>. QED
  BY <1>1, <1>2, <1>3 DEF TypeOK

LEMMA EditKeeps ==
  ASSUME RespondentInvariant, NEW m \in Meetings, NEW guest \in BOOLEAN,
         NEW public \in BOOLEAN, Edit(m, guest, public)
  PROVE  RespondentInvariant'
<1> USE DEF RespondentInvariant
<1> DEFINE row == [open |-> TRUE, guest |-> guest, public |-> public,
                   revision |-> meeting[m].revision + 1]
<1>1. row \in [open: BOOLEAN, guest: BOOLEAN, public: BOOLEAN, revision: Nat]
  BY DEF TypeOK
<1>2. Becomes(m, row)
  BY DEF Edit
<1>3. /\ SinceCovers'
      /\ meeting' \in [Meetings -> [open: BOOLEAN, guest: BOOLEAN, public: BOOLEAN,
                                    revision: Nat]]
      /\ since' \in [Browsers -> SUBSET Everything]
  <2> HIDE DEF row
  <2>. QED
    BY <1>1, <1>2, BecomesCovers
<1>4. response' \in [Meetings -> [Identities -> Nat]]
  BY DEF TypeOK, Edit
<1>5. TypeOK'
  BY <1>2, <1>3, <1>4 DEF TypeOK, Becomes
<1>6. OneIdentity'
  BY <1>2 DEF OneIdentity, Becomes
<1>. QED
  BY <1>3, <1>5, <1>6

LEMMA CloseMeetingKeeps ==
  ASSUME RespondentInvariant, NEW m \in Meetings, CloseMeeting(m)
  PROVE  RespondentInvariant'
<1> USE DEF RespondentInvariant
<1> DEFINE row == [meeting[m] EXCEPT !.open = FALSE, !.revision = meeting[m].revision + 1]
<1>1. row \in [open: BOOLEAN, guest: BOOLEAN, public: BOOLEAN, revision: Nat]
  <2>1. meeting[m] \in [open: BOOLEAN, guest: BOOLEAN, public: BOOLEAN, revision: Nat]
    BY DEF TypeOK
  <2>2. meeting[m].revision + 1 \in Nat
    BY <2>1
  <2>. QED
    BY <2>1, <2>2
<1>2. Becomes(m, row)
  BY DEF CloseMeeting
<1>3. /\ SinceCovers'
      /\ meeting' \in [Meetings -> [open: BOOLEAN, guest: BOOLEAN, public: BOOLEAN,
                                    revision: Nat]]
      /\ since' \in [Browsers -> SUBSET Everything]
  <2> HIDE DEF row
  <2>. QED
    BY <1>1, <1>2, BecomesCovers
<1>4. TypeOK'
  BY <1>2, <1>3 DEF TypeOK, Becomes, CloseMeeting
<1>5. OneIdentity'
  BY <1>2 DEF OneIdentity, Becomes
<1>. QED
  BY <1>3, <1>4, <1>5

----------------------------------------------------------------------------
(* Theorems *)

LEMMA NextInvariant ==
  ASSUME RespondentInvariant, [Next]_vars
  PROVE  RespondentInvariant'
<1>1. CASE UNCHANGED vars
  <2>1. TypeOK'
    BY <1>1 DEF RespondentInvariant, TypeOK, vars
  <2>. QED
    BY <1>1, <2>1, PageKeeps DEF vars
<1>2. CASE Tick
  <2>1. TypeOK'
    BY <1>2 DEF RespondentInvariant, TypeOK, Tick
  <2>. QED
    BY <1>2, <2>1, PageKeeps DEF Tick
<1>3. ASSUME NEW b \in Browsers, BrowserStep(b)
      PROVE  RespondentInvariant'
  BY <1>3, HandoffKeeps, LogoutKeeps, ViewKeeps, ReadsAudienceKeeps, ConsumeKeeps,
     RechecksKeeps, EstablishKeeps, HandoffFailsKeeps, BeginKeeps, SaveResponseKeeps,
     DeleteResponseKeeps, PageFailsKeeps DEF BrowserStep
<1>4. ASSUME NEW m \in Meetings,
             CloseMeeting(m) \/ \E guest, public \in BOOLEAN : Edit(m, guest, public)
      PROVE  RespondentInvariant'
  BY <1>4, CloseMeetingKeeps, EditKeeps
<1>. QED
  BY <1>1, <1>2, <1>3, <1>4 DEF Next

\* People, handoffs and pages are typed, a person has one identity in a
\* meeting, and a handoff knows what the meeting allowed since its proof, in
\* whatever order handoffs, answers, edits and closings run.
THEOREM RespondentInductive == Spec => []RespondentInvariant
<1>1. RespondentInvariant /\ [Next]_vars => RespondentInvariant'
  BY NextInvariant
<1>. QED
  BY InitInvariant, <1>1, PTL DEF Spec

\* However often a person hands over a code, on whatever browser, it has one
\* response in a meeting: the transaction that establishes the respondent
\* finds the identity an earlier one made (discord-respondent.ts).
THEOREM RespondentAnsweredOnce == Spec => []AnsweredOnce
<1>1. RespondentInvariant => AnsweredOnce
  <2> SUFFICES ASSUME RespondentInvariant, NEW m \in Meetings, NEW p \in Persons
               PROVE  Cardinality({i \in respondent[m][p] : response[m][i] > 0}) <= 1
    BY DEF AnsweredOnce
  <2> DEFINE answered == {i \in respondent[m][p] : response[m][i] > 0}
  <2>1. \A i, j \in answered : i = j
    BY DEF RespondentInvariant, OneIdentity
  <2>2. CASE answered = {}
    BY <2>2, FS_EmptySet
  <2>3. CASE answered # {}
    <3>1. PICK i \in answered : TRUE
      BY <2>3
    <3>2. answered = {i}
      BY <2>1, <3>1
    <3>3. Cardinality(answered) = 1
      BY <3>2, FS_Singleton
    <3>. QED
      BY <3>3
  <2>. QED
    BY <2>2, <2>3
<1>. QED
  BY RespondentInductive, <1>1, PTL

\* A session is given only where, since its proof arrived, the meeting took
\* answers without a login and was public, at one moment each, although the
\* transaction that gives it looks at neither (discord-handoff.ts).
THEOREM RespondentInvitedSinceProof == Spec => InvitedSinceProof
<1> DEFINE Invited ==
      \A c \in Codes : device[c] = None /\ device'[c] # None =>
        \E b \in Browsers : /\ handoff[b] # None /\ handoff[b].code = c
                            /\ since[b] = {"answers", "readers"}
<1>1. RespondentInvariant /\ [Next]_vars => [Invited]_vars
  <2> SUFFICES ASSUME RespondentInvariant, Next, NEW c \in Codes,
                      device[c] = None, device'[c] # None
               PROVE  \E b \in Browsers : /\ handoff[b] # None /\ handoff[b].code = c
                                          /\ since[b] = {"answers", "readers"}
    OBVIOUS
  <2>1. PICK b \in Browsers : Establish(b)
    <3>1. ASSUME NEW b \in Browsers, NEW m \in Meetings, Logout(b, m)
          PROVE  FALSE
      BY <3>1 DEF Logout
    <3>2. CASE Tick \/ \E m \in Meetings : CloseMeeting(m)
                         \/ \E guest, public \in BOOLEAN : Edit(m, guest, public)
      BY <3>2 DEF Tick, CloseMeeting, Edit, Becomes
    <3>3. ASSUME NEW b \in Browsers, BrowserStep(b), ~Establish(b)
          PROVE  FALSE
      BY <3>1, <3>3 DEF BrowserStep, Handoff, View, ReadsAudience, Consume, Rechecks,
         HandoffFails, Begin, SaveResponse, DeleteResponse, PageFails
    <3>. QED
      BY <3>2, <3>3 DEF Next
  <2>2. handoff[b] # None /\ At(b, "establish")
    BY <2>1 DEF Establish, At
  <2>3. since[b] = {"answers", "readers"}
    BY <2>2 DEF RespondentInvariant, SinceCovers, Proven, Everything
  <2>4. handoff[b].code = c
    BY <2>1 DEF Establish
  <2>. QED
    BY <2>2, <2>3, <2>4
<1>. QED
  BY RespondentInductive, <1>1, PTL DEF InvitedSinceProof, Spec
============================================================================
