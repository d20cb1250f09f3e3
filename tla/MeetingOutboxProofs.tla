------------------------ MODULE MeetingOutboxProofs ------------------------
(***************************************************************************)
(* No notification is repeated without need, and none reaches a recipient  *)
(* who did not want it or was not allowed to: for any number of            *)
(* notifications, users and overlapping calls of tick.                     *)
(***************************************************************************)
EXTENDS MeetingOutbox, FiniteSetTheorems, TLAPS

TypeOK ==
  /\ status \in [Jobs -> Statuses] /\ attempts \in [Jobs -> Nat]
  /\ due \in [Jobs -> BOOLEAN] /\ notify \in [Users -> BOOLEAN]
  /\ tick \in [Ticks -> TickState \cup {None}]
  /\ delivered \in [Jobs -> Nat] /\ unknown \in [Jobs -> Nat]
  /\ willed \subseteq Jobs /\ shown \subseteq Jobs

\* A call that has a job in hand, and one that has its message delivered.
Works(t) == tick[t] # None /\ tick[t].stage # "next"
Recording(t, j) == At(t, "record") /\ tick[t].job = j

\* The job in hand is leased, and to this call alone.
JobsInHand == \A t \in Ticks : tick[t] # None =>
  IF tick[t].stage = "next" THEN tick[t].job = None
  ELSE /\ tick[t].job \in Jobs
       /\ status[tick[t].job] = "pending" /\ due[tick[t].job] = FALSE
       /\ \A o \in Ticks : Works(o) /\ tick[o].job = tick[t].job => o = t

\* Each delivery is recorded, about to be recorded, or counted as unknown.
Accounted == \A j \in Jobs :
  /\ delivered[j] <= 1 + unknown[j]
  /\ delivered[j] <= unknown[j] \/ status[j] = "sent" \/ \E t \in Ticks : Recording(t, j)

\* The histories cover what holds now, and what was read on the way.
Permitted == \A t \in Ticks : Works(t) =>
  LET j == tick[t].job IN
  /\ notify[Recipient[j]] \/ tick[t].stage \in {"audience", "identity", "send"} => j \in willed
  /\ MaySee(Recipient[j]) \/ tick[t].stage \in {"identity", "send"} => j \in shown

OutboxInvariant == TypeOK /\ JobsInHand /\ Accounted /\ Permitted

----------------------------------------------------------------------------
(* Calls of tick *)

\* One call changes, and the others are what they were.
LEMMA OneCall ==
  ASSUME TypeOK, NEW t \in Ticks, NEW x \in TickState \cup {None},
         tick' = [tick EXCEPT ![t] = x]
  PROVE  /\ tick' \in [Ticks -> TickState \cup {None}]
         /\ tick'[t] = x
         /\ \A o \in Ticks : o # t => tick'[o] = tick[o]
         /\ \A o \in Ticks : o # t => (Works(o)' <=> Works(o))
         /\ \A o \in Ticks : o # t => \A j : (Recording(o, j)' <=> Recording(o, j))
<1>1. /\ tick' \in [Ticks -> TickState \cup {None}]
      /\ tick'[t] = x
      /\ \A o \in Ticks : o # t => tick'[o] = tick[o]
  BY DEF TypeOK
<1> QED
  BY <1>1 DEF Works, Recording, At

LEMMA CallTyped ==
  ASSUME OutboxInvariant, NEW t \in Ticks, tick[t] # None
  PROVE  /\ tick[t] \in TickState
         /\ tick[t].stage = "next" => tick[t].job = None
         /\ tick[t].stage # "next" => tick[t].job \in Jobs /\ Works(t)
BY DEF OutboxInvariant, TypeOK, JobsInHand, Works

LEMMA InitInvariant == Init => OutboxInvariant
<1> SUFFICES ASSUME Init
             PROVE  OutboxInvariant
  OBVIOUS
<1>1. TypeOK
  BY DEF Init, TypeOK, Statuses
<1>2. JobsInHand /\ Permitted
  BY DEF Init, JobsInHand, Permitted, Works
<1>3. Accounted
  BY DEF Init, Accounted
<1> QED
  BY <1>1, <1>2, <1>3 DEF OutboxInvariant

\* A call goes on with its job: rows and settings stay.
LEMMA CallGoesOn ==
  ASSUME OutboxInvariant, NEW t \in Ticks, Works(t),
         NEW x \in TickState, x.job = tick[t].job, x.stage # "next",
         tick' = [tick EXCEPT ![t] = x],
         x.stage \in {"audience", "identity", "send"} => x.job \in willed,
         x.stage \in {"identity", "send"} => x.job \in shown,
         delivered' \in [Jobs -> Nat], unknown' \in [Jobs -> Nat], Accounted',
         UNCHANGED <<rows, settings, since>>
  PROVE  OutboxInvariant'
<1> USE DEF OutboxInvariant, rows, settings, since
<1>1. x # None /\ tick[t] # None
  BY TickAssumption DEF Works
<1>2. /\ tick' \in [Ticks -> TickState \cup {None}]
      /\ tick'[t] = x
      /\ \A o \in Ticks : o # t => tick'[o] = tick[o]
  BY OneCall
<1>3. /\ \A o \in Ticks : (tick'[o] # None) = (tick[o] # None)
      /\ \A o \in Ticks : tick[o] # None => tick'[o].job = tick[o].job
      /\ \A o \in Ticks : (Works(o)' <=> Works(o))
      /\ \A o \in Ticks : tick[o] # None =>
           (tick'[o].stage = "next") = (tick[o].stage = "next")
  BY <1>1, <1>2 DEF Works
<1>4. TypeOK'
  BY <1>2 DEF TypeOK
<1>5. JobsInHand'
  BY <1>3 DEF JobsInHand, Works
<1>6. Permitted'
  <2> SUFFICES ASSUME NEW o \in Ticks, Works(o)
               PROVE  LET j == tick[o].job IN
                 /\ notify[Recipient[j]] \/ tick'[o].stage \in {"audience", "identity", "send"}
                      => j \in willed
                 /\ MaySee(Recipient[j]) \/ tick'[o].stage \in {"identity", "send"}
                      => j \in shown
    BY <1>3 DEF Permitted, MaySee, Works
  <2>1. CASE o = t
    BY <1>2, <2>1 DEF Permitted
  <2>2. CASE o # t
    BY <1>2, <2>2 DEF Permitted
  <2> QED
    BY <2>1, <2>2
<1> QED
  BY <1>4, <1>5, <1>6

\* The same when nothing was delivered.
LEMMA CallMoves ==
  ASSUME OutboxInvariant, NEW t \in Ticks, NEW s \in Stages, Goes(t, s),
         Works(t), tick[t].stage # "record", s \notin {"next", "record"},
         s \in {"audience", "identity", "send"} => tick[t].job \in willed,
         s \in {"identity", "send"} => tick[t].job \in shown,
         UNCHANGED <<rows, settings, ledger, since>>
  PROVE  OutboxInvariant'
<1>1. tick[t] \in TickState /\ tick[t] # None
  BY CallTyped DEF Works
<1>2. PICK x : x = [tick[t] EXCEPT !.stage = s]
  OBVIOUS
<1>3. x \in TickState /\ x.job = tick[t].job /\ x.stage = s
  BY <1>1, <1>2 DEF TickState
<1>4. tick' = [tick EXCEPT ![t] = x]
  BY <1>2 DEF Goes
<1>5. Accounted'
  <2>1. /\ tick'[t] = x /\ x # None
        /\ \A o \in Ticks : o # t => \A j : (Recording(o, j)' <=> Recording(o, j))
    BY <1>3, <1>4, OneCall, TickAssumption DEF OutboxInvariant
  <2>2. \A j : ~Recording(t, j) /\ ~Recording(t, j)'
    BY <1>3, <2>1 DEF Recording, At
  <2>3. \A o \in Ticks : \A j : (Recording(o, j)' <=> Recording(o, j))
    BY <2>1, <2>2
  <2>4. UNCHANGED <<status, delivered, unknown>>
    BY DEF rows, ledger
  <2> SUFFICES ASSUME NEW j \in Jobs
               PROVE  /\ delivered[j] <= 1 + unknown[j]
                      /\ \/ delivered[j] <= unknown[j] \/ status[j] = "sent"
                         \/ \E o \in Ticks : Recording(o, j)'
    BY <2>4 DEF Accounted
  <2> QED
    BY <2>3 DEF OutboxInvariant, Accounted
<1>6. delivered' \in [Jobs -> Nat] /\ unknown' \in [Jobs -> Nat]
  BY DEF OutboxInvariant, TypeOK, ledger
<1> QED
  BY <1>3, <1>4, <1>5, <1>6, CallGoesOn DEF rows, settings, since

\* A job is done with: its row is settled, or waits for its next attempt.
LEMMA JobDone ==
  ASSUME OutboxInvariant, NEW t \in Ticks, Works(t), NextJob(t),
         NEW s \in Statuses, status' = [status EXCEPT ![tick[t].job] = s],
         s = "sent" \/ tick[t].stage # "record",
         attempts' \in [Jobs -> Nat],
         UNCHANGED due \/ due' = [due EXCEPT ![tick[t].job] = FALSE],
         UNCHANGED <<settings, ledger, since>>
  PROVE  OutboxInvariant'
<1> DEFINE j == tick[t].job
<1> USE DEF OutboxInvariant, settings, ledger, since
<1>1. tick[t] \in TickState /\ tick[t] # None /\ j \in Jobs
  BY CallTyped DEF Works
<1>2. PICK x : x = [tick[t] EXCEPT !.stage = "next", !.job = None]
  OBVIOUS
<1>3. x \in TickState /\ x.job = None /\ x.stage = "next" /\ x # None
  BY <1>1, <1>2, TickAssumption DEF TickState, Stages
<1>4. tick' = [tick EXCEPT ![t] = x]
  BY <1>2 DEF NextJob
<1>5. /\ tick' \in [Ticks -> TickState \cup {None}]
      /\ tick'[t] = x
      /\ \A o \in Ticks : o # t => tick'[o] = tick[o]
      /\ \A o \in Ticks : o # t => (Works(o)' <=> Works(o))
      /\ \A o \in Ticks : o # t => \A k : (Recording(o, k)' <=> Recording(o, k))
  BY <1>3, <1>4, OneCall
<1>6. ~Works(t)' /\ \A k : ~Recording(t, k)'
  BY <1>3, <1>5 DEF Works, Recording, At
<1>7. /\ status' \in [Jobs -> Statuses] /\ status'[j] = s
      /\ \A k \in Jobs : k # j => status'[k] = status[k]
  BY <1>1 DEF TypeOK
<1>8. /\ due' \in [Jobs -> BOOLEAN]
      /\ \A k \in Jobs : k # j => due'[k] = due[k]
  BY <1>1 DEF TypeOK
<1>9. \A o \in Ticks : o # t /\ Works(o) => tick[o].job # j
  BY <1>1 DEF JobsInHand, Works
<1> HIDE DEF j
<1>10. TypeOK'
  BY <1>5, <1>7, <1>8 DEF TypeOK
<1>11. JobsInHand'
  <2> SUFFICES ASSUME NEW o \in Ticks, tick'[o] # None
               PROVE  IF tick'[o].stage = "next" THEN tick'[o].job = None
                      ELSE /\ tick'[o].job \in Jobs
                           /\ status'[tick'[o].job] = "pending"
                           /\ due'[tick'[o].job] = FALSE
                           /\ \A u \in Ticks : Works(u)' /\ tick'[u].job = tick'[o].job
                                => u = o
    BY DEF JobsInHand
  <2>1. CASE o = t
    BY <1>3, <1>5, <2>1
  <2>2. CASE o # t
    <3>1. tick'[o] = tick[o]
      BY <1>5, <2>2
    <3>2. CASE tick[o].stage = "next"
      BY <3>1, <3>2 DEF JobsInHand
    <3>3. CASE tick[o].stage # "next"
      <4>1. Works(o) /\ tick[o].job \in Jobs /\ tick[o].job # j
        BY <1>9, <2>2, <3>1, <3>3 DEF JobsInHand, Works
      <4>2. status'[tick[o].job] = "pending" /\ due'[tick[o].job] = FALSE
        BY <1>7, <1>8, <3>1, <3>3, <4>1 DEF JobsInHand
      <4>3. \A u \in Ticks : Works(u)' /\ tick'[u].job = tick[o].job => u = o
        BY <1>5, <1>6, <3>1, <3>3 DEF JobsInHand
      <4> QED
        BY <3>1, <3>3, <4>1, <4>2, <4>3
    <3> QED
      BY <3>2, <3>3
  <2> QED
    BY <2>1, <2>2
<1>12. Accounted'
  <2>1. \A k \in Jobs : k # j => \A o \in Ticks : Recording(o, k) => Recording(o, k)'
    BY <1>5 DEF Recording, j
  <2>2. ASSUME s # "sent"
        PROVE  delivered[j] <= unknown[j]
    <3>1. status[j] = "pending"
      BY <1>1 DEF JobsInHand, Works, j
    <3>2. \A o \in Ticks : ~Recording(o, j)
      BY <1>9, <2>2 DEF Recording, At, Works, j
    <3> QED
      BY <1>1, <3>1, <3>2 DEF Accounted, j
  <2> SUFFICES ASSUME NEW k \in Jobs
               PROVE  /\ delivered[k] <= 1 + unknown[k]
                      /\ \/ delivered[k] <= unknown[k] \/ status'[k] = "sent"
                         \/ \E o \in Ticks : Recording(o, k)'
    BY DEF Accounted
  <2>3. CASE k = j
    BY <1>7, <2>2, <2>3 DEF Accounted
  <2>4. CASE k # j
    BY <1>7, <2>1, <2>4 DEF Accounted
  <2> QED
    BY <2>3, <2>4
<1>13. Permitted'
  BY <1>5, <1>6 DEF Permitted, MaySee
<1> QED
  BY <1>10, <1>11, <1>12, <1>13

LEMMA ExamineStep ==
  ASSUME OutboxInvariant, NEW t \in Ticks, ReadOwner(t) \/ ReadAudience(t)
  PROVE  OutboxInvariant'
<1>1. /\ Works(t) /\ tick[t].stage \in {"owner", "audience"}
      /\ tick[t].job \in Jobs
      /\ UNCHANGED <<attempts, due, settings, process, faults, changes, ledger, since>>
  BY CallTyped DEF ReadOwner, ReadAudience, Examine, At, Works
<1>2. CASE NextJob(t) /\ status' = [status EXCEPT ![tick[t].job] = "skipped"]
  BY <1>1, <1>2, JobDone DEF OutboxInvariant, TypeOK, Statuses
<1>3. CASE ReadOwner(t) /\ Willing(t) /\ Goes(t, "audience") /\ status' = status
  <2>1. tick[t].job \in willed
    BY <1>1, <1>3 DEF Willing, OutboxInvariant, Permitted
  <2> QED
    BY <1>1, <1>3, <2>1, CallMoves DEF Stages, rows
<1>4. CASE ReadAudience(t) /\ MaySee(Recipient[tick[t].job]) /\ Goes(t, "identity")
           /\ status' = status
  <2>1. tick[t].job \in willed /\ tick[t].job \in shown
    BY <1>1, <1>4 DEF OutboxInvariant, Permitted, ReadAudience, Examine, At
  <2> QED
    BY <1>1, <1>4, <2>1, CallMoves DEF Stages, rows
<1> QED
  BY <1>2, <1>3, <1>4 DEF ReadOwner, ReadAudience, Examine

LEMMA ReadFailsStep ==
  ASSUME OutboxInvariant, NEW t \in Ticks, ReadFails(t)
  PROVE  OutboxInvariant'
<1>1. /\ Works(t) /\ tick[t].stage # "record" /\ Goes(t, "failing")
      /\ UNCHANGED <<rows, settings, ledger, since>>
  BY DEF ReadFails, At, Works
<1> QED
  BY <1>1, CallMoves DEF Stages

LEMMA IdentifyStep ==
  ASSUME OutboxInvariant, NEW t \in Ticks, Identify(t) \/ SendFails(t)
  PROVE  OutboxInvariant'
<1>1. /\ Works(t) /\ tick[t].stage \in {"identity", "send"}
      /\ UNCHANGED <<rows, settings, process, faults, changes, ledger, since>>
  BY DEF Identify, SendFails, At, Works
<1>2. tick[t].job \in willed /\ tick[t].job \in shown
  BY <1>1 DEF OutboxInvariant, Permitted
<1> QED
  BY <1>1, <1>2, CallMoves DEF Identify, SendFails, Stages

LEMMA FailedStep ==
  ASSUME OutboxInvariant, NEW t \in Ticks, Failed(t)
  PROVE  OutboxInvariant'
<1> DEFINE j == tick[t].job
           n == tick[t].seen[j] + 1
<1>1. /\ Works(t) /\ tick[t].stage \in {"failing", "refused"}
      /\ j \in Jobs /\ tick[t] \in TickState
  BY CallTyped DEF Failed, At, Works
<1>2. n \in Nat
  BY <1>1 DEF TickState
<1>3. attempts' \in [Jobs -> Nat]
  BY <1>1, <1>2 DEF Failed, OutboxInvariant, TypeOK
<1>4. PICK s \in {"failed", "pending"} : status' = [status EXCEPT ![j] = s]
  BY DEF Failed
<1> QED
  BY <1>1, <1>3, <1>4, JobDone DEF Failed, Statuses

LEMMA RecordStep ==
  ASSUME OutboxInvariant, NEW t \in Ticks, Record(t)
  PROVE  OutboxInvariant'
<1>1. Works(t) /\ attempts' \in [Jobs -> Nat]
  BY DEF Record, At, Works, OutboxInvariant, TypeOK
<1> QED
  BY <1>1, JobDone DEF Record, Statuses

\* A delivery is counted, and its record is still to come or will never.
LEMMA DeliverStep ==
  ASSUME OutboxInvariant, NEW t \in Ticks, Deliver(t) \/ RecordFails(t)
  PROVE  OutboxInvariant'
<1> DEFINE j == tick[t].job
<1>1. /\ Works(t) /\ tick[t] \in TickState /\ j \in Jobs
      /\ tick[t].stage \in {"send", "record"}
      /\ UNCHANGED <<rows, settings, since>>
  BY CallTyped DEF Deliver, RecordFails, At, Works
<1>2. PICK s \in {"record", "failing"} :
        /\ Goes(t, s)
        /\ \/ /\ Deliver(t) /\ delivered' = [delivered EXCEPT ![j] = @ + 1]
              /\ s = "record" /\ unknown' = unknown
           \/ /\ Deliver(t) /\ delivered' = [delivered EXCEPT ![j] = @ + 1]
              /\ s = "failing" /\ unknown' = [unknown EXCEPT ![j] = @ + 1]
           \/ /\ RecordFails(t) /\ delivered' = delivered
              /\ s = "failing" /\ unknown' = [unknown EXCEPT ![j] = @ + 1]
  BY DEF Deliver, RecordFails, ledger
<1>3. PICK x : x = [tick[t] EXCEPT !.stage = s]
  OBVIOUS
<1>4. x \in TickState /\ x.job = j /\ x.stage = s /\ x # None
  BY <1>1, <1>3, TickAssumption DEF TickState, Stages
<1>5. tick' = [tick EXCEPT ![t] = x]
  BY <1>2, <1>3 DEF Goes
<1>6. /\ tick'[t] = x
      /\ \A o \in Ticks : o # t => \A k : (Recording(o, k)' <=> Recording(o, k))
  BY <1>4, <1>5, OneCall DEF OutboxInvariant
<1>7. s = "record" <=> Recording(t, j)'
  BY <1>4, <1>6 DEF Recording, At
<1>8. \A o \in Ticks : Recording(o, j) => o = t
  BY <1>1 DEF OutboxInvariant, JobsInHand, Recording, At, Works
<1>9. status[j] = "pending"
  BY <1>1 DEF OutboxInvariant, JobsInHand, Works
<1>10. Deliver(t) => delivered[j] <= unknown[j]
  <2>1. Deliver(t) => ~Recording(t, j)
    BY DEF Deliver, At, Recording
  <2> QED
    BY <1>1, <1>8, <1>9, <2>1 DEF OutboxInvariant, Accounted
<1>11. delivered \in [Jobs -> Nat] /\ unknown \in [Jobs -> Nat]
  BY DEF OutboxInvariant, TypeOK
<1> HIDE DEF j
<1>12. /\ delivered' \in [Jobs -> Nat] /\ unknown' \in [Jobs -> Nat]
       /\ \A k \in Jobs : k # j => delivered'[k] = delivered[k] /\ unknown'[k] = unknown[k]
  BY <1>1, <1>2, <1>11
<1>13. /\ delivered'[j] <= 1 + unknown'[j]
       /\ s = "failing" => delivered'[j] <= unknown'[j]
  <2>1. delivered[j] <= 1 + unknown[j]
    BY <1>1 DEF OutboxInvariant, Accounted
  <2>2. delivered[j] \in Nat /\ unknown[j] \in Nat
    BY <1>1, <1>11
  <2>3. delivered'[j] \in {delivered[j], delivered[j] + 1}
    BY <1>1, <1>2, <1>11
  <2>4. CASE s = "record"
    <3>1. Deliver(t) /\ delivered'[j] = delivered[j] + 1 /\ unknown'[j] = unknown[j]
      BY <1>1, <1>2, <1>11, <2>4
    <3> QED
      BY <1>10, <2>2, <2>4, <3>1
  <2>5. CASE s = "failing"
    <3>1. unknown'[j] = unknown[j] + 1
      BY <1>1, <1>2, <1>11, <2>5
    <3>2. Deliver(t) \/ delivered'[j] = delivered[j]
      BY <1>2
    <3>3. delivered'[j] <= unknown'[j]
      BY <1>10, <2>1, <2>2, <2>3, <3>1, <3>2
    <3> QED
      BY <2>2, <2>3, <3>1, <3>3
  <2> QED
    BY <2>4, <2>5
<1>14. Accounted'
  <2> SUFFICES ASSUME NEW k \in Jobs
               PROVE  /\ delivered'[k] <= 1 + unknown'[k]
                      /\ \/ delivered'[k] <= unknown'[k] \/ status[k] = "sent"
                         \/ \E o \in Ticks : Recording(o, k)'
    BY <1>1 DEF Accounted, rows
  <2>1. CASE k = j
    <3>1. CASE s = "record"
      <4>1. Recording(t, k)'
        BY <1>4, <1>6, <2>1, <3>1 DEF Recording, At
      <4> QED
        BY <1>13, <2>1, <4>1
    <3>2. CASE s = "failing"
      BY <1>13, <2>1, <3>2
    <3> QED
      BY <1>2, <3>1, <3>2
  <2>2. CASE k # j
    <3>1. ~Recording(t, k)
      BY <2>2 DEF Recording, j
    <3> QED
      BY <1>6, <1>12, <2>2, <3>1 DEF OutboxInvariant, Accounted
  <2> QED
    BY <2>1, <2>2
<1> QED
  BY <1>1, <1>2, <1>4, <1>5, <1>12, <1>14, CallGoesOn DEF j

\* A call starts, ends, breaks off or passes a row over: it has no job then.
LEMMA CallIdle ==
  ASSUME OutboxInvariant, NEW t \in Ticks, ~At(t, "record"),
         NEW x \in TickState \cup {None}, x # None => x.stage = "next" /\ x.job = None,
         tick' = [tick EXCEPT ![t] = x],
         UNCHANGED <<rows, settings, ledger, since>>
  PROVE  OutboxInvariant'
<1> USE DEF OutboxInvariant, rows, settings, ledger, since
<1>1. /\ tick' \in [Ticks -> TickState \cup {None}]
      /\ tick'[t] = x
      /\ \A o \in Ticks : o # t => tick'[o] = tick[o]
      /\ \A o \in Ticks : o # t => (Works(o)' <=> Works(o))
      /\ \A o \in Ticks : o # t => \A k : (Recording(o, k)' <=> Recording(o, k))
  BY OneCall
<1>2. ~Works(t)'
  BY <1>1 DEF Works
<1>3. \A k : ~Recording(t, k)
  BY DEF Recording
<1>4. TypeOK'
  BY <1>1 DEF TypeOK
<1>5. JobsInHand'
  <2> SUFFICES ASSUME NEW o \in Ticks, tick'[o] # None
               PROVE  IF tick'[o].stage = "next" THEN tick'[o].job = None
                      ELSE /\ tick'[o].job \in Jobs
                           /\ status[tick'[o].job] = "pending"
                           /\ due[tick'[o].job] = FALSE
                           /\ \A u \in Ticks : Works(u)' /\ tick'[u].job = tick'[o].job
                                => u = o
    BY DEF JobsInHand
  <2>1. CASE o = t
    BY <1>1, <2>1
  <2>2. CASE o # t
    <3>1. tick'[o] = tick[o]
      BY <1>1, <2>2
    <3>2. \A u \in Ticks : Works(u)' => Works(u) /\ tick'[u] = tick[u]
      BY <1>1, <1>2
    <3> QED
      BY <3>1, <3>2 DEF JobsInHand
  <2> QED
    BY <2>1, <2>2
<1>6. Accounted'
  <2>1. \A o \in Ticks : \A k : Recording(o, k) => Recording(o, k)'
    BY <1>1, <1>3
  <2> QED
    BY <2>1 DEF Accounted
<1>7. Permitted'
  BY <1>1, <1>2 DEF Permitted, MaySee
<1> QED
  BY <1>4, <1>5, <1>6, <1>7

\* Rows nobody has in hand move, none away from `sent`.
LEMMA RowsMove ==
  ASSUME OutboxInvariant, status' \in [Jobs -> Statuses], attempts' \in [Jobs -> Nat],
         due' \in [Jobs -> BOOLEAN],
         \A k \in InHand : status'[k] = status[k] /\ due'[k] = due[k],
         \A k \in Jobs : status[k] = "sent" => status'[k] = "sent",
         UNCHANGED <<settings, tick, ledger, since>>
  PROVE  OutboxInvariant'
<1> USE DEF OutboxInvariant, settings, ledger, since
<1>1. TypeOK'
  BY DEF TypeOK
<1>2. \A o \in Ticks : Works(o)' <=> Works(o)
  BY DEF Works
<1>3. \A o \in Ticks : \A k : Recording(o, k)' <=> Recording(o, k)
  BY DEF Recording, At
<1>4. JobsInHand'
  BY <1>2 DEF JobsInHand, InHand
<1>5. Accounted'
  BY <1>3 DEF Accounted
<1>6. Permitted'
  BY <1>2 DEF Permitted, MaySee
<1> QED
  BY <1>1, <1>4, <1>5, <1>6

\* Settings change, and the histories with them.
LEMMA SettingsMove ==
  ASSUME OutboxInvariant, notify' \in [Users -> BOOLEAN],
         willed \subseteq willed', shown \subseteq shown',
         willed' \subseteq Jobs, shown' \subseteq Jobs,
         \A k \in Jobs : notify'[Recipient[k]] /\ ~notify[Recipient[k]] => k \in willed',
         \A k \in Jobs : MaySee(Recipient[k])' /\ ~MaySee(Recipient[k]) => k \in shown',
         UNCHANGED <<rows, tick, ledger>>
  PROVE  OutboxInvariant'
<1> USE DEF OutboxInvariant, rows, ledger
<1>1. TypeOK'
  BY DEF TypeOK
<1>2. \A o \in Ticks : Works(o)' <=> Works(o)
  BY DEF Works
<1>3. \A o \in Ticks : \A k : Recording(o, k)' <=> Recording(o, k)
  BY DEF Recording, At
<1>4. JobsInHand'
  BY <1>2 DEF JobsInHand
<1>5. Accounted'
  BY <1>3 DEF Accounted
<1>6. Permitted'
  <2> SUFFICES ASSUME NEW o \in Ticks, Works(o)
               PROVE  LET j == tick[o].job IN
                 /\ notify'[Recipient[j]] \/ tick[o].stage \in {"audience", "identity", "send"}
                      => j \in willed'
                 /\ MaySee(Recipient[j])' \/ tick[o].stage \in {"identity", "send"}
                      => j \in shown'
    BY <1>2 DEF Permitted, MaySee
  <2>1. tick[o].job \in Jobs
    BY CallTyped DEF Works
  <2> QED
    BY <2>1 DEF Permitted
<1> QED
  BY <1>1, <1>4, <1>5, <1>6

LEMMA LeaseStep ==
  ASSUME OutboxInvariant, NEW t \in Ticks, NEW j \in Jobs, Lease(t, j)
  PROVE  OutboxInvariant'
<1> USE DEF OutboxInvariant
<1>1. /\ tick[t] # None /\ tick[t] \in TickState
      /\ tick[t].stage = "next" /\ tick[t].job = None
      /\ UNCHANGED <<status, attempts, settings, delivered, unknown>>
  BY CallTyped DEF Lease, At
<1>2. CASE ~(status[j] = "pending" /\ due[j])
  <2>1. PICK x : x = [tick[t] EXCEPT !.batch = @ \ {j}]
    OBVIOUS
  <2>2. x \in TickState /\ x.stage = "next" /\ x.job = None
    BY <1>1, <2>1 DEF TickState
  <2>3. tick' = [tick EXCEPT ![t] = x]
    BY <1>2, <2>1 DEF Lease
  <2> QED
    BY <1>1, <1>2, <2>2, <2>3, CallIdle DEF Lease, At, rows, ledger
<1>3. CASE status[j] = "pending" /\ due[j]
  <2>1. PICK x : x = [tick[t] EXCEPT !.batch = @ \ {j}, !.job = j, !.stage = "owner"]
    OBVIOUS
  <2>2. x \in TickState /\ x.stage = "owner" /\ x.job = j /\ x # None
    <3>1. x \in TickState
      BY <1>1, <2>1 DEF TickState, Stages
    <3>2. x.stage = "owner" /\ x.job = j
      BY <1>1, <2>1 DEF TickState
    <3> QED
      BY <3>1, <3>2, TickAssumption
  <2>3. tick' = [tick EXCEPT ![t] = x]
    BY <1>3, <2>1 DEF Lease
  <2>4. /\ tick' \in [Ticks -> TickState \cup {None}]
        /\ tick'[t] = x
        /\ \A o \in Ticks : o # t => tick'[o] = tick[o]
        /\ \A o \in Ticks : o # t => (Works(o)' <=> Works(o))
        /\ \A o \in Ticks : o # t => \A k : (Recording(o, k)' <=> Recording(o, k))
    BY <2>2, <2>3, OneCall
  <2>5. \A o \in Ticks : Works(o) => tick[o].job # j /\ o # t
    BY <1>1, <1>3 DEF JobsInHand, Works
  <2>6. /\ due' \in [Jobs -> BOOLEAN] /\ due'[j] = FALSE
        /\ \A k \in Jobs : k # j => due'[k] = due[k]
    BY <1>3 DEF Lease, TypeOK
  <2>7. TypeOK'
    <3>1. willed' \subseteq Jobs /\ shown' \subseteq Jobs
      BY <1>3 DEF Lease, TypeOK
    <3> QED
      BY <1>1, <2>4, <2>6, <3>1 DEF TypeOK, settings
  <2>8. JobsInHand'
    <3> SUFFICES ASSUME NEW o \in Ticks, tick'[o] # None
                 PROVE  IF tick'[o].stage = "next" THEN tick'[o].job = None
                        ELSE /\ tick'[o].job \in Jobs
                             /\ status[tick'[o].job] = "pending"
                             /\ due'[tick'[o].job] = FALSE
                             /\ \A u \in Ticks : Works(u)' /\ tick'[u].job = tick'[o].job
                                  => u = o
      BY <1>1 DEF JobsInHand
    <3>1. CASE o = t
      <4>1. \A u \in Ticks : u # t /\ Works(u)' => tick'[u].job # j
        BY <2>4, <2>5
      <4> QED
        BY <1>3, <2>2, <2>4, <2>6, <3>1, <4>1
    <3>2. CASE o # t
      <4>1. tick'[o] = tick[o]
        BY <2>4, <3>2
      <4>2. CASE tick[o].stage = "next"
        BY <4>1, <4>2 DEF JobsInHand
      <4>3. CASE tick[o].stage # "next"
        <5>1. Works(o) /\ tick[o].job \in Jobs /\ tick[o].job # j
          BY <2>5, <4>1, <4>3 DEF JobsInHand, Works
        <5>2. \A u \in Ticks : Works(u)' /\ tick'[u].job = tick[o].job => u = o
          BY <2>2, <2>4, <4>1, <4>3, <5>1 DEF JobsInHand
        <5> QED
          BY <2>6, <4>1, <4>3, <5>1, <5>2 DEF JobsInHand
      <4> QED
        BY <4>2, <4>3
    <3> QED
      BY <3>1, <3>2
  <2>9. Accounted'
    <3>1. \A o \in Ticks : \A k : Recording(o, k) => Recording(o, k)'
      BY <1>1, <2>4 DEF Recording, At
    <3> QED
      BY <1>1, <3>1 DEF Accounted
  <2>10. /\ \A k : k # j => (k \in willed' <=> k \in willed) /\ (k \in shown' <=> k \in shown)
         /\ notify[Recipient[j]] => j \in willed'
         /\ MaySee(Recipient[j]) => j \in shown'
    BY <1>3 DEF Lease
  <2>11. Permitted'
    <3> SUFFICES ASSUME NEW o \in Ticks, Works(o)'
                 PROVE  LET k == tick'[o].job IN
                   /\ notify[Recipient[k]]
                        \/ tick'[o].stage \in {"audience", "identity", "send"} => k \in willed'
                   /\ MaySee(Recipient[k])
                        \/ tick'[o].stage \in {"identity", "send"} => k \in shown'
      BY <1>1 DEF Permitted, MaySee, settings
    <3>1. CASE o = t
      BY <2>2, <2>4, <2>10, <3>1
    <3>2. CASE o # t
      BY <2>4, <2>5, <2>10, <3>2 DEF Permitted
    <3> QED
      BY <3>1, <3>2
  <2> QED
    BY <2>7, <2>8, <2>9, <2>11
<1> QED
  BY <1>2, <1>3

LEMMA TurnStep ==
  ASSUME OutboxInvariant, NEW t \in Ticks, Tick(t) \/ TickEnds(t) \/ TickBreaks(t)
  PROVE  OutboxInvariant'
<1>1. /\ ~At(t, "record")
      /\ UNCHANGED <<rows, settings, ledger, since>>
  BY DEF Tick, TickEnds, TickBreaks, At
<1>2. CASE Tick(t)
  <2>1. PICK b \in SUBSET Selectable : tick' = [tick EXCEPT ![t] =
          [batch |-> b, seen |-> attempts, job |-> None, stage |-> "next"]]
    BY <1>2 DEF Tick
  <2>2. PICK x : x = [batch |-> b, seen |-> attempts, job |-> None, stage |-> "next"]
    OBVIOUS
  <2>3. x \in TickState /\ x.stage = "next" /\ x.job = None
    BY <2>2 DEF TickState, Stages, Selectable, OutboxInvariant, TypeOK
  <2> QED
    BY <1>1, <2>1, <2>2, <2>3, CallIdle
<1>3. CASE TickEnds(t) \/ TickBreaks(t)
  <2>1. tick' = [tick EXCEPT ![t] = None]
    BY <1>3 DEF TickEnds, TickBreaks
  <2> QED
    BY <1>1, <2>1, CallIdle
<1> QED
  BY <1>2, <1>3

LEMMA RoutesStep ==
  ASSUME OutboxInvariant, RouteStep
  PROVE  OutboxInvariant'
<1> USE DEF OutboxInvariant
<1>1. \A k \in InHand : k \in Jobs /\ status[k] = "pending"
  BY OutboxAssumption DEF InHand, JobsInHand
<1>2. ASSUME NEW j \in Jobs, Enqueue(j)
      PROVE  OutboxInvariant'
  <2>1. status' \in [Jobs -> Statuses] /\ due' \in [Jobs -> BOOLEAN] /\ attempts' \in [Jobs -> Nat]
    BY <1>2 DEF Enqueue, TypeOK, Statuses
  <2>2. \A k \in Jobs : k # j => status'[k] = status[k] /\ due'[k] = due[k]
    BY <1>2 DEF Enqueue, TypeOK
  <2>3. status[j] = "none"
    BY <1>2 DEF Enqueue
  <2> QED
    BY <1>1, <1>2, <2>1, <2>2, <2>3, RowsMove DEF Enqueue
<1>3. ASSUME NEW u \in Users, NEW e \in BOOLEAN, Notifications(u, e)
      PROVE  OutboxInvariant'
  <2>1. /\ notify' \in [Users -> BOOLEAN] /\ notify'[u] = e
        /\ \A r \in Users : r # u => notify'[r] = notify[r]
    BY <1>3 DEF Notifications, TypeOK
  <2>2. /\ willed' = {j \in Jobs : j \in willed \/ (e /\ Recipient[j] = u)}
        /\ willed \subseteq Jobs
        /\ UNCHANGED <<shown, public, rows, tick, ledger>>
    BY <1>3 DEF Notifications, TypeOK
  <2>3. \A k \in Jobs : Recipient[k] \in Users
    BY OutboxAssumption
  <2>4. \A k \in Jobs : notify'[Recipient[k]] /\ ~notify[Recipient[k]] => k \in willed'
    BY <2>1, <2>2, <2>3
  <2> QED
    <3>1. /\ willed \subseteq willed' /\ willed' \subseteq Jobs
          /\ shown \subseteq shown' /\ shown' \subseteq Jobs
      BY <2>2 DEF TypeOK
    <3> QED
      BY <2>1, <2>2, <2>4, <3>1, SettingsMove DEF MaySee
<1>4. CASE EditAudience
  <2>1. shown \subseteq shown' /\ (public' => shown' = Jobs)
    BY <1>4 DEF EditAudience, TypeOK
  <2> QED
    BY <1>4, <2>1, SettingsMove DEF EditAudience, MaySee, TypeOK
<1>5. ASSUME NEW u \in Users, Retry(u)
      PROVE  OutboxInvariant'
  <2>1. status' \in [Jobs -> Statuses] /\ due' \in [Jobs -> BOOLEAN] /\ attempts' \in [Jobs -> Nat]
    BY <1>5 DEF Retry, TypeOK, Statuses
  <2>2. \A k \in Jobs : status[k] # "failed" => status'[k] = status[k] /\ due'[k] = due[k]
    BY <1>5 DEF Retry, Retried, TypeOK
  <2> QED
    BY <1>1, <1>5, <2>1, <2>2, RowsMove DEF Retry
<1> QED
  BY <1>2, <1>3, <1>4, <1>5 DEF RouteStep

LEMMA BecomesDueStep ==
  ASSUME OutboxInvariant, NEW j \in Jobs, BecomesDue(j)
  PROVE  OutboxInvariant'
<1>1. /\ status' = status /\ due' \in [Jobs -> BOOLEAN]
      /\ \A k \in InHand : due'[k] = due[k]
  BY DEF BecomesDue, OutboxInvariant, TypeOK, InHand
<1> QED
  BY <1>1, RowsMove DEF BecomesDue, OutboxInvariant, TypeOK

\* The process is gone, and with it every call: what was delivered and not
\* recorded is now unknown.
LEMMA DiesStep ==
  ASSUME OutboxInvariant, Dies
  PROVE  OutboxInvariant'
<1> DEFINE Lost(j) == {t \in Ticks : At(t, "record") /\ tick[t].job = j}
<1> USE DEF OutboxInvariant
<1>1. /\ \A t \in Ticks : tick'[t] = None
      /\ tick' \in [Ticks -> TickState \cup {None}]
      /\ UNCHANGED <<rows, settings, delivered, since>>
      /\ unknown' = [j \in Jobs |-> unknown[j] + Cardinality(Lost(j))]
  BY DEF Dies
<1>2. ASSUME NEW j \in Jobs
      PROVE  \/ Lost(j) = {} /\ Cardinality(Lost(j)) = 0
             \/ Lost(j) # {} /\ Cardinality(Lost(j)) = 1
  <2>1. CASE Lost(j) = {}
    BY <2>1, FS_EmptySet
  <2>2. CASE Lost(j) # {}
    <3>1. PICK t \in Ticks : Recording(t, j)
      BY <2>2 DEF Recording
    <3>2. \A o \in Ticks : Recording(o, j) => o = t
      BY <3>1 DEF JobsInHand, Recording, At, Works
    <3>3. Lost(j) = {t}
      BY <3>1, <3>2 DEF Recording
    <3> QED
      BY <3>3, FS_Singleton
  <2> QED
    BY <2>1, <2>2
<1>3. \A j \in Jobs : (Lost(j) # {}) <=> \E t \in Ticks : Recording(t, j)
  BY DEF Recording
<1> HIDE DEF Lost
<1>4. \A j \in Jobs : /\ Cardinality(Lost(j)) \in Nat
                      /\ unknown'[j] = unknown[j] + Cardinality(Lost(j))
  BY <1>1, <1>2
<1>5. TypeOK'
  <2>1. unknown' \in [Jobs -> Nat]
    BY <1>1, <1>4 DEF TypeOK
  <2> QED
    BY <1>1, <2>1 DEF TypeOK, rows, settings, since
<1>6. JobsInHand' /\ Permitted'
  BY <1>1 DEF JobsInHand, Permitted, Works
<1>7. Accounted'
  <2> SUFFICES ASSUME NEW j \in Jobs
               PROVE  /\ delivered[j] <= 1 + unknown'[j]
                      /\ delivered[j] <= unknown'[j] \/ status[j] = "sent"
    BY <1>1 DEF Accounted, rows
  <2>1. delivered[j] \in Nat /\ unknown[j] \in Nat /\ delivered[j] <= 1 + unknown[j]
    BY DEF Accounted, TypeOK
  <2>2. delivered[j] <= unknown[j] \/ status[j] = "sent" \/ Lost(j) # {}
    BY <1>3 DEF Accounted
  <2> QED
    BY <1>2, <1>4, <2>1, <2>2
<1> QED
  BY <1>5, <1>6, <1>7

LEMMA InvariantIsInductive ==
  OutboxInvariant /\ [Next]_vars => OutboxInvariant'
<1> SUFFICES ASSUME OutboxInvariant, [Next]_vars
             PROVE  OutboxInvariant'
  OBVIOUS
<1>1. ASSUME UNCHANGED <<rows, settings, tick, ledger, since>>
      PROVE  OutboxInvariant'
  BY <1>1, RowsMove DEF rows, OutboxInvariant, TypeOK
<1>2. ASSUME NEW t \in Ticks, TickStep(t)
      PROVE  OutboxInvariant'
  BY <1>2, TurnStep, LeaseStep, ExamineStep, ReadFailsStep, IdentifyStep, DeliverStep,
     RecordStep, FailedStep DEF TickStep
<1>3. CASE Breakdown
  BY <1>1, <1>3, DeliverStep, TurnStep, DiesStep DEF Breakdown, Crash, Stop
<1> QED
  BY <1>1, <1>2, <1>3, RoutesStep, BecomesDueStep, DiesStep DEF Next, Exit, Start, vars

----------------------------------------------------------------------------
(* The theorems *)

\* Every reachable state satisfies the inductive invariant: of it, that a row
\* in hand is leased and in the hands of one call alone.
THEOREM OutboxInductive == Spec => []OutboxInvariant
BY InitInvariant, InvariantIsInductive, PTL DEF Spec

\* A notification reaches Discord again only when a delivery of it went
\* unrecorded: no lease, backoff, retry or restart alone repeats one.
THEOREM OutboxResentOnlyAfterUnknown == Spec => []ResentOnlyAfterUnknown
<1>1. OutboxInvariant => ResentOnlyAfterUnknown
  BY DEF OutboxInvariant, Accounted, ResentOnlyAfterUnknown
<1> QED
  BY <1>1, OutboxInductive, PTL

\* Only a recipient who was willing, and allowed to see the meeting, at some
\* moment of this very attempt is sent a message: both are read again between
\* the lease of the row and its delivery.
THEOREM OutboxOnlyWhileWilling == Spec => OnlyWhileWilling
<1>. DEFINE Kept == \A t \in Ticks : Deliver(t) =>
              tick[t].job \in willed /\ tick[t].job \in shown
<1>1. OutboxInvariant /\ [Next]_vars => [Kept]_vars
  BY DEF OutboxInvariant, Permitted, Works, Deliver, At
<1>2. Spec => [][Kept]_vars
  BY <1>1, OutboxInductive, PTL DEF Spec
<1> QED
  BY <1>2 DEF OnlyWhileWilling
=============================================================================
