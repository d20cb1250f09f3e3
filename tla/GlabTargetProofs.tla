-------------------------- MODULE GlabTargetProofs --------------------------
(***************************************************************************)
(* A delegated operation takes effect whole, within its permit, and its    *)
(* answer is true: for any number of processes, calls, edits and           *)
(* delegations.  The connection layer of AtomicStore implements Store.     *)
(***************************************************************************)
EXTENDS GlabTarget, TLAPS

\* A job in a queue, and a queue in which none is twice.
Member(q, j) == \E i \in DOMAIN q : q[i] = j
NoRepeat(q) == \A i, k \in DOMAIN q : q[i] = q[k] => i = k

Stages == {"new", "captured", "consumed", "queued", "handler", "nested", "handled",
           "thrown", "answered"}
Worked == {"handler", "nested", "handled", "thrown"}

TypeOK ==
  /\ content \in Content
  /\ queue \in [Processes -> Seq(Jobs)]
  /\ conn \in [Processes -> Transaction \cup {None}]
  /\ lock \in Processes \cup {None}
  /\ answer \in [Jobs -> {None, "done", "failed", "unknown"}]
  /\ stage \in [Calls -> Stages]
  /\ response \in [Calls -> {None, "ok", "refused", "unconfirmed", "none"}]
  /\ consumed \in [Tokens -> Calls \cup {None}]

\* Jobs wait in the queue of their process, once, and unsettled.
QueuesInOrder == \A p \in Processes :
  /\ NoRepeat(queue[p])
  /\ \A j \in Jobs : Member(queue[p], j) => Home[j] = p /\ answer[j] = None

\* The process with a transaction is the one that holds the lock, and it
\* works for the head of its queue.
OneTransaction == \A p \in Processes :
  /\ conn[p] # None <=> lock = p
  /\ conn[p] # None => queue[p] # <<>>

\* A call waits in a queue from its submission to its answer, and is at its
\* head, in a transaction, as soon as it was admitted.
StagesInStore == \A c \in Calls :
  /\ InStore(c) <=> Member(queue[Home[c]], c)
  /\ stage[c] \in Worked => InWork(c)

RowsSet(x, c, n) == [x EXCEPT !.rows[c] = n]
AudienceSet(x, a) == [x EXCEPT !.audience = a]

\* What a transaction sees is what was committed, but for the rows that its
\* own call has written so far, or the audience that its edit has set.
View(j, x) ==
  /\ j \in Edits => x.saved = <<>> /\ \E a \in Audience : x.now = AudienceSet(content, a)
  /\ j \in Calls =>
       /\ stage[j] = "queued" => x.saved = <<>> /\ x.now = content
       /\ stage[j] = "handler" =>
            x.saved = <<>> /\ x.now \in {content, RowsSet(content, j, 1)}
       /\ stage[j] = "thrown" => x.saved = <<>>
       /\ stage[j] = "nested" =>
            /\ x.saved = <<RowsSet(content, j, 1)>>
            /\ x.now \in {RowsSet(content, j, 1), RowsSet(content, j, 2)}
       /\ stage[j] = "handled" => x.saved = <<>> /\ x.now = RowsSet(content, j, 2)

Views == \A p \in Processes : conn[p] # None => View(Head(queue[p]), conn[p])

\* Nothing of a call is committed before it is answered.
NothingYet == \A c \in Calls : stage[c] # "answered" => content.rows[c] = 0

Admitted(c) ==
  /\ CanReadBooking(content.audience, MemberOf[c], TRUE, c \in IsOwner)
  /\ c \in OwnerOnly => c \in IsOwner

\* A call beyond the gate holds its delegation, and one in its handler was
\* admitted by the audience that is committed.
Permits == \A c \in Calls :
  /\ stage[c] \notin {"new", "captured", "answered"} => consumed[Token[c]] = c
  /\ stage[c] \in Worked => Admitted(c)

GlabInvariant ==
  /\ TypeOK /\ QueuesInOrder /\ OneTransaction /\ StagesInStore
  /\ Views /\ NothingYet /\ Permits /\ AnswerTellsTheTruth

----------------------------------------------------------------------------
(* Queues, contents and processes *)

LEMMA EmptyQueue == NoRepeat(<<>>) /\ \A j : ~Member(<<>>, j)
BY DEF NoRepeat, Member

LEMMA HeadOfQueue ==
  ASSUME NEW S, NEW q \in Seq(S), q # <<>>
  PROVE  Head(q) \in S /\ Member(q, Head(q)) /\ 1 \in DOMAIN q /\ Head(q) = q[1]
BY DEF Member

LEMMA AppendedQueue ==
  ASSUME NEW S, NEW q \in Seq(S), NEW j \in S, ~Member(q, j), NoRepeat(q)
  PROVE  /\ Append(q, j) \in Seq(S) /\ Append(q, j) # <<>>
         /\ NoRepeat(Append(q, j))
         /\ \A k : Member(Append(q, j), k) <=> Member(q, k) \/ k = j
         /\ q # <<>> => Head(Append(q, j)) = Head(q)
<1> DEFINE a == Append(q, j)
<1>1. /\ a \in Seq(S) /\ Len(a) = Len(q) + 1 /\ a # <<>>
      /\ \A i \in 1..Len(q) : a[i] = q[i]
      /\ a[Len(q) + 1] = j
  OBVIOUS
<1>2. DOMAIN a = DOMAIN q \cup {Len(q) + 1} /\ DOMAIN q = 1..Len(q)
  BY <1>1
<1> HIDE DEF a
<1>3. NoRepeat(a)
  BY <1>1, <1>2 DEF NoRepeat, Member
<1>4. \A k : Member(a, k) <=> Member(q, k) \/ k = j
  BY <1>1, <1>2 DEF Member
<1>5. q # <<>> => Head(a) = Head(q)
  <2> HAVE q # <<>>
  <2>1. 1 \in 1..Len(q)
    OBVIOUS
  <2> QED
    BY <1>1, <2>1
<1> QED
  BY <1>1, <1>3, <1>4, <1>5 DEF a

LEMMA DequeuedQueue ==
  ASSUME NEW S, NEW q \in Seq(S), q # <<>>, NoRepeat(q)
  PROVE  /\ Tail(q) \in Seq(S) /\ NoRepeat(Tail(q))
         /\ \A k : Member(Tail(q), k) <=> Member(q, k) /\ k # Head(q)
<1> DEFINE t == Tail(q)
<1>1. /\ t \in Seq(S) /\ Len(t) = Len(q) - 1 /\ Len(q) \in Nat /\ Len(q) > 0
      /\ \A i \in 1..Len(t) : t[i] = q[i + 1]
      /\ DOMAIN t = 1..Len(t) /\ DOMAIN q = 1..Len(q) /\ Head(q) = q[1]
  OBVIOUS
<1> HIDE DEF t
<1>2. NoRepeat(t)
  <2> SUFFICES ASSUME NEW i \in 1..Len(t), NEW k \in 1..Len(t), t[i] = t[k]
               PROVE  i = k
    BY <1>1 DEF NoRepeat
  <2>1. i + 1 \in DOMAIN q /\ k + 1 \in DOMAIN q /\ q[i + 1] = q[k + 1]
    BY <1>1
  <2> QED
    BY <2>1 DEF NoRepeat
<1>3. ASSUME NEW k, Member(t, k)
      PROVE  Member(q, k) /\ k # Head(q)
  <2>1. PICK i \in 1..Len(t) : t[i] = k
    BY <1>1, <1>3 DEF Member
  <2>2. i + 1 \in DOMAIN q /\ q[i + 1] = k /\ 1 \in DOMAIN q /\ i + 1 # 1
    BY <1>1, <2>1
  <2> QED
    BY <1>1, <2>2 DEF Member, NoRepeat
<1>4. ASSUME NEW k, Member(q, k), k # Head(q)
      PROVE  Member(t, k)
  <2>1. PICK i \in 1..Len(q) : q[i] = k
    BY <1>1, <1>4 DEF Member
  <2>2. i # 1
    BY <1>1, <1>4, <2>1
  <2>3. i - 1 \in 1..Len(t) /\ t[i - 1] = k
    BY <1>1, <2>1, <2>2
  <2> QED
    BY <1>1, <2>3 DEF Member
<1> QED
  BY <1>1, <1>2, <1>3, <1>4 DEF t

\* What a call writes shows in its own rows, and nowhere else.
LEMMA RowsOf ==
  ASSUME NEW x \in Content, NEW c \in Calls, NEW n \in 0..2
  PROVE  /\ RowsSet(x, c, n) \in Content
         /\ RowsSet(x, c, n).audience = x.audience
         /\ RowsSet(x, c, n).rows[c] = n
         /\ \A d \in Calls : d # c => RowsSet(x, c, n).rows[d] = x.rows[d]
         /\ \A m \in 0..2 : RowsSet(RowsSet(x, c, n), c, m) = RowsSet(x, c, m)
         /\ x.rows[c] = n => RowsSet(x, c, n) = x
<1>1. RowsSet(x, c, n) = [audience |-> x.audience, rows |-> [x.rows EXCEPT ![c] = n]]
  BY DEF RowsSet, Content
<1> QED
  BY <1>1 DEF RowsSet, Content

LEMMA AudienceOf ==
  ASSUME NEW x \in Content, NEW a \in Audience
  PROVE  /\ AudienceSet(x, a) \in Content
         /\ AudienceSet(x, a).rows = x.rows
         /\ \A b \in Audience : AudienceSet(AudienceSet(x, a), b) = AudienceSet(x, b)
         /\ AudienceSet(x, x.audience) = x
<1>1. \A y \in Content, b \in Audience :
        AudienceSet(y, b) = [audience |-> b, rows |-> y.rows]
  BY DEF AudienceSet, Content
<1>2. AudienceSet(x, a) \in Content /\ AudienceSet(x, a).rows = x.rows
  BY <1>1 DEF Content
<1>3. x = [audience |-> x.audience, rows |-> x.rows] /\ x.audience \in Audience
  BY DEF Content
<1>4. AudienceSet(x, x.audience) = x
  BY <1>1, <1>3
<1>5. ASSUME NEW b \in Audience
      PROVE  AudienceSet(AudienceSet(x, a), b) = AudienceSet(x, b)
  <2>1. AudienceSet(AudienceSet(x, a), b) = [audience |-> b, rows |-> AudienceSet(x, a).rows]
    BY <1>1, <1>2
  <2> QED
    BY <1>1, <1>2, <2>1
<1> QED
  BY <1>2, <1>4, <1>5

LEMMA InitialTyped == Initial \in Content /\ \A c \in Calls : Initial.rows[c] = 0
<1>1. PublicAudience \in Audience
  BY AccessAssumption DEF PublicAudience, Audience
<1> QED
  BY <1>1, GlabAssumption DEF Content

----------------------------------------------------------------------------
(* The inductive invariant *)

LEMMA InitInvariant == Init => GlabInvariant
<1> SUFFICES ASSUME Init
             PROVE  GlabInvariant
  OBVIOUS
<1> USE DEF Init, StoreInit
<1>1. TypeOK
  BY InitialTyped DEF TypeOK, Stages
<1>2. QueuesInOrder
  BY EmptyQueue DEF QueuesInOrder
<1>3. OneTransaction /\ Views
  BY StoreAssumption DEF OneTransaction, Views
<1>4. StagesInStore
  BY GlabAssumption, StoreAssumption, EmptyQueue DEF StagesInStore, InStore, Worked
<1>5. NothingYet /\ Permits /\ AnswerTellsTheTruth
  BY InitialTyped, NoneAssumption DEF NothingYet, Permits, Worked, AnswerTellsTheTruth
<1> QED
  BY <1>1, <1>2, <1>3, <1>4, <1>5 DEF GlabInvariant

\* Where a running job stands.
LEMMA RunningJob ==
  ASSUME GlabInvariant, NEW j \in Jobs, Running(j)
  PROVE  /\ Home[j] \in Processes /\ queue[Home[j]] \in Seq(Jobs)
         /\ queue[Home[j]] # <<>> /\ Head(queue[Home[j]]) = j
         /\ Member(queue[Home[j]], j) /\ NoRepeat(queue[Home[j]])
         /\ answer[j] = None
<1>1. Home[j] \in Processes
  BY StoreAssumption
<1>2. /\ queue[Home[j]] \in Seq(Jobs)
      /\ queue[Home[j]] # <<>> /\ Head(queue[Home[j]]) = j
  BY <1>1 DEF GlabInvariant, TypeOK, Running
<1>3. Member(queue[Home[j]], j)
  BY <1>2, HeadOfQueue
<1> QED
  BY <1>1, <1>2, <1>3 DEF GlabInvariant, QueuesInOrder

\* The job in a transaction: no other process has one.
LEMMA WorkingJob ==
  ASSUME GlabInvariant, NEW j \in Jobs, InWork(j)
  PROVE  /\ conn[Home[j]] \in Transaction
         /\ View(j, conn[Home[j]])
         /\ lock = Home[j]
         /\ \A p \in Processes : p # Home[j] => conn[p] = None
         /\ \A k \in Jobs : InWork(k) => k = j
<1>1. Home[j] \in Processes /\ Head(queue[Home[j]]) = j /\ conn[Home[j]] # None
  BY RunningJob DEF InWork
<1>2. conn[Home[j]] \in Transaction
  BY <1>1 DEF GlabInvariant, TypeOK
<1>3. View(j, conn[Home[j]])
  BY <1>1 DEF GlabInvariant, Views
<1>4. lock = Home[j] /\ \A p \in Processes : p # Home[j] => conn[p] = None
  BY <1>1 DEF GlabInvariant, OneTransaction
<1>5. ASSUME NEW k \in Jobs, InWork(k)
      PROVE  k = j
  <2>1. Home[k] \in Processes /\ Head(queue[Home[k]]) = k /\ conn[Home[k]] # None
    BY <1>5, RunningJob DEF InWork
  <2> QED
    BY <1>1, <1>4, <2>1
<1> QED
  BY <1>2, <1>3, <1>4, <1>5

LEMMA SomeJobs ==
  ASSUME NEW j \in Jobs
  PROVE  /\ j \in Calls <=> j \notin Edits
         /\ Home[j] \in Processes
BY GlabAssumption, StoreAssumption

LEMMA CallsAreJobs == ASSUME NEW c \in Calls PROVE c \in Jobs /\ c \notin Edits
BY GlabAssumption

\* A call that is in the store stays in it, and its transaction goes on.
LEMMA CallWorks ==
  ASSUME GlabInvariant, NEW j \in Calls, InWork(j),
         NEW x \in Transaction, NEW s \in Worked,
         stage[j] \in Worked \/ Admitted(j), InStore(j),
         conn' = [conn EXCEPT ![Home[j]] = x],
         stage' = [stage EXCEPT ![j] = s],
         View(j, x)',
         UNCHANGED <<content, queue, lock, answer, response, consumed>>
  PROVE  GlabInvariant'
<1> USE DEF GlabInvariant
<1>1. /\ j \in Jobs /\ Home[j] \in Processes /\ conn[Home[j]] # None
      /\ lock = Home[j] /\ Head(queue[Home[j]]) = j
      /\ \A p \in Processes : p # Home[j] => conn[p] = None
  BY CallsAreJobs, SomeJobs, WorkingJob, RunningJob DEF InWork
<1>2. x # None
  BY NoneAssumption
<1>3. /\ conn' \in [Processes -> Transaction \cup {None}] /\ conn'[Home[j]] = x
      /\ \A p \in Processes : p # Home[j] => conn'[p] = conn[p]
  BY <1>1 DEF TypeOK
<1>4. /\ stage' \in [Calls -> Stages] /\ stage'[j] = s
      /\ \A c \in Calls : c # j => stage'[c] = stage[c]
  BY DEF TypeOK, Stages, Worked
<1>5. TypeOK'
  BY <1>3, <1>4 DEF TypeOK
<1>6. QueuesInOrder'
  BY DEF QueuesInOrder
<1>7. OneTransaction'
  BY <1>1, <1>2, <1>3 DEF OneTransaction
<1>8. StagesInStore'
  <2> SUFFICES ASSUME NEW c \in Calls
               PROVE  /\ InStore(c)' <=> Member(queue[Home[c]], c)
                      /\ stage'[c] \in Worked => InWork(c)'
    BY DEF StagesInStore
  <2>1. Home[c] \in Processes
    BY CallsAreJobs, SomeJobs
  <2>2. InWork(c) => InWork(c)'
    BY <1>2, <1>3, <2>1 DEF InWork, Running
  <2>3. CASE c = j
    BY <1>4, <2>2, <2>3 DEF StagesInStore, InStore, Worked
  <2>4. CASE c # j
    BY <1>4, <2>2, <2>4 DEF StagesInStore, InStore
  <2> QED
    BY <2>3, <2>4
<1>9. Views'
  BY <1>1, <1>3 DEF Views
<1>10. NothingYet'
  BY <1>4 DEF NothingYet, InStore
<1>11. Permits'
  BY <1>4 DEF Permits, Admitted, InStore, Worked
<1>12. AnswerTellsTheTruth'
  BY DEF AnswerTellsTheTruth
<1> QED
  BY <1>5, <1>6, <1>7, <1>8, <1>9, <1>10, <1>11, <1>12

\* An edit writes, or is begun, or a call is begun: no stage changes.
LEMMA TransactionGoes ==
  ASSUME GlabInvariant, NEW j \in Jobs, Running(j),
         NEW x \in Transaction,
         lock = None \/ lock = Home[j],
         conn' = [conn EXCEPT ![Home[j]] = x], lock' = Home[j],
         View(j, x),
         UNCHANGED <<content, queue, answer, stage, response, consumed>>
  PROVE  GlabInvariant'
<1> USE DEF GlabInvariant
<1>1. Home[j] \in Processes /\ queue[Home[j]] # <<>> /\ Head(queue[Home[j]]) = j
  BY RunningJob
<1>2. x # None
  BY NoneAssumption
<1>3. /\ conn' \in [Processes -> Transaction \cup {None}] /\ conn'[Home[j]] = x
      /\ \A p \in Processes : p # Home[j] => conn'[p] = conn[p]
  BY <1>1 DEF TypeOK
<1>4. \A p \in Processes : p # Home[j] => conn[p] = None
  BY StoreAssumption DEF OneTransaction
<1>5. TypeOK'
  BY <1>1, <1>3 DEF TypeOK
<1>6. QueuesInOrder'
  BY DEF QueuesInOrder
<1>7. OneTransaction'
  BY <1>1, <1>2, <1>3, <1>4 DEF OneTransaction
<1>8. StagesInStore'
  <2> SUFFICES ASSUME NEW c \in Calls, stage[c] \in Worked
               PROVE  InWork(c)'
    BY DEF StagesInStore, InStore
  <2>1. Home[c] \in Processes /\ InWork(c)
    BY CallsAreJobs, SomeJobs DEF StagesInStore
  <2> QED
    BY <1>2, <1>3, <2>1 DEF InWork, Running
<1>9. Views'
  <2>1. View(j, x)'
    BY DEF View
  <2> QED
    BY <1>1, <1>3, <1>4, <2>1 DEF Views
<1>10. NothingYet' /\ Permits' /\ AnswerTellsTheTruth'
  BY DEF NothingYet, Permits, Admitted, AnswerTellsTheTruth
<1> QED
  BY <1>5, <1>6, <1>7, <1>8, <1>9, <1>10

\* A job ends: what it leaves in the tables is its own, and only what it did
\* in its transaction.
LEMMA JobEnds ==
  ASSUME GlabInvariant, NEW j \in Jobs, Running(j),
         NEW a \in {"done", "failed", "unknown"}, Ends(j, a), Dequeues(j),
         content' \in Content,
         content' = content \/ InWork(j),
         \A c \in Calls : c # j => content'.rows[c] = content.rows[c],
         NEW r \in {"ok", "refused", "unconfirmed"},
         j \in Calls => /\ stage' = [stage EXCEPT ![j] = "answered"]
                        /\ response' = [response EXCEPT ![j] = r]
                        /\ r = "ok" => content'.rows[j] = 2
                        /\ r = "refused" => content'.rows[j] = 0,
         j \in Edits => UNCHANGED <<stage, response>>,
         UNCHANGED consumed
  PROVE  GlabInvariant'
<1> DEFINE p == Home[j]
<1> USE DEF GlabInvariant
<1>1. /\ p \in Processes /\ queue[p] \in Seq(Jobs) /\ queue[p] # <<>>
      /\ Head(queue[p]) = j /\ Member(queue[p], j) /\ NoRepeat(queue[p])
  BY RunningJob
<1>2. /\ queue' \in [Processes -> Seq(Jobs)] /\ queue'[p] = Tail(queue[p])
      /\ \A o \in Processes : o # p => queue'[o] = queue[o]
  BY <1>1, DequeuedQueue DEF Dequeues, TypeOK
<1>3. /\ NoRepeat(queue'[p])
      /\ \A k : Member(queue'[p], k) <=> Member(queue[p], k) /\ k # j
  BY <1>1, <1>2, DequeuedQueue
<1>4. /\ conn' \in [Processes -> Transaction \cup {None}] /\ conn'[p] = None
      /\ \A o \in Processes : o # p => conn'[o] = conn[o]
      /\ lock' = IF lock = p THEN None ELSE lock
      /\ answer' \in [Jobs -> {None, "done", "failed", "unknown"}]
      /\ \A k \in Jobs : k # j => answer'[k] = answer[k]
  BY <1>1 DEF Ends, TypeOK
<1>5. /\ stage' \in [Calls -> Stages]
      /\ \A c \in Calls : c # j => stage'[c] = stage[c]
      /\ j \in Calls => stage'[j] = "answered"
  BY SomeJobs DEF TypeOK, Stages
<1>6. /\ response' \in [Calls -> {None, "ok", "refused", "unconfirmed", "none"}]
      /\ \A c \in Calls : c # j => response'[c] = response[c]
      /\ j \in Calls => response'[j] = r
  BY SomeJobs DEF TypeOK
<1> HIDE DEF p
<1>7. TypeOK'
  <2>1. lock' \in Processes \cup {None}
    BY <1>4 DEF TypeOK
  <2> QED
    BY <1>2, <1>4, <1>5, <1>6, <2>1 DEF TypeOK
<1>8. QueuesInOrder'
  <2> SUFFICES ASSUME NEW o \in Processes
               PROVE  /\ NoRepeat(queue'[o])
                      /\ \A k \in Jobs : Member(queue'[o], k) =>
                           Home[k] = o /\ answer'[k] = None
    BY DEF QueuesInOrder
  <2>1. CASE o = p
    BY <1>3, <1>4, <2>1 DEF QueuesInOrder
  <2>2. CASE o # p
    BY <1>2, <1>4, <2>2 DEF QueuesInOrder, p
  <2> QED
    BY <2>1, <2>2
<1>9. OneTransaction'
  <2>1. ASSUME NEW o \in Processes, o # p
        PROVE  /\ conn'[o] # None <=> lock' = o
               /\ conn'[o] # None => queue'[o] # <<>>
    BY <1>2, <1>4, <2>1, StoreAssumption DEF OneTransaction
  <2>2. lock' # p
    BY <1>1, <1>4, StoreAssumption
  <2> QED
    BY <1>4, <2>1, <2>2 DEF OneTransaction
<1>10. \A c \in Calls : c # j => (InWork(c) => InWork(c)')
  <2> SUFFICES ASSUME NEW c \in Calls, c # j, InWork(c)
               PROVE  InWork(c)'
    OBVIOUS
  <2>1. c \in Jobs /\ Home[c] \in Processes /\ Head(queue[Home[c]]) = c
        /\ conn[Home[c]] # None
    BY CallsAreJobs, RunningJob DEF InWork
  <2>2. Home[c] # p
    BY <1>1, <2>1
  <2> QED
    BY <1>2, <1>4, <2>1, <2>2 DEF InWork, Running
<1>11. StagesInStore'
  <2> SUFFICES ASSUME NEW c \in Calls
               PROVE  /\ InStore(c)' <=> Member(queue'[Home[c]], c)
                      /\ stage'[c] \in Worked => InWork(c)'
    BY DEF StagesInStore
  <2>1. c \in Jobs /\ Home[c] \in Processes
    BY CallsAreJobs, SomeJobs
  <2>2. CASE c = j
    BY <1>3, <1>5, <2>2 DEF InStore, Worked, p
  <2>3. CASE c # j
    BY <1>2, <1>3, <1>5, <1>10, <2>1, <2>3 DEF InStore, StagesInStore
  <2> QED
    BY <2>2, <2>3
<1>12. Views'
  <2> SUFFICES ASSUME NEW o \in Processes, conn'[o] # None
               PROVE  View(Head(queue[o]), conn[o])' 
    BY DEF Views
  <2>1. o # p /\ conn[o] # None /\ queue'[o] = queue[o] /\ conn'[o] = conn[o]
    BY <1>2, <1>4
  <2>2. content' = content
    BY <2>1, WorkingJob DEF p
  <2>3. Head(queue[o]) \in Jobs /\ Home[Head(queue[o])] = o
    BY <2>1, HeadOfQueue DEF OneTransaction, QueuesInOrder, TypeOK
  <2>4. Head(queue[o]) # j
    BY <2>1, <2>3 DEF p
  <2>5. View(Head(queue[o]), conn[o])
    BY <2>1 DEF Views
  <2> QED
    BY <1>5, <2>1, <2>2, <2>4, <2>5 DEF View
<1>13. NothingYet'
  BY <1>5 DEF NothingYet
<1>14. Permits'
  <2> SUFFICES ASSUME NEW c \in Calls
               PROVE  /\ stage'[c] \notin {"new", "captured", "answered"} =>
                           consumed[Token[c]] = c
                      /\ stage'[c] \in Worked => Admitted(c)'
    BY DEF Permits
  <2>1. CASE c = j
    BY <1>5, <2>1 DEF Worked
  <2>2. CASE c # j
    <3>1. stage[c] \in Worked => content' = content
      BY <2>2, CallsAreJobs, WorkingJob DEF StagesInStore
    <3> QED
      BY <1>5, <2>2, <3>1 DEF Permits, Admitted
  <2> QED
    BY <2>1, <2>2
<1>15. AnswerTellsTheTruth'
  BY <1>6 DEF AnswerTellsTheTruth
<1> QED
  BY <1>7, <1>8, <1>9, <1>11, <1>12, <1>13, <1>14, <1>15

\* A job is put at the end of its queue.
LEMMA JobSubmitted ==
  ASSUME GlabInvariant, NEW j \in Jobs, Submit(j), ~Member(queue[Home[j]], j),
         j \in Calls => /\ stage[j] = "consumed"
                        /\ stage' = [stage EXCEPT ![j] = "queued"],
         j \in Edits => UNCHANGED stage,
         UNCHANGED <<response, consumed>>
  PROVE  GlabInvariant'
<1> DEFINE p == Home[j]
<1> USE DEF GlabInvariant
<1>1. p \in Processes /\ queue[p] \in Seq(Jobs) /\ NoRepeat(queue[p])
  BY StoreAssumption DEF TypeOK, QueuesInOrder
<1>2. /\ queue' \in [Processes -> Seq(Jobs)] /\ queue'[p] = Append(queue[p], j)
      /\ \A o \in Processes : o # p => queue'[o] = queue[o]
      /\ UNCHANGED <<content, conn, lock, answer>> /\ answer[j] = None
  BY <1>1, AppendedQueue DEF Submit, TypeOK
<1>3. /\ NoRepeat(queue'[p]) /\ queue'[p] # <<>>
      /\ \A k : Member(queue'[p], k) <=> Member(queue[p], k) \/ k = j
      /\ queue[p] # <<>> => Head(queue'[p]) = Head(queue[p])
  BY <1>1, <1>2, AppendedQueue
<1>4. /\ stage' \in [Calls -> Stages]
      /\ \A c \in Calls : c # j => stage'[c] = stage[c]
      /\ j \in Calls => stage'[j] = "queued"
  BY SomeJobs DEF TypeOK, Stages
<1> HIDE DEF p
<1>5. TypeOK'
  BY <1>2, <1>4 DEF TypeOK
<1>6. QueuesInOrder'
  <2> SUFFICES ASSUME NEW o \in Processes
               PROVE  /\ NoRepeat(queue'[o])
                      /\ \A k \in Jobs : Member(queue'[o], k) =>
                           Home[k] = o /\ answer[k] = None
    BY <1>2 DEF QueuesInOrder
  <2>1. CASE o = p
    BY <1>2, <1>3, <2>1 DEF QueuesInOrder, p
  <2>2. CASE o # p
    BY <1>2, <2>2 DEF QueuesInOrder
  <2> QED
    BY <2>1, <2>2
<1>7. OneTransaction'
  BY <1>2, <1>3 DEF OneTransaction
<1>8. StagesInStore'
  <2> SUFFICES ASSUME NEW c \in Calls
               PROVE  /\ InStore(c)' <=> Member(queue'[Home[c]], c)
                      /\ stage'[c] \in Worked => InWork(c)'
    BY DEF StagesInStore
  <2>1. c \in Jobs /\ Home[c] \in Processes
    BY CallsAreJobs, SomeJobs
  <2>2. CASE c = j
    BY <1>3, <1>4, <2>2 DEF InStore, Worked, p
  <2>3. CASE c # j
    <3>1. InWork(c) => InWork(c)'
      BY <1>2, <1>3, <2>1 DEF InWork, Running
    <3> QED
      BY <1>2, <1>3, <1>4, <2>1, <2>3, <3>1 DEF InStore, StagesInStore
  <2> QED
    BY <2>2, <2>3
<1>9. Views'
  <2> SUFFICES ASSUME NEW o \in Processes, conn[o] # None
               PROVE  View(Head(queue[o]), conn[o])'
    BY <1>2 DEF Views
  <2>1. Head(queue'[o]) = Head(queue[o]) /\ View(Head(queue[o]), conn[o])
    BY <1>2, <1>3 DEF OneTransaction, Views
  <2>2. Member(queue[o], Head(queue[o])) /\ Head(queue[o]) \in Jobs
    BY HeadOfQueue DEF OneTransaction, TypeOK
  <2>3. Head(queue[o]) # j
    BY <2>2 DEF QueuesInOrder
  <2> QED
    BY <1>2, <1>4, <2>1, <2>3 DEF View
<1>10. NothingYet' /\ Permits' /\ AnswerTellsTheTruth'
  BY <1>2, <1>4 DEF NothingYet, Permits, Admitted, AnswerTellsTheTruth, Worked
<1> QED
  BY <1>5, <1>6, <1>7, <1>8, <1>9, <1>10

----------------------------------------------------------------------------
(* The gate, and the world around the calls *)

\* A call that is not in the store moves outside of it.
LEMMA CallOutside ==
  ASSUME GlabInvariant, NEW c \in Calls, ~InStore(c), stage[c] # "answered",
         NEW s \in {"captured", "consumed", "answered"},
         stage' = [stage EXCEPT ![c] = s],
         IF s = "answered" THEN response' = [response EXCEPT ![c] = "refused"]
                           ELSE UNCHANGED response,
         consumed' \in [Tokens -> Calls \cup {None}],
         \A d \in Calls : stage[d] \notin {"new", "captured", "answered"} =>
           consumed'[Token[d]] = d,
         s = "consumed" => consumed'[Token[c]] = c,
         UNCHANGED storeVars
  PROVE  GlabInvariant'
<1> USE DEF GlabInvariant, storeVars
<1>1. /\ stage' \in [Calls -> Stages] /\ stage'[c] = s
      /\ \A d \in Calls : d # c => stage'[d] = stage[d]
  BY DEF TypeOK, Stages
<1>2. /\ response' \in [Calls -> {None, "ok", "refused", "unconfirmed", "none"}]
      /\ \A d \in Calls : d # c => response'[d] = response[d]
      /\ s = "answered" => response'[c] = "refused"
      /\ s # "answered" => response'[c] = response[c]
  BY DEF TypeOK
<1>3. TypeOK'
  BY <1>1, <1>2 DEF TypeOK
<1>4. QueuesInOrder' /\ OneTransaction'
  BY DEF QueuesInOrder, OneTransaction
<1>5. StagesInStore'
  <2> SUFFICES ASSUME NEW d \in Calls
               PROVE  /\ InStore(d)' <=> Member(queue[Home[d]], d)
                      /\ stage'[d] \in Worked => InWork(d)'
    BY DEF StagesInStore
  <2>1. InWork(d) => InWork(d)'
    BY DEF InWork, Running
  <2>2. CASE d = c
    BY <1>1, <2>2 DEF StagesInStore, InStore, Worked
  <2>3. CASE d # c
    BY <1>1, <2>1, <2>3 DEF StagesInStore, InStore
  <2> QED
    BY <2>2, <2>3
<1>6. Views'
  <2> SUFFICES ASSUME NEW o \in Processes, conn[o] # None
               PROVE  View(Head(queue[o]), conn[o])'
    BY DEF Views
  <2>1. Member(queue[o], Head(queue[o])) /\ Head(queue[o]) \in Jobs
    BY HeadOfQueue DEF OneTransaction, TypeOK
  <2>2. Home[Head(queue[o])] = o
    BY <2>1 DEF QueuesInOrder
  <2>3. Head(queue[o]) # c
    BY <2>1, <2>2 DEF StagesInStore
  <2> QED
    BY <1>1, <2>3 DEF View, Views
<1>7. NothingYet' /\ AnswerTellsTheTruth'
  BY <1>1, <1>2 DEF NothingYet, AnswerTellsTheTruth
<1>8. Permits'
  BY <1>1 DEF Permits, Admitted, Worked
<1> QED
  BY <1>3, <1>4, <1>5, <1>6, <1>7, <1>8

LEMMA GateSteps ==
  ASSUME GlabInvariant, NEW c \in Calls, Gate(c)
  PROVE  GlabInvariant'
<1> USE DEF Goes, Answers
<1>1. CASE CaptureBody(c)
  BY <1>1, CallOutside DEF CaptureBody, InStore, GlabInvariant, TypeOK, Permits
<1>2. CASE Consume(c)
  <2>1. CASE consumed[Token[c]] = None /\ clock < Deadline[Token[c]]
    <3>1. /\ stage[c] = "captured" /\ stage' = [stage EXCEPT ![c] = "consumed"]
          /\ consumed' = [consumed EXCEPT ![Token[c]] = c]
          /\ UNCHANGED <<storeVars, response>>
      BY <1>2, <2>1 DEF Consume
    <3>2. Token[c] \in Tokens /\ consumed \in [Tokens -> Calls \cup {None}]
      BY GlabAssumption DEF GlabInvariant, TypeOK
    <3>3. /\ consumed' \in [Tokens -> Calls \cup {None}] /\ consumed'[Token[c]] = c
          /\ \A t \in Tokens : t # Token[c] => consumed'[t] = consumed[t]
      BY <3>1, <3>2
    <3>4. \A d \in Calls : stage[d] \notin {"new", "captured", "answered"} =>
            consumed'[Token[d]] = d
      BY <2>1, <3>3, GlabAssumption, NoneAssumption DEF GlabInvariant, Permits
    <3> QED
      BY <3>1, <3>3, <3>4, CallOutside DEF InStore
  <2>2. CASE ~(consumed[Token[c]] = None /\ clock < Deadline[Token[c]])
    BY <1>2, <2>2, CallOutside DEF Consume, InStore, GlabInvariant, TypeOK, Permits
  <2> QED
    BY <2>1, <2>2
<1>3. CASE ConsumeLost(c)
  BY <1>3, CallOutside DEF ConsumeLost, InStore, GlabInvariant, TypeOK, Permits
<1>4. CASE Execute(c)
  <2>1. CASE Active(c)
    <3>1. c \in Jobs /\ c \notin Edits
      BY CallsAreJobs
    <3>2. ~Member(queue[Home[c]], c)
      BY <1>4 DEF Execute, InStore, GlabInvariant, StagesInStore
    <3> QED
      BY <1>4, <2>1, <3>1, <3>2, JobSubmitted DEF Execute
  <2>2. CASE ~Active(c)
    BY <1>4, <2>2, CallOutside DEF Execute, InStore, GlabInvariant, TypeOK, Permits
  <2> QED
    BY <2>1, <2>2
<1> QED
  BY <1>1, <1>2, <1>3, <1>4 DEF Gate

LEMMA EditSubmittedStep ==
  ASSUME GlabInvariant, NEW e \in Edits, EditSubmitted(e)
  PROVE  GlabInvariant'
<1>1. e \in Jobs /\ e \notin Calls /\ Home[e] \in Processes
  BY GlabAssumption, StoreAssumption
<1>2. ~Member(queue[Home[e]], e)
  BY <1>1 DEF EditSubmitted, Member
<1> QED
  BY <1>1, <1>2, JobSubmitted DEF EditSubmitted, glabVars

\* Only the clock and the clients change.
LEMMA RestStep ==
  ASSUME GlabInvariant, UNCHANGED <<storeVars, stage, response, consumed>>
  PROVE  GlabInvariant'
<1> USE DEF GlabInvariant, storeVars
<1>1. TypeOK' /\ QueuesInOrder' /\ OneTransaction'
  BY DEF TypeOK, QueuesInOrder, OneTransaction
<1>2. StagesInStore'
  BY DEF StagesInStore, InStore, InWork, Running
<1>3. Views'
  BY DEF Views, View
<1>4. NothingYet' /\ Permits' /\ AnswerTellsTheTruth'
  BY DEF NothingYet, Permits, Admitted, AnswerTellsTheTruth
<1> QED
  BY <1>1, <1>2, <1>3, <1>4

LEMMA CrashStep ==
  ASSUME GlabInvariant, NEW p \in Processes, ProcessDies(p)
  PROVE  GlabInvariant'
<1> USE DEF GlabInvariant
<1>1. /\ queue' \in [Processes -> Seq(Jobs)] /\ queue'[p] = <<>>
      /\ \A o \in Processes : o # p => queue'[o] = queue[o]
      /\ conn' \in [Processes -> Transaction \cup {None}] /\ conn'[p] = None
      /\ \A o \in Processes : o # p => conn'[o] = conn[o]
      /\ lock' = IF lock = p THEN None ELSE lock
      /\ UNCHANGED <<content, consumed>>
  BY DEF ProcessDies, Crash, TypeOK
<1>2. answer' = [j \in Jobs |-> IF Member(queue[p], j) THEN "unknown" ELSE answer[j]]
  BY DEF ProcessDies, Crash, Member
<1>3. /\ stage' \in [Calls -> Stages]
      /\ \A c \in Calls : Home[c] = p => stage'[c] \in {"new", "answered"}
      /\ \A c \in Calls : Home[c] # p => stage'[c] = stage[c]
      /\ \A c \in Calls : stage[c] = "answered" <=> (stage'[c] = "answered" /\
           ~(Home[c] = p /\ stage[c] \notin {"new", "answered"}))
      /\ \A c \in Calls : stage'[c] = "new" => stage[c] = "new"
  BY DEF ProcessDies, TypeOK, Stages
<1>4. /\ response' \in [Calls -> {None, "ok", "refused", "unconfirmed", "none"}]
      /\ \A c \in Calls : response'[c] \in {"none", response[c]}
  BY DEF ProcessDies, TypeOK
<1>5. TypeOK'
  <2>1. lock' \in Processes \cup {None}
    BY <1>1 DEF TypeOK
  <2>2. answer' \in [Jobs -> {None, "done", "failed", "unknown"}]
    BY <1>2 DEF TypeOK
  <2> QED
    BY <1>1, <1>3, <1>4, <2>1, <2>2 DEF TypeOK
<1>6. QueuesInOrder'
  <2> SUFFICES ASSUME NEW o \in Processes
               PROVE  /\ NoRepeat(queue'[o])
                      /\ \A k \in Jobs : Member(queue'[o], k) =>
                           Home[k] = o /\ answer'[k] = None
    BY DEF QueuesInOrder
  <2>1. CASE o = p
    BY <1>1, <2>1, EmptyQueue
  <2>2. CASE o # p
    BY <1>1, <1>2, <2>2 DEF QueuesInOrder
  <2> QED
    BY <2>1, <2>2
<1>7. OneTransaction'
  <2>1. ASSUME NEW o \in Processes, o # p
        PROVE  /\ conn'[o] # None <=> lock' = o
               /\ conn'[o] # None => queue'[o] # <<>>
    BY <1>1, <2>1, StoreAssumption DEF OneTransaction
  <2>2. lock' # p
    BY <1>1, StoreAssumption
  <2> QED
    BY <1>1, <2>1, <2>2 DEF OneTransaction
<1>8. StagesInStore'
  <2> SUFFICES ASSUME NEW c \in Calls
               PROVE  /\ InStore(c)' <=> Member(queue'[Home[c]], c)
                      /\ stage'[c] \in Worked => InWork(c)'
    BY DEF StagesInStore
  <2>1. Home[c] \in Processes
    BY CallsAreJobs, SomeJobs
  <2>2. CASE Home[c] = p
    BY <1>1, <1>3, <2>2, EmptyQueue DEF InStore, Worked
  <2>3. CASE Home[c] # p
    <3>1. InWork(c) => InWork(c)'
      BY <1>1, <2>1, <2>3 DEF InWork, Running
    <3> QED
      BY <1>1, <1>3, <2>1, <2>3, <3>1 DEF InStore, StagesInStore
  <2> QED
    BY <2>2, <2>3
<1>9. Views'
  <2> SUFFICES ASSUME NEW o \in Processes, conn'[o] # None
               PROVE  View(Head(queue[o]), conn[o])'
    BY DEF Views
  <2>1. o # p /\ conn[o] # None /\ queue'[o] = queue[o] /\ conn'[o] = conn[o]
    BY <1>1
  <2>2. Head(queue[o]) \in Jobs /\ Home[Head(queue[o])] = o
    BY <2>1, HeadOfQueue DEF OneTransaction, QueuesInOrder, TypeOK
  <2>3. View(Head(queue[o]), conn[o])
    BY <2>1 DEF Views
  <2> QED
    BY <1>1, <1>3, <2>1, <2>2, <2>3 DEF View
<1>10. NothingYet'
  BY <1>1, <1>3 DEF NothingYet
<1>11. Permits'
  BY <1>1, <1>3 DEF Permits, Admitted, Worked
<1>12. AnswerTellsTheTruth'
  BY <1>1, <1>4 DEF AnswerTellsTheTruth
<1> QED
  BY <1>5, <1>6, <1>7, <1>8, <1>9, <1>10, <1>11, <1>12

----------------------------------------------------------------------------
(* The work of a call *)

\* A call that has its transaction: what it sees at each stage.
LEMMA CallInWork ==
  ASSUME GlabInvariant, NEW c \in Calls, InWork(c), stage[c] # "answered"
  PROVE  /\ c \in Jobs /\ c \notin Edits /\ Home[c] \in Processes
         /\ conn[Home[c]] \in Transaction /\ content \in Content
         /\ content.rows[c] = 0 /\ lock = Home[c]
         /\ View(c, conn[Home[c]])
         /\ RowsSet(content, c, 1) \in Content /\ RowsSet(content, c, 2) \in Content
         /\ RowsSet(content, c, 1).rows[c] = 1 /\ RowsSet(content, c, 2).rows[c] = 2
         /\ RowsSet(RowsSet(content, c, 1), c, 2) = RowsSet(content, c, 2)
         /\ \A d \in Calls : d # c => RowsSet(content, c, 2).rows[d] = content.rows[d]
<1>1. c \in Jobs /\ c \notin Edits /\ Home[c] \in Processes
  BY CallsAreJobs, SomeJobs
<1>2. /\ content \in Content /\ content.rows[c] = 0
  BY DEF GlabInvariant, TypeOK, NothingYet
<1> QED
  BY <1>1, <1>2, WorkingJob, RowsOf

\* The transaction of a call is replaced by x, at the stage s.
LEMMA CallGoesOn ==
  ASSUME GlabInvariant, NEW c \in Calls, InWork(c), InStore(c),
         stage[c] \in Worked \/ Admitted(c),
         NEW x \in Transaction, NEW s \in Worked,
         conn' = [conn EXCEPT ![Home[c]] = x], stage' = [stage EXCEPT ![c] = s],
         s = "handler" => x.saved = <<>> /\ x.now \in {content, RowsSet(content, c, 1)},
         s = "thrown" => x.saved = <<>>,
         s = "nested" =>
           /\ x.saved = <<RowsSet(content, c, 1)>>
           /\ x.now \in {RowsSet(content, c, 1), RowsSet(content, c, 2)},
         s = "handled" => x.saved = <<>> /\ x.now = RowsSet(content, c, 2),
         UNCHANGED <<content, queue, lock, answer, response, consumed>>
  PROVE  GlabInvariant'
<1>1. stage'[c] = s /\ c \notin Edits
  BY CallsAreJobs DEF GlabInvariant, TypeOK
<1>2. View(c, x)'
  BY <1>1 DEF View, Worked
<1> QED
  BY <1>2, CallWorks

LEMMA AdmitStep ==
  ASSUME GlabInvariant, NEW c \in Calls, Admit(c)
  PROVE  GlabInvariant'
<1>1. stage[c] = "queued" /\ InWork(c) /\ InStore(c)
  BY DEF Admit, InStore
<1>2. /\ c \in Jobs /\ c \notin Edits /\ conn[Home[c]] \in Transaction
      /\ conn[Home[c]].saved = <<>> /\ conn[Home[c]].now = content
      /\ content.rows[c] = 0 /\ content \in Content
  BY <1>1, CallInWork DEF View
<1>3. CASE ContextHolds(c) /\ MayOperate(c) /\ Active(c)
  <2>1. PICK x \in Transaction : x = conn[Home[c]]
    BY <1>2
  <2>2. Admitted(c)
    BY <1>2, <1>3 DEF MayOperate, Seen, Admitted
  <2>3. conn' = [conn EXCEPT ![Home[c]] = x]
    BY <1>3, <2>1 DEF Admit, storeVars, GlabInvariant, TypeOK
  <2>4. /\ stage' = [stage EXCEPT ![c] = "handler"]
        /\ UNCHANGED <<content, queue, lock, answer, response, consumed>>
    BY <1>3 DEF Admit, Goes, storeVars
  <2> QED
    BY <1>1, <1>2, <2>1, <2>2, <2>3, <2>4, CallGoesOn DEF Worked
<1>4. CASE ~(ContextHolds(c) /\ MayOperate(c) /\ Active(c))
  BY <1>1, <1>2, <1>4, JobEnds DEF Admit, Rejects, Rollback, Answers, InWork
<1> QED
  BY <1>3, <1>4

LEMMA FirstRowStep ==
  ASSUME GlabInvariant, NEW c \in Calls, FirstRow(c)
  PROVE  GlabInvariant'
<1>1. stage[c] = "handler" /\ InWork(c) /\ InStore(c)
  BY DEF FirstRow, Write, InStore
<1>2. /\ conn[Home[c]] \in Transaction /\ Home[c] \in Processes
      /\ conn[Home[c]].saved = <<>>
      /\ conn[Home[c]].now \in {content, RowsSet(content, c, 1)}
      /\ content.rows[c] = 0 /\ RowsSet(content, c, 1) \in Content
      /\ RowsSet(content, c, 1).rows[c] = 1
  BY <1>1, CallInWork DEF View
<1>3. Rows(c, 1) = RowsSet(content, c, 1)
  BY <1>2 DEF FirstRow, Seen, Rows, RowsSet
<1>4. PICK x : x = [now |-> RowsSet(content, c, 1), saved |-> <<>>]
  OBVIOUS
<1>5. x \in Transaction /\ x.saved = <<>> /\ x.now = RowsSet(content, c, 1)
  BY <1>2, <1>4 DEF Transaction
<1>6. x = [conn[Home[c]] EXCEPT !.now = Rows(c, 1)]
  BY <1>2, <1>3, <1>4 DEF Transaction
<1>7. conn' = [conn EXCEPT ![Home[c]] = x]
  BY <1>6 DEF FirstRow, Write
<1>8. /\ stage' = [stage EXCEPT ![c] = "handler"]
      /\ UNCHANGED <<content, queue, lock, answer, response, consumed>>
  BY <1>1 DEF FirstRow, Write, glabVars, GlabInvariant, TypeOK
<1> QED
  BY <1>1, <1>5, <1>7, <1>8, CallGoesOn DEF Worked

LEMMA EntersStep ==
  ASSUME GlabInvariant, NEW c \in Calls, Enters(c)
  PROVE  GlabInvariant'
<1>1. stage[c] = "handler" /\ InWork(c) /\ InStore(c)
  BY DEF Enters, Nest, InStore
<1>2. /\ conn[Home[c]] \in Transaction /\ Home[c] \in Processes
      /\ conn[Home[c]].saved = <<>>
      /\ conn[Home[c]].now \in {content, RowsSet(content, c, 1)}
      /\ content.rows[c] = 0 /\ RowsSet(content, c, 1) \in Content
  BY <1>1, CallInWork DEF View
<1>3. Seen(c) = RowsSet(content, c, 1) /\ Seen(c) = conn[Home[c]].now
  BY <1>2 DEF Enters, Seen
<1>4. PICK x : x = [now |-> RowsSet(content, c, 1), saved |-> <<RowsSet(content, c, 1)>>]
  OBVIOUS
<1>5. /\ x \in Transaction /\ x.saved = <<RowsSet(content, c, 1)>>
      /\ x.now = RowsSet(content, c, 1)
  BY <1>2, <1>4 DEF Transaction
<1>6. x = [conn[Home[c]] EXCEPT !.saved = Append(@, Seen(c))]
  BY <1>2, <1>3, <1>4 DEF Transaction
<1>7. conn' = [conn EXCEPT ![Home[c]] = x]
  BY <1>6 DEF Enters, Nest
<1>8. /\ stage' = [stage EXCEPT ![c] = "nested"]
      /\ UNCHANGED <<content, queue, lock, answer, response, consumed>>
  BY <1>1 DEF Enters, Nest, Goes
<1> QED
  BY <1>1, <1>5, <1>7, <1>8, CallGoesOn DEF Worked

LEMMA SecondRowStep ==
  ASSUME GlabInvariant, NEW c \in Calls, SecondRow(c)
  PROVE  GlabInvariant'
<1>1. stage[c] = "nested" /\ InWork(c) /\ InStore(c)
  BY DEF SecondRow, Write, InStore
<1>2. /\ conn[Home[c]] \in Transaction /\ Home[c] \in Processes
      /\ conn[Home[c]].saved = <<RowsSet(content, c, 1)>>
      /\ conn[Home[c]].now \in {RowsSet(content, c, 1), RowsSet(content, c, 2)}
      /\ RowsSet(content, c, 2) \in Content /\ RowsSet(content, c, 1) \in Content
      /\ RowsSet(content, c, 2).rows[c] = 2
      /\ RowsSet(RowsSet(content, c, 1), c, 2) = RowsSet(content, c, 2)
  BY <1>1, CallInWork DEF View
<1>3. Rows(c, 2) = RowsSet(content, c, 2)
  BY <1>2 DEF SecondRow, Seen, Rows, RowsSet
<1>4. PICK x : x = [now |-> RowsSet(content, c, 2), saved |-> <<RowsSet(content, c, 1)>>]
  OBVIOUS
<1>5. /\ x \in Transaction /\ x.saved = <<RowsSet(content, c, 1)>>
      /\ x.now = RowsSet(content, c, 2)
  BY <1>2, <1>4 DEF Transaction
<1>6. x = [conn[Home[c]] EXCEPT !.now = Rows(c, 2)]
  BY <1>2, <1>3, <1>4 DEF Transaction
<1>7. conn' = [conn EXCEPT ![Home[c]] = x]
  BY <1>6 DEF SecondRow, Write
<1>8. /\ stage' = [stage EXCEPT ![c] = "nested"]
      /\ UNCHANGED <<content, queue, lock, answer, response, consumed>>
  BY <1>1 DEF SecondRow, Write, glabVars, GlabInvariant, TypeOK
<1> QED
  BY <1>1, <1>5, <1>7, <1>8, CallGoesOn DEF Worked

\* With one savepoint, the innermost is it, and none is left behind it.
LEMMA OneSavepoint ==
  ASSUME NEW x
  PROVE  Len(<<x>>) = 1 /\ <<x>>[1] = x /\ SubSeq(<<x>>, 1, 0) = <<>>
OBVIOUS

LEMMA HandledStep ==
  ASSUME GlabInvariant, NEW c \in Calls, Handled(c)
  PROVE  GlabInvariant'
<1>1. stage[c] = "nested" /\ InWork(c) /\ InStore(c)
  BY DEF Handled, Release, InStore
<1>2. /\ conn[Home[c]] \in Transaction /\ Home[c] \in Processes
      /\ conn[Home[c]].saved = <<RowsSet(content, c, 1)>>
      /\ conn[Home[c]].now \in {RowsSet(content, c, 1), RowsSet(content, c, 2)}
      /\ RowsSet(content, c, 2) \in Content /\ RowsSet(content, c, 1).rows[c] = 1
  BY <1>1, CallInWork DEF View
<1>3. conn[Home[c]].now = RowsSet(content, c, 2) /\ Depth(c) = 1
  BY <1>2, OneSavepoint DEF Handled, Seen, Depth
<1>4. PICK x : x = [now |-> RowsSet(content, c, 2), saved |-> <<>>]
  OBVIOUS
<1>5. x \in Transaction /\ x.saved = <<>> /\ x.now = RowsSet(content, c, 2)
  BY <1>2, <1>4 DEF Transaction
<1>6. SubSeq(conn[Home[c]].saved, 1, Depth(c) - 1) = <<>>
  BY <1>2, <1>3, OneSavepoint
<1>7. x = [conn[Home[c]] EXCEPT !.saved = SubSeq(@, 1, Depth(c) - 1)]
  BY <1>2, <1>3, <1>4, <1>6 DEF Transaction
<1>8. conn' = [conn EXCEPT ![Home[c]] = x]
  BY <1>7 DEF Handled, Release
<1>9. /\ stage' = [stage EXCEPT ![c] = "handled"]
      /\ UNCHANGED <<content, queue, lock, answer, response, consumed>>
  BY <1>1 DEF Handled, Release, Goes
<1> QED
  BY <1>1, <1>5, <1>8, <1>9, CallGoesOn DEF Worked

LEMMA HandlerThrowsStep ==
  ASSUME GlabInvariant, NEW c \in Calls, HandlerThrows(c)
  PROVE  GlabInvariant'
<1>1. stage[c] \in {"handler", "nested", "handled"} /\ InWork(c) /\ InStore(c)
  BY DEF HandlerThrows, InStore
<1>2. /\ conn[Home[c]] \in Transaction /\ Home[c] \in Processes
      /\ View(c, conn[Home[c]]) /\ c \notin Edits
      /\ RowsSet(content, c, 1) \in Content
  BY <1>1, CallInWork
<1>3. /\ stage' = [stage EXCEPT ![c] = "thrown"]
      /\ UNCHANGED <<content, queue, lock, answer, response, consumed>>
  BY <1>1 DEF HandlerThrows, RollbackTo, Goes, storeVars
<1>4. CASE stage[c] \in {"handler", "handled"}
  <2>1. PICK x \in Transaction : x = conn[Home[c]]
    BY <1>2
  <2>2. conn' = [conn EXCEPT ![Home[c]] = x]
    BY <1>2, <1>4, <2>1 DEF HandlerThrows, storeVars, GlabInvariant, TypeOK
  <2>3. x.saved = <<>>
    BY <1>2, <1>4, <2>1 DEF View
  <2> QED
    BY <1>1, <1>3, <2>2, <2>3, CallGoesOn DEF Worked
<1>5. CASE stage[c] = "nested"
  <2>1. conn[Home[c]].saved = <<RowsSet(content, c, 1)>>
    BY <1>2, <1>5 DEF View
  <2>2. Depth(c) = 1
    BY <2>1, OneSavepoint DEF Depth
  <2>3. PICK x : x = [now |-> RowsSet(content, c, 1), saved |-> <<>>]
    OBVIOUS
  <2>4. x \in Transaction /\ x.saved = <<>> /\ x.now = RowsSet(content, c, 1)
    BY <1>2, <2>3 DEF Transaction
  <2>5. conn' = [conn EXCEPT ![Home[c]] =
          [now |-> @.saved[Depth(c)], saved |-> SubSeq(@.saved, 1, Depth(c) - 1)]]
    BY <1>5 DEF HandlerThrows, RollbackTo
  <2>6. /\ conn[Home[c]].saved[Depth(c)] = RowsSet(content, c, 1)
        /\ SubSeq(conn[Home[c]].saved, 1, Depth(c) - 1) = <<>>
    BY <2>1, <2>2, OneSavepoint
  <2>7. conn' = [conn EXCEPT ![Home[c]] = x]
    BY <2>3, <2>5, <2>6
  <2> QED
    BY <1>1, <1>3, <2>4, <2>7, CallGoesOn DEF Worked
<1> QED
  BY <1>1, <1>4, <1>5

LEMMA UndoStep ==
  ASSUME GlabInvariant, NEW c \in Calls, Undo(c)
  PROVE  GlabInvariant'
<1>1. /\ c \in Jobs /\ c \notin Edits /\ content \in Content /\ content.rows[c] = 0
      /\ stage[c] = "thrown" /\ InWork(c)
  BY CallInWork DEF Undo
<1> QED
  BY <1>1, JobEnds DEF Undo, KeepsResponse, Rollback, Answers, InWork

LEMMA FinishStep ==
  ASSUME GlabInvariant, NEW c \in Calls, Finish(c)
  PROVE  GlabInvariant'
<1>1. stage[c] = "handled" /\ InWork(c)
  BY DEF Finish
<1>2. /\ c \in Jobs /\ c \notin Edits /\ Seen(c) = RowsSet(content, c, 2)
      /\ RowsSet(content, c, 2) \in Content /\ content.rows[c] = 0
      /\ RowsSet(content, c, 2).rows[c] = 2 /\ content \in Content
      /\ \A d \in Calls : d # c => RowsSet(content, c, 2).rows[d] = content.rows[d]
  BY <1>1, CallInWork DEF View, Seen
<1>3. CASE StillHolds(c)
  <2>1. content' = RowsSet(content, c, 2)
    BY <1>2, <1>3 DEF Finish, Commit
  <2>2. PICK r \in {"ok", "unconfirmed"} : response' = [response EXCEPT ![c] = r]
    BY <1>3 DEF Finish, Answers
  <2> QED
    BY <1>1, <1>2, <1>3, <2>1, <2>2, JobEnds DEF Finish, Commit, Answers, InWork
<1>4. CASE ~StillHolds(c)
  BY <1>1, <1>2, <1>4, JobEnds DEF Finish, Rejects, Rollback, Answers, InWork
<1> QED
  BY <1>3, <1>4

LEMMA StoreFailsStep ==
  ASSUME GlabInvariant, NEW c \in Calls, StoreFails(c)
  PROVE  GlabInvariant'
<1>1. c \in Jobs /\ c \notin Edits /\ content \in Content
  BY CallsAreJobs DEF GlabInvariant, TypeOK
<1> QED
  BY <1>1, JobEnds DEF StoreFails, Fails, Answers

----------------------------------------------------------------------------
(* Edits, and the beginning of a transaction *)

LEMMA StartsStep ==
  ASSUME GlabInvariant, NEW j \in Jobs, Starts(j)
  PROVE  GlabInvariant'
<1>1. /\ Running(j) /\ Home[j] \in Processes /\ conn[Home[j]] = None
      /\ Member(queue[Home[j]], j) /\ content \in Content
      /\ lock = None /\ lock' = Home[j]
      /\ UNCHANGED <<content, queue, answer, stage, response, consumed>>
  BY RunningJob DEF Starts, Begin, LockGranted, glabVars, GlabInvariant, TypeOK
<1>2. PICK x : x = [now |-> content, saved |-> <<>>]
  OBVIOUS
<1>3. x \in Transaction /\ x.saved = <<>> /\ x.now = content
  BY <1>1, <1>2 DEF Transaction
<1>4. conn' = [conn EXCEPT ![Home[j]] = x]
  BY <1>2 DEF Starts, Begin
<1>5. View(j, x)
  <2>1. CASE j \in Edits
    <3>1. content.audience \in Audience /\ AudienceSet(content, content.audience) = content
      BY <1>1, AudienceOf DEF Content
    <3> QED
      BY <1>3, <2>1, <3>1, SomeJobs DEF View
  <2>2. CASE j \in Calls
    <3>1. InStore(j) /\ stage[j] \notin Worked
      BY <1>1, <2>2 DEF GlabInvariant, StagesInStore, InWork
    <3>2. stage[j] = "queued"
      BY <3>1 DEF InStore, Worked
    <3> QED
      BY <1>3, <2>2, <3>2, SomeJobs DEF View
  <2> QED
    BY <2>1, <2>2, SomeJobs
<1> QED
  BY <1>1, <1>3, <1>4, <1>5, TransactionGoes

LEMMA EditInWork ==
  ASSUME GlabInvariant, NEW e \in Edits, InWork(e)
  PROVE  /\ e \in Jobs /\ e \notin Calls /\ Home[e] \in Processes
         /\ conn[Home[e]] \in Transaction /\ content \in Content
         /\ conn[Home[e]].saved = <<>> /\ lock = Home[e]
         /\ \E a \in Audience : Seen(e) = AudienceSet(content, a)
<1>1. e \in Jobs /\ e \notin Calls /\ Home[e] \in Processes
  BY GlabAssumption, StoreAssumption
<1>2. conn[Home[e]] \in Transaction /\ View(e, conn[Home[e]]) /\ lock = Home[e]
  BY <1>1, WorkingJob
<1> QED
  BY <1>1, <1>2 DEF View, Seen, GlabInvariant, TypeOK

LEMMA EditWritesStep ==
  ASSUME GlabInvariant, NEW e \in Edits, EditWrites(e)
  PROVE  GlabInvariant'
<1>1. PICK a \in Audience : Write(e, [Seen(e) EXCEPT !.audience = a])
  BY DEF EditWrites
<1>2. InWork(e) /\ UNCHANGED <<content, queue, lock, answer, stage, response, consumed>>
  BY <1>1 DEF EditWrites, Write, glabVars
<1>3. /\ e \in Jobs /\ e \notin Calls /\ Home[e] \in Processes
      /\ conn[Home[e]] \in Transaction /\ content \in Content
      /\ conn[Home[e]].saved = <<>> /\ lock = Home[e]
  BY <1>2, EditInWork
<1>4. PICK b \in Audience : Seen(e) = AudienceSet(content, b)
  BY <1>2, EditInWork
<1>5. /\ [Seen(e) EXCEPT !.audience = a] = AudienceSet(content, a)
      /\ AudienceSet(content, a) \in Content
  <2>1. AudienceSet(AudienceSet(content, b), a) = AudienceSet(content, a)
    BY <1>3, AudienceOf
  <2>2. [Seen(e) EXCEPT !.audience = a] = AudienceSet(Seen(e), a)
    BY DEF AudienceSet
  <2> QED
    BY <1>3, <1>4, <2>1, <2>2, AudienceOf
<1>6. PICK x : x = [now |-> AudienceSet(content, a), saved |-> <<>>]
  OBVIOUS
<1>7. x \in Transaction /\ x.saved = <<>> /\ x.now = AudienceSet(content, a)
  BY <1>5, <1>6 DEF Transaction
<1>8. x = [conn[Home[e]] EXCEPT !.now = [Seen(e) EXCEPT !.audience = a]]
  BY <1>3, <1>5, <1>6 DEF Transaction
<1>9. conn' = [conn EXCEPT ![Home[e]] = x]
  BY <1>1, <1>8 DEF Write
<1>10. View(e, x)
  BY <1>3, <1>7 DEF View
<1> QED
  BY <1>2, <1>3, <1>7, <1>9, <1>10, TransactionGoes DEF InWork

LEMMA EditEndsStep ==
  ASSUME GlabInvariant, NEW e \in Edits, EditEnds(e)
  PROVE  GlabInvariant'
<1>1. /\ e \in Jobs /\ e \notin Calls /\ content \in Content
      /\ UNCHANGED <<stage, response, consumed>>
  BY GlabAssumption DEF EditEnds, glabVars, GlabInvariant, TypeOK
<1>2. CASE Commit(e)
  <2>1. PICK a \in Audience : content' = AudienceSet(content, a)
    BY <1>2, EditInWork DEF Commit
  <2>2. content' \in Content /\ content'.rows = content.rows
    BY <1>1, <2>1, AudienceOf
  <2> QED
    BY <1>1, <1>2, <2>2, JobEnds DEF Commit, InWork
<1>3. CASE Rollback(e)
  BY <1>1, <1>3, JobEnds DEF Rollback, InWork
<1>4. CASE Fails(e)
  BY <1>1, <1>4, JobEnds DEF Fails
<1> QED
  BY <1>2, <1>3, <1>4 DEF EditEnds

LEMMA WorksStep ==
  ASSUME GlabInvariant, NEW j \in Jobs, Works(j)
  PROVE  GlabInvariant'
BY AdmitStep, FirstRowStep, EntersStep, SecondRowStep, HandledStep, HandlerThrowsStep,
   UndoStep, FinishStep, StoreFailsStep, EditWritesStep, EditEndsStep DEF Works

LEMMA InvariantIsInductive ==
  ASSUME GlabInvariant, [Next]_vars
  PROVE  GlabInvariant'
<1>1. ASSUME NEW c \in Calls, ClientGone(c)
      PROVE  GlabInvariant'
  BY <1>1, RestStep DEF ClientGone
<1>2. CASE Tick
  BY <1>2, RestStep DEF Tick
<1>3. CASE UNCHANGED vars
  BY <1>3, RestStep DEF vars, glabVars
<1> QED
  BY <1>1, <1>2, <1>3, GateSteps, EditSubmittedStep, StartsStep, WorksStep, CrashStep
  DEF Next

\* The delegations behave, whatever the constants, as GlabInvariant says.
THEOREM GlabInductive == Spec => []GlabInvariant
BY InitInvariant, InvariantIsInductive, PTL DEF Spec

----------------------------------------------------------------------------
(* The answers *)

\* execute: "ok" is answered after COMMIT alone, a refusal after ROLLBACK or
\* before the transaction.
THEOREM GlabAnswerTellsTheTruth == Spec => []AnswerTellsTheTruth
<1>1. GlabInvariant => AnswerTellsTheTruth
  BY DEF GlabInvariant
<1> QED
  BY <1>1, GlabInductive, PTL

----------------------------------------------------------------------------
(* The store *)

LEMMA CommitTakes ==
  ASSUME GlabInvariant, NEW j \in Jobs, Commit(j), Seen(j) \in OutcomesOf(j, content)
  PROVE  Abstract!Take(j)
<1>1. answer[j] = None
  BY RunningJob DEF Commit, InWork
<1> QED
  BY <1>1 DEF Commit, Ends, Abstract!Take

LEMMA EndRefuses ==
  ASSUME GlabInvariant, NEW j \in Jobs, Rollback(j) \/ Fails(j)
  PROVE  Abstract!Refuse(j)
<1>1. answer[j] = None
  BY RunningJob DEF Rollback, Fails, InWork
<1> QED
  BY <1>1 DEF Rollback, Fails, Ends, Abstract!Refuse

LEMMA CrashLoses ==
  ASSUME GlabInvariant, NEW p \in Processes, Crash(p)
  PROVE  \E lost \in SUBSET Jobs : Abstract!Lose(lost)
<1> DEFINE lost == {j \in Jobs : Member(queue[p], j)}
<1>1. \A j \in lost : answer[j] = None
  BY DEF GlabInvariant, QueuesInOrder
<1>2. answer' = [j \in Jobs |-> IF j \in lost THEN "unknown" ELSE answer[j]]
  BY DEF Crash, Member
<1>3. Abstract!Lose(lost)
  BY <1>1, <1>2 DEF Crash, Abstract!Lose
<1> QED
  BY <1>3

\* What a job commits is one of its outcomes.
LEMMA OutcomeOfCall ==
  ASSUME GlabInvariant, NEW c \in Calls, Finish(c), Commit(c)
  PROVE  Seen(c) = RowsSet(content, c, 2) /\ Seen(c) \in OutcomesOf(c, content)
<1>1. Seen(c) = RowsSet(content, c, 2)
  BY CallInWork DEF Finish, View, Seen
<1> QED
  BY <1>1 DEF OutcomesOf, RowsSet

LEMMA OutcomeOfEdit ==
  ASSUME GlabInvariant, NEW e \in Edits, Commit(e)
  PROVE  Seen(e) \in OutcomesOf(e, content)
<1>1. e \notin Calls /\ \E a \in Audience : Seen(e) = AudienceSet(content, a)
  BY EditInWork DEF Commit
<1> QED
  BY <1>1 DEF OutcomesOf, AudienceSet

LEMMA WorksRefines ==
  ASSUME GlabInvariant, NEW j \in Jobs, Works(j)
  PROVE  Abstract!Take(j) \/ Abstract!Refuse(j) \/ UNCHANGED <<content, answer>>
<1>1. CASE j \in Calls
  <2>1. CASE Admit(j)
    BY <2>1, EndRefuses DEF Admit, Rejects, storeVars
  <2>2. CASE FirstRow(j) \/ Enters(j) \/ SecondRow(j) \/ Handled(j) \/ HandlerThrows(j)
    BY <2>2 DEF FirstRow, Enters, SecondRow, Handled, HandlerThrows, Write, Nest,
       Release, RollbackTo, storeVars
  <2>3. CASE Undo(j)
    BY <2>3, EndRefuses DEF Undo, KeepsResponse
  <2>4. CASE Finish(j)
    BY <1>1, <2>4, EndRefuses, CommitTakes, OutcomeOfCall DEF Finish, Rejects
  <2>5. CASE StoreFails(j)
    BY <2>5, EndRefuses DEF StoreFails
  <2> QED
    BY <1>1, <2>1, <2>2, <2>3, <2>4, <2>5, SomeJobs DEF Works
<1>2. CASE j \in Edits
  <2>1. CASE EditWrites(j)
    BY <2>1 DEF EditWrites, Write
  <2>2. CASE EditEnds(j)
    BY <1>2, <2>2, EndRefuses, CommitTakes, OutcomeOfEdit DEF EditEnds
  <2> QED
    BY <1>2, <2>1, <2>2, SomeJobs DEF Works
<1> QED
  BY <1>1, <1>2, SomeJobs

LEMMA StepRefines ==
  ASSUME GlabInvariant, [Next]_vars
  PROVE  [Abstract!Next]_(Abstract!vars)
<1> USE DEF Abstract!vars
<1>1. ASSUME NEW c \in Calls, Gate(c) \/ ClientGone(c)
      PROVE  UNCHANGED <<content, answer>>
  BY <1>1 DEF Gate, CaptureBody, Consume, ConsumeLost, Execute, Submit, ClientGone, storeVars
<1>2. ASSUME NEW e \in Edits, EditSubmitted(e)
      PROVE  UNCHANGED <<content, answer>>
  BY <1>2 DEF EditSubmitted, Submit
<1>3. ASSUME NEW j \in Jobs, Starts(j)
      PROVE  UNCHANGED <<content, answer>>
  BY <1>3 DEF Starts, Begin
<1>4. ASSUME NEW j \in Jobs, Works(j)
      PROVE  [Abstract!Next]_(Abstract!vars)
  BY <1>4, WorksRefines DEF Abstract!Next
<1>5. ASSUME NEW p \in Processes, ProcessDies(p)
      PROVE  Abstract!Next
  BY <1>5, CrashLoses DEF ProcessDies, Abstract!Next
<1>6. CASE Tick \/ UNCHANGED vars
  BY <1>6 DEF Tick, vars, storeVars
<1> QED
  BY <1>1, <1>2, <1>3, <1>4, <1>5, <1>6 DEF Next

\* The queues, transactions, savepoints, failures and deaths of the
\* persistence layer implement Store: work takes effect in one step or never.
THEOREM GlabImplementsStore == Spec => ImplementsStore
<1>1. Init => Abstract!Init
  BY DEF Init, StoreInit, Abstract!Init
<1> QED
  BY <1>1, StepRefines, GlabInductive, PTL DEF Spec, ImplementsStore, Abstract!Spec

----------------------------------------------------------------------------
(* The permit *)

\* Rows of a call are committed by its last step alone.
LEMMA RowsByFinish ==
  ASSUME GlabInvariant, [Next]_vars, NEW c \in Calls,
         content'.rows[c] # content.rows[c]
  PROVE  Finish(c) /\ StillHolds(c)
<1>1. PICK j \in Jobs : Works(j) /\ content' # content
  BY DEF Next, Gate, CaptureBody, Consume, ConsumeLost, Execute, Submit, ClientGone,
     EditSubmitted, Starts, Begin, ProcessDies, Crash, Tick, vars, storeVars
<1>2. CASE j \in Edits
  <2>1. Commit(j)
    BY <1>1, <1>2, SomeJobs DEF Works, EditWrites, Write, EditEnds, Rollback, Fails
  <2>2. PICK a \in Audience : content' = AudienceSet(content, a)
    BY <1>2, <2>1, EditInWork DEF Commit
  <2> QED
    BY <2>2, AudienceOf DEF GlabInvariant, TypeOK
<1>3. CASE j \in Calls
  <2>1. Finish(j) /\ StillHolds(j) /\ Commit(j)
    BY <1>1, <1>3, SomeJobs DEF Works, Admit, FirstRow, Enters, SecondRow, Handled,
       HandlerThrows, Undo, KeepsResponse, Finish, StoreFails, Rejects, Rollback, Fails,
       Write, Nest, Release, RollbackTo, storeVars
  <2>2. content' = RowsSet(content, j, 2)
    BY <1>3, <2>1, OutcomeOfCall DEF Commit
  <2>3. j = c
    <3>1. content \in Content /\ 2 \in 0..2
      BY DEF GlabInvariant, TypeOK
    <3>2. \A d \in Calls : d # j => RowsSet(content, j, 2).rows[d] = content.rows[d]
      BY <1>3, <3>1, RowsOf
    <3> QED
      BY <2>2, <3>2
  <2> QED
    BY <2>1, <2>3
<1> QED
  BY <1>2, <1>3, SomeJobs

\* What requireActive, requireReadable and requireOwner ask for holds at the
\* COMMIT, and not only when it was asked.
THEOREM GlabCommittedWithinItsPermit == Spec => CommittedWithinItsPermit
<1> DEFINE Kept ==
      \A c \in Calls : content'.rows[c] # content.rows[c] =>
        /\ Active(c) /\ ContextHolds(c)
        /\ consumed[Token[c]] = c
        /\ CanReadBooking(content.audience, MemberOf[c], TRUE, c \in IsOwner)
        /\ c \in OwnerOnly => c \in IsOwner
<1>1. ASSUME GlabInvariant, [Next]_vars
      PROVE  Kept
  <2> SUFFICES ASSUME NEW c \in Calls, content'.rows[c] # content.rows[c]
               PROVE  /\ Active(c) /\ ContextHolds(c)
                      /\ consumed[Token[c]] = c
                      /\ CanReadBooking(content.audience, MemberOf[c], TRUE, c \in IsOwner)
                      /\ c \in OwnerOnly => c \in IsOwner
    OBVIOUS
  <2>1. Finish(c) /\ StillHolds(c)
    BY <1>1, RowsByFinish
  <2>2. stage[c] = "handled"
    BY <2>1 DEF Finish
  <2>3. consumed[Token[c]] = c /\ Admitted(c)
    BY <1>1, <2>2 DEF GlabInvariant, Permits, Worked
  <2> QED
    BY <2>1, <2>3 DEF StillHolds, Admitted
<1>2. GlabInvariant /\ [Next]_vars => [Kept]_vars
  BY <1>1
<1>3. Spec => [][Kept]_vars
  BY <1>2, GlabInductive, PTL DEF Spec
<1> QED
  BY <1>3 DEF CommittedWithinItsPermit
=============================================================================
