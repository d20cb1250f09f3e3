----------------------------- MODULE GlabTarget -----------------------------
(***************************************************************************)
(* An operation of a meeting that GLAB delegates to Aedilis                *)
(* (src/server/glab): the body is captured, the delegation is consumed at  *)
(* Cernere, and one transaction holds the check of the meeting's audience, *)
(* the existing handler, whose own transaction is nested in it, and a last *)
(* look at the clock and the connection.  Meanwhile the owner edits the    *)
(* audience, the client goes away, the delegation ends or is presented a   *)
(* second time, and a process may die.                                     *)
(***************************************************************************)
EXTENDS AtomicStore, BookingAccess, FiniteSets

CONSTANTS
  Calls,      \* delegated requests
  Edits,      \* edits of the audience by the owner
  Tokens,     \* delegations
  Token,      \* the delegation a call presents
  MemberOf,   \* the groups that a call's signed context names
  IsOwner,    \* the call's user owns what the operation is about
  OwnerOnly,  \* operations of the owner (update, cancel, finalize, ...)
  Deadline,   \* expiresAt of a delegation
  ContextEnd, \* expiresAt of the signed context of a call
  MaxClock    \* bounds the clock

ASSUME GlabAssumption ==
  /\ Jobs = Calls \cup Edits /\ Calls \cap Edits = {}
  /\ Token \in [Calls -> Tokens] /\ MemberOf \in [Calls -> SUBSET Groups]
  /\ IsOwner \subseteq Calls /\ OwnerOnly \subseteq Calls
  /\ Deadline \in [Tokens -> Nat] /\ ContextEnd \in [Calls -> Nat]
  /\ Initial = [audience |-> PublicAudience, rows |-> [c \in Calls |-> 0]]

\* The tables, as far as the calls can tell, and a transaction.
Content == [audience: Audience, rows: [Calls -> 0..2]]
Transaction == [now: Content, saved: Seq(Content)]

ASSUME NoneAssumption ==
  /\ None \notin Transaction /\ None \notin Calls
  /\ None \notin {"ok", "refused", "unconfirmed", "none"}

VARIABLES
  stage,      \* of a call
  response,   \* what a call was answered, or None
  consumed,   \* the call that Cernere let use a delegation, or None
  aborted,    \* calls whose client has gone away
  clock

glabVars == <<stage, response, consumed, aborted, clock>>
vars == <<storeVars, glabVars>>

\* assertActive
Active(c) == c \notin aborted /\ clock < Deadline[Token[c]]

Goes(c, s) == stage' = [stage EXCEPT ![c] = s] /\ UNCHANGED response
Answers(c, r) ==
  /\ stage' = [stage EXCEPT ![c] = "answered"]
  /\ response' = [response EXCEPT ![c] = r]

----------------------------------------------------------------------------
(* The gate *)

\* captureOperationBody: too large, used up, aborted or 15 seconds gone.
CaptureBody(c) ==
  /\ stage[c] = "new"
  /\ \/ c \notin aborted /\ Goes(c, "captured")
     \/ Answers(c, "refused")
  /\ UNCHANGED <<storeVars, consumed, aborted, clock>>

\* Cernere lets a delegation be used once, before it ends.
Consume(c) ==
  /\ stage[c] = "captured"
  /\ IF consumed[Token[c]] = None /\ clock < Deadline[Token[c]]
     THEN /\ consumed' = [consumed EXCEPT ![Token[c]] = c]
          /\ Goes(c, "consumed")
     ELSE /\ Answers(c, "refused")
          /\ UNCHANGED consumed
  /\ UNCHANGED <<storeVars, aborted, clock>>

\* Its answer is lost: current_delegation_unconfirmed.
ConsumeLost(c) ==
  /\ stage[c] = "consumed"
  /\ Answers(c, "refused")
  /\ UNCHANGED <<storeVars, consumed, aborted, clock>>

\* authorizeResource, and execute up to the transaction.
Execute(c) ==
  /\ stage[c] = "consumed"
  /\ IF Active(c) THEN Submit(c) /\ Goes(c, "queued")
     ELSE Answers(c, "refused") /\ UNCHANGED storeVars
  /\ UNCHANGED <<consumed, aborted, clock>>

----------------------------------------------------------------------------
(* The transaction *)

\* verifyBookingContext, at the moment it is called
ContextHolds(c) == clock < ContextEnd[c]

\* requireReadable, requireOwner and the owner of the answer.
MayOperate(c) ==
  /\ CanReadBooking(Seen(c).audience, MemberOf[c], TRUE, c \in IsOwner)
  /\ c \in OwnerOnly => c \in IsOwner

Rejects(c) == Rollback(c) /\ Answers(c, "refused")

Admit(c) ==
  /\ stage[c] = "queued" /\ InWork(c)
  /\ IF ContextHolds(c) /\ MayOperate(c) /\ Active(c)
     THEN Goes(c, "handler") /\ UNCHANGED storeVars
     ELSE Rejects(c)
  /\ UNCHANGED <<consumed, aborted, clock>>

Rows(c, n) == [Seen(c) EXCEPT !.rows[c] = n]

\* The handler registers the caller (ensureActor), ...
FirstRow(c) ==
  /\ stage[c] = "handler" /\ Seen(c).rows[c] = 0
  /\ Write(c, Rows(c, 1))
  /\ UNCHANGED glabVars

\* ... and has its own transaction write what belongs to that.
Enters(c) ==
  /\ stage[c] = "handler" /\ Seen(c).rows[c] = 1
  /\ Nest(c)
  /\ Goes(c, "nested")
  /\ UNCHANGED <<consumed, aborted, clock>>

SecondRow(c) ==
  /\ stage[c] = "nested" /\ Seen(c).rows[c] = 1
  /\ Write(c, Rows(c, 2))
  /\ UNCHANGED glabVars

Handled(c) ==
  /\ stage[c] = "nested" /\ Seen(c).rows[c] = 2
  /\ Release(c)
  /\ Goes(c, "handled")
  /\ UNCHANGED <<consumed, aborted, clock>>

\* The handler refuses, at any point, and builds the response that says so.
HandlerThrows(c) ==
  /\ InWork(c)
  /\ \/ stage[c] \in {"handler", "handled"} /\ UNCHANGED storeVars
     \/ stage[c] = "nested" /\ RollbackTo(c)
  /\ Goes(c, "thrown")
  /\ UNCHANGED <<consumed, aborted, clock>>

\* Mutant: a handled error does not end the transaction with an error.
KeepsHandled(c) == Commit(c) /\ Answers(c, "refused")

\* RejectedHandlerResponse: everything goes, the response stays.
KeepsResponse(c) == Rollback(c) /\ Answers(c, "refused")

Undo(c) ==
  /\ stage[c] = "thrown" /\ InWork(c)
  /\ KeepsResponse(c)
  /\ UNCHANGED <<consumed, aborted, clock>>

\* Mutant: the last look is left out.
StillHoldsNot(c) == TRUE

\* After the handler: the context again, and assertActive.
StillHolds(c) == ContextHolds(c) /\ Active(c)

\* The last look, and COMMIT, sent with no await in between; that PostgreSQL
\* carries it out a round trip later is not modelled.
Finish(c) ==
  /\ stage[c] = "handled" /\ InWork(c)
  /\ IF StillHolds(c)
     THEN /\ Commit(c)
          /\ Answers(c, IF answer'[c] = "done" THEN "ok" ELSE "unconfirmed")
     ELSE Rejects(c)
  /\ UNCHANGED <<consumed, aborted, clock>>

\* The store gives up on a call that is in it (503).
InStore(c) == stage[c] \in {"queued", "handler", "nested", "handled", "thrown"}

StoreFails(c) ==
  /\ InStore(c)
  /\ Fails(c)
  /\ Answers(c, "unconfirmed")
  /\ UNCHANGED <<consumed, aborted, clock>>

----------------------------------------------------------------------------
(* The rest of the world *)

\* An edit of the owner, on the page of Aedilis.
EditSubmitted(e) ==
  /\ \A p \in Processes : \A i \in DOMAIN queue[p] : queue[p][i] # e
  /\ Submit(e)
  /\ UNCHANGED glabVars

EditWrites(e) ==
  /\ InWork(e)
  /\ Seen(e).audience = content.audience
  /\ \E a \in Audience \ {content.audience} :
       /\ MayUseAudience(a, Groups, TRUE)
       /\ Write(e, [Seen(e) EXCEPT !.audience = a])
  /\ UNCHANGED glabVars

EditEnds(e) == (Commit(e) \/ Rollback(e) \/ Fails(e)) /\ UNCHANGED glabVars

\* The transaction of the head of a queue is begun.
Starts(j) == Begin(j) /\ UNCHANGED glabVars

ClientGone(c) ==
  /\ stage[c] # "answered" /\ c \notin aborted
  /\ aborted' = aborted \cup {c}
  /\ UNCHANGED <<storeVars, stage, response, consumed, clock>>

Tick ==
  /\ clock < MaxClock
  /\ clock' = clock + 1
  /\ UNCHANGED <<storeVars, stage, response, consumed, aborted>>

\* A process dies: its calls are never answered.
ProcessDies(p) ==
  /\ Crash(p)
  /\ stage' = [c \in Calls |-> IF Home[c] = p /\ stage[c] # "new" THEN "answered"
                               ELSE stage[c]]
  /\ response' = [c \in Calls |-> IF Home[c] = p /\ stage[c] \notin {"new", "answered"}
                                  THEN "none" ELSE response[c]]
  /\ UNCHANGED <<consumed, aborted, clock>>

----------------------------------------------------------------------------
Init ==
  /\ StoreInit
  /\ stage = [c \in Calls |-> "new"]
  /\ response = [c \in Calls |-> None]
  /\ consumed = [t \in Tokens |-> None]
  /\ aborted = {}
  /\ clock = 0

Gate(c) == CaptureBody(c) \/ Consume(c) \/ ConsumeLost(c) \/ Execute(c)

Works(j) ==
  \/ /\ j \in Calls
     /\ \/ Admit(j) \/ FirstRow(j) \/ Enters(j) \/ SecondRow(j) \/ Handled(j)
        \/ HandlerThrows(j) \/ Undo(j) \/ Finish(j) \/ StoreFails(j)
  \/ j \in Edits /\ (EditWrites(j) \/ EditEnds(j))

Next ==
  \/ \E c \in Calls : Gate(c) \/ ClientGone(c)
  \/ \E e \in Edits : EditSubmitted(e)
  \/ \E j \in Jobs : Starts(j) \/ Works(j)
  \/ \E p \in Processes : ProcessDies(p)
  \/ Tick

\* Work that runs goes on to its end, the database answers or fails, and the
\* lock, once free, is granted in turn to the processes that wait for it.
Fairness == \A p \in Processes :
  /\ WF_vars(\E j \in Jobs : Home[j] = p /\ Works(j))
  /\ SF_vars(\E j \in Jobs : Home[j] = p /\ Starts(j))

Spec == Init /\ [][Next]_vars /\ Fairness

----------------------------------------------------------------------------
(* Properties *)

\* What a job may make of a content: a call writes both of its rows or
\* none, an edit changes nothing but the audience.
OutcomesOf(j, c) ==
  IF j \in Calls THEN {c, [c EXCEPT !.rows[j] = 2]}
  ELSE {[c EXCEPT !.audience = a] : a \in Audience}

Abstract == INSTANCE Store WITH Outcomes <- OutcomesOf

\* Two processes, nested transactions, failures at every query, lost answers
\* and deaths: every job still takes effect as a whole, once, on top of what
\* was committed before, or not at all.
ImplementsStore == Abstract!Spec

\* A delegated operation is committed by the one call that consumed its
\* delegation, while its client is there, neither its delegation nor its
\* context has ended, and the audience committed at that moment, the one at
\* which COMMIT is sent, admits it.
CommittedWithinItsPermit ==
  [][\A c \in Calls : content'.rows[c] # content.rows[c] =>
       /\ Active(c) /\ ContextHolds(c)
       /\ consumed[Token[c]] = c
       /\ CanReadBooking(content.audience, MemberOf[c], TRUE, c \in IsOwner)
       /\ c \in OwnerOnly => c \in IsOwner]_vars

\* A caller that is told of success finds its rows, and one that is refused,
\* by the gate, the checks or the handler, finds nothing of them.
AnswerTellsTheTruth == \A c \in Calls :
  /\ response[c] = "ok" => content.rows[c] = 2
  /\ response[c] = "refused" => content.rows[c] = 0

\* Whatever fails in front of them in the queues, there comes a moment at
\* which no call waits for the store.
QueueDrains == (\E c \in Calls : InStore(c)) ~> (\A c \in Calls : ~InStore(c))
=============================================================================
