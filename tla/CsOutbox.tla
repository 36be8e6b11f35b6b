------------------------------ MODULE CsOutbox ------------------------------
(***************************************************************************)
(* The outbox of the CS inbox: a reply is a row of cs_messages with status *)
(* "queued"; the wa process drains the rows of each number's threads to    *)
(* WhatsApp, records what became of them, acknowledges what the customer   *)
(* wrote and applies the receipts that come back.                          *)
(*   src/backend/internal/wa/outbound.go, receipts.go                      *)
(*   src/backend/internal/services/cs_message_service.go                   *)
(*   src/backend/cmd/wa/sessions.go, main.go                               *)
(*                                                                         *)
(* WhatsApp is external: it may accept a send, refuse it, or accept it and *)
(* let the answer get lost; receipts come in any order, each at most once. *)
(* Not here: link previews, quotes, media files, announcements to browsers *)
(* (the browsers refetch), and the thread's own columns.                   *)
(***************************************************************************)
EXTENDS Integers, FiniteSets, Sequences

CONSTANTS
  Accounts,     \* the CS numbers, one WhatsApp session each
  Threads,      \* the conversations
  AccountOf,    \* the number each conversation is on
  Generations,  \* sessions a number goes through: 1 .. n
  Batch,        \* outboxBatch, the limit of ClaimQueued
  MaxReplies,   \* bound: replies queued in a run
  MaxInbound,   \* bound: messages the customers write in a run
  MaxReceipts,  \* bound: receipts in a run
  MaxMishaps    \* bound: crashes and failed database updates

ASSUME ParametersAssumption ==
  /\ AccountOf \in [Threads -> Accounts]
  /\ Generations \in Nat \ {0} /\ Batch \in Nat \ {0}
  /\ MaxReplies \in Nat /\ MaxInbound \in Nat
  /\ MaxReceipts \in Nat /\ MaxMishaps \in Nat

Drainers == Accounts \X (1 .. Generations)

VARIABLES
  replies,   \* outbound rows in the order of created_at, committed or not
  inbound,   \* inbound[t]: the statuses of the customer's messages in t
  session,   \* session[a]: the generation of the session that runs
  drain,     \* drain[d]: the state of the drainer of one session
  receipt,   \* receipt[a]: the receipt the session's event handler is applying
  copies,    \* WhatsApp's record: the copies of each reply it accepted
  answered,  \* the receipts WhatsApp has delivered
  told,      \* inbound messages WhatsApp was told we read
  lost,      \* history: copies of each reply whose MarkSent did not happen
  mishaps    \* crashes and database errors so far

vars == <<replies, inbound, session, drain, receipt, copies, answered, told, lost, mishaps>>
world == <<copies, answered, told>>

Rank(status) ==
  CASE status = "sent" -> 1 [] status = "delivered" -> 2 [] status = "read" -> 3 [] OTHER -> 0

IdleDrain == [at |-> "idle", batch |-> {}, ack |-> {}]
NoDrainer == [at |-> "none", batch |-> {}, ack |-> {}]
NoReceipt == [status |-> "none", row |-> 0, seen |-> "none"]

Running(d) == session[d[1]] = d[2]
Committed(r) == replies[r].status \notin {"writing", "undone"}

\* Mutant: newest first.
Current_Newest(d) == CHOOSE r \in drain[d].batch : \A s \in drain[d].batch : r >= s

\* The reply a drainer is at: it works through its batch oldest first.
Current(d) == CHOOSE r \in drain[d].batch : \A s \in drain[d].batch : r <= s

\* The drainer turns to the next reply of its batch, or is done.
Onward(d) ==
  LET rest == drain[d].batch \ {Current(d)}
  IN drain' = [drain EXCEPT ![d] = IF rest = {} THEN IdleDrain
                                   ELSE [at |-> "next", batch |-> rest, ack |-> {}]]

Stop(d) == drain' = [drain EXCEPT ![d] = IdleDrain]
At(d, place) == drain' = [drain EXCEPT ![d].at = place]

\* Mutant: the claim is not scoped to the account.
Queued_AnyAccount(a) == {r \in DOMAIN replies : replies[r].status = "queued"}

\* The rows ClaimQueued joins: queued, in a thread of this number.
Queued(a) == {r \in DOMAIN replies : /\ replies[r].status = "queued"
                                     /\ AccountOf[replies[r].thread] = a}

\* The oldest of them, at most a batch; no lock is taken.
ClaimQueued(a) == {r \in Queued(a) : Cardinality({s \in Queued(a) : s < r}) < Batch}

-----------------------------------------------------------------------------
Init ==
  /\ replies = <<>>
  /\ inbound = [t \in Threads |-> <<>>]
  /\ session = [a \in Accounts |-> 1]
  /\ drain = [d \in Drainers |-> IF d[2] = 1 THEN IdleDrain ELSE NoDrainer]
  /\ receipt = [a \in Accounts |-> NoReceipt]
  /\ copies = <<>>
  /\ answered = {}
  /\ told = {}
  /\ lost = <<>>
  /\ mishaps = 0

\* CSMessageService.Queue: the CS hits send.  The row is stamped and inserted
\* here, and nobody sees it before the commit.  after is history: the replies
\* of the thread that were there when this one was written.
Queue(t) ==
  /\ Len(replies) < MaxReplies
  /\ replies' = Append(replies, [thread |-> t, status |-> "writing", wa |-> 0,
                                 after |-> {r \in DOMAIN replies : replies[r].thread = t /\ Committed(r)}])
  /\ copies' = Append(copies, 0)
  /\ lost' = Append(lost, 0)
  /\ UNCHANGED <<inbound, session, drain, receipt, answered, told, mishaps>>

\* Its transaction commits, or fails or dies with the API process.
EndQueue(r) ==
  /\ replies[r].status = "writing"
  /\ \E status \in {"queued", "undone"} : replies' = [replies EXCEPT ![r].status = status]
  /\ UNCHANGED <<inbound, session, drain, receipt, world, lost, mishaps>>

\* SaveInbound: stored as delivered.
CustomerWrites(t) ==
  /\ Cardinality({x \in Threads \X (1 .. MaxInbound) : x[2] \in DOMAIN inbound[x[1]]}) < MaxInbound
  /\ inbound' = [inbound EXCEPT ![t] = Append(@, "delivered")]
  /\ UNCHANGED <<replies, session, drain, receipt, world, lost, mishaps>>

(* The drain.  The ticker of a session and the announcement of a new reply *)
(* both start one; the drainer's mutex lets one in at a time.  A drainer   *)
(* may be started after its session was stopped: drainAll works through a  *)
(* snapshot of the sessions.                                               *)

\* Mutant: no mutex, a second drain of the same session starts over.
StartDrain_NoMutex(d) ==
  /\ drain[d].at # "none"
  /\ ClaimQueued(d[1]) # {}
  /\ drain' = [drain EXCEPT ![d] = [at |-> "first", batch |-> ClaimQueued(d[1]), ack |-> {}]]
  /\ UNCHANGED <<replies, inbound, session, receipt, world, lost, mishaps>>

StartDrain(d) ==
  /\ drain[d].at = "idle"
  /\ ClaimQueued(d[1]) # {}
  /\ drain' = [drain EXCEPT ![d] = [at |-> "first", batch |-> ClaimQueued(d[1]), ack |-> {}]]
  /\ UNCHANGED <<replies, inbound, session, receipt, world, lost, mishaps>>

\* Between two sends the drain waits, and ends if its session has been stopped.
CancelDrain(d) ==
  /\ drain[d].at = "next" /\ ~Running(d)
  /\ Stop(d)
  /\ UNCHANGED <<replies, inbound, session, receipt, world, lost, mishaps>>

\* WhatsApp takes the reply.  A closed session cannot send.
Accept(d) ==
  /\ drain[d].at \in {"first", "next"} /\ Running(d)
  /\ copies' = [copies EXCEPT ![Current(d)] = @ + 1]
  /\ At(d, "accepted")
  /\ UNCHANGED <<replies, inbound, session, receipt, answered, told, lost, mishaps>>

\* The send answers an error, perhaps because only the answer got lost.
Refuse(d) ==
  /\ drain[d].at \in {"first", "next"}
  /\ \/ UNCHANGED copies
     \/ Running(d) /\ copies' = [copies EXCEPT ![Current(d)] = @ + 1]
  /\ At(d, "refused")
  /\ UNCHANGED <<replies, inbound, session, receipt, answered, told, lost, mishaps>>

MarkSent(d) ==
  /\ drain[d].at = "accepted"
  /\ replies' = [replies EXCEPT ![Current(d)].status = "sent",
                                ![Current(d)].wa = copies[Current(d)]]
  /\ At(d, "sent")
  /\ UNCHANGED <<inbound, session, receipt, world, lost, mishaps>>

\* Mutant: a refused reply is left where it is and the drain moves on.
MarkFailed_Skip(d) ==
  /\ drain[d].at = "refused"
  /\ Onward(d)
  /\ UNCHANGED <<replies, inbound, session, receipt, world, lost, mishaps>>

MarkFailed(d) ==
  /\ drain[d].at = "refused"
  /\ replies' = [replies EXCEPT ![Current(d)].status = "failed"]
  /\ Onward(d)
  /\ UNCHANGED <<inbound, session, receipt, world, lost, mishaps>>

\* The update of MarkSent or MarkFailed errors: the drain gives up.
MarkError(d) ==
  /\ drain[d].at \in {"accepted", "refused"} /\ mishaps < MaxMishaps
  /\ lost' = [lost EXCEPT ![Current(d)] = copies[Current(d)]]
  /\ Stop(d)
  /\ mishaps' = mishaps + 1
  /\ UNCHANGED <<replies, inbound, session, receipt, world>>

(* acknowledgeRead: read what waits, tell WhatsApp, record it.  Whatever   *)
(* fails, the drain goes on to the next reply.                             *)

AckRead(d) ==
  LET t == replies[Current(d)].thread
      waiting == {i \in DOMAIN inbound[t] : inbound[t][i] # "read"}
  IN /\ drain[d].at = "sent" /\ waiting # {}
     /\ drain' = [drain EXCEPT ![d].at = "acking", ![d].ack = waiting]
     /\ UNCHANGED <<replies, inbound, session, receipt, world, lost, mishaps>>

AckTell(d) ==
  /\ drain[d].at = "acking" /\ Running(d)
  /\ told' = told \cup {<<replies[Current(d)].thread, i>> : i \in drain[d].ack}
  /\ At(d, "acked")
  /\ UNCHANGED <<replies, inbound, session, receipt, copies, answered, lost, mishaps>>

\* Mutant: what is waiting by now is recorded, not what WhatsApp was told.
AckRecord_All(d) ==
  LET t == replies[Current(d)].thread
  IN /\ drain[d].at = "acked"
     /\ inbound' = [inbound EXCEPT ![t] = [i \in DOMAIN @ |-> "read"]]
     /\ Onward(d)
     /\ UNCHANGED <<replies, session, receipt, world, lost, mishaps>>

AckRecord(d) ==
  LET t == replies[Current(d)].thread
  IN /\ drain[d].at = "acked"
     /\ inbound' = [inbound EXCEPT ![t] =
                      [i \in DOMAIN @ |-> IF i \in drain[d].ack THEN "read" ELSE @[i]]]
     /\ Onward(d)
     /\ UNCHANGED <<replies, session, receipt, world, lost, mishaps>>

\* Nothing waits, WhatsApp refused the acknowledgement, or a query errored.
AckSkip(d) ==
  /\ drain[d].at \in {"sent", "acking", "acked"}
  /\ Onward(d)
  /\ UNCHANGED <<replies, inbound, session, receipt, world, lost, mishaps>>

(* A receipt names a copy.  ApplyReceipt reads the row that carries the    *)
(* copy's id and updates it in a second statement.  One session delivers   *)
(* its events one after the other.                                         *)

\* Mutant: the lookup is by the reply, whichever copy the receipt is for.
ReceiptRead_AnyCopy(a, r, n, status) ==
  /\ Cardinality(answered) < MaxReceipts
  /\ AccountOf[replies[r].thread] = a
  /\ receipt[a] = NoReceipt
  /\ n \in 1 .. copies[r] /\ <<r, n, status>> \notin answered
  /\ answered' = answered \cup {<<r, n, status>>}
  /\ receipt' = [receipt EXCEPT ![a] =
                   [status |-> status, row |-> r, seen |-> replies[r].status]]
  /\ UNCHANGED <<replies, inbound, session, drain, copies, told, lost, mishaps>>

ReceiptRead(a, r, n, status) ==
  /\ Cardinality(answered) < MaxReceipts
  /\ AccountOf[replies[r].thread] = a
  /\ receipt[a] = NoReceipt
  /\ n \in 1 .. copies[r] /\ <<r, n, status>> \notin answered
  /\ answered' = answered \cup {<<r, n, status>>}
  /\ receipt' = IF replies[r].wa # n THEN receipt   \* a copy no row carries
                ELSE [receipt EXCEPT ![a] =
                        [status |-> status, row |-> r, seen |-> replies[r].status]]
  /\ UNCHANGED <<replies, inbound, session, drain, copies, told, lost, mishaps>>

\* Mutant: a late "delivered" is written over "read".
Moves_Any(x) == TRUE

\* The receipt moves the message forward.
Moves(x) == Rank(x.status) > Rank(x.seen)

ReceiptUpdate(a) ==
  LET x == receipt[a]
  IN /\ x # NoReceipt
     /\ replies' = IF Moves(x) THEN [replies EXCEPT ![x.row].status = x.status] ELSE replies
     /\ receipt' = [receipt EXCEPT ![a] = NoReceipt]
     /\ UNCHANGED <<inbound, session, drain, world, lost, mishaps>>

\* A query of ApplyReceipt errors: the receipt is dropped.
ReceiptError(a) ==
  /\ receipt[a] # NoReceipt /\ mishaps < MaxMishaps
  /\ receipt' = [receipt EXCEPT ![a] = NoReceipt]
  /\ mishaps' = mishaps + 1
  /\ UNCHANGED <<replies, inbound, session, drain, world, lost>>

(* Sessions.  A number that is logged out is dropped and, while its row is *)
(* there, opened again with a drainer of its own; the old drainer is told  *)
(* to stop and not waited for.                                             *)

DropSession(a) ==
  /\ session[a] \in 1 .. Generations - 1
  /\ session' = [session EXCEPT ![a] = @ + 1]
  /\ drain' = [drain EXCEPT ![<<a, session[a] + 1>>] = IdleDrain]
  /\ UNCHANGED <<replies, inbound, receipt, world, lost, mishaps>>

\* The process dies and is started again.
Crash ==
  /\ mishaps < MaxMishaps
  /\ mishaps' = mishaps + 1
  /\ drain' = [d \in Drainers |-> IF Running(d) THEN IdleDrain ELSE NoDrainer]
  /\ receipt' = [a \in Accounts |-> NoReceipt]
  /\ lost' = [r \in DOMAIN lost |->
                IF \E d \in Drainers : drain[d].at \in {"accepted", "refused"} /\ Current(d) = r
                THEN copies[r] ELSE lost[r]]
  /\ UNCHANGED <<replies, inbound, session, world>>

Send(d) == Accept(d) \/ Refuse(d)
Settle(d) == MarkSent(d) \/ MarkFailed(d)
Acknowledge(d) == AckRead(d) \/ AckTell(d) \/ AckRecord(d) \/ AckSkip(d)

Drain(d) == StartDrain(d) \/ CancelDrain(d) \/ Send(d) \/ Settle(d) \/ Acknowledge(d)

Receive(a) ==
  \/ \E r \in DOMAIN replies, n \in 1 .. MaxReplies, s \in {"delivered", "read"} :
       ReceiptRead(a, r, n, s)
  \/ ReceiptUpdate(a) \/ ReceiptError(a)

Next ==
  \/ \E t \in Threads : Queue(t) \/ CustomerWrites(t)
  \/ \E r \in DOMAIN replies : EndQueue(r)
  \/ \E d \in Drainers : Drain(d) \/ MarkError(d)
  \/ \E a \in Accounts : Receive(a) \/ DropSession(a)
  \/ Crash

Spec == Init /\ [][Next]_vars

(* The ticker of a running session starts a drain every few seconds, and a *)
(* send answers or times out; the database is not down for ever (MarkError *)
(* is bounded).  Nothing is assumed of the drainer of a stopped session.   *)
FairSpec == Spec /\ \A d \in Drainers : WF_vars(Running(d) /\ Drain(d))

-----------------------------------------------------------------------------
Statuses == {"writing", "undone", "queued", "sent", "delivered", "read", "failed"}

\* The shape of the state.
TypeOK ==
  /\ \A r \in DOMAIN replies :
       replies[r] \in [thread : Threads, status : Statuses, wa : Nat,
                       after : SUBSET Nat]
  /\ inbound \in [Threads -> Seq({"delivered", "read"})]
  /\ session \in [Accounts -> 1 .. Generations]
  /\ \A d \in Drainers :
       /\ drain[d].at \in {"none", "idle", "first", "next", "accepted", "refused",
                           "sent", "acking", "acked"}
       /\ drain[d].at \notin {"none", "idle"} <=> drain[d].batch # {}
       /\ drain[d].batch \subseteq DOMAIN replies
  /\ DOMAIN copies = DOMAIN replies /\ DOMAIN lost = DOMAIN replies
  /\ mishaps \in 0 .. MaxMishaps

(* "This still leaves the outbox at-least-once: a crash after WhatsApp     *)
(* accepts a message but before MarkSent records it will resend": a        *)
(* customer gets one copy of a reply, and one more for every copy that was *)
(* accepted and not recorded.  Nothing else makes a duplicate.             *)
OneCopyPerUnrecordedSend ==
  \A r \in DOMAIN replies : copies[r] <= lost[r] + 1

Sent(r) == copies[r] > 0 \/ replies[r].status = "failed"

(* "oldest first so a thread's replies arrive in the order the CS wrote    *)
(* them": a reply does not overtake one that was in the thread when it was *)
(* written, unless WhatsApp refused that one, through crashes, resends and *)
(* failed updates.                                                         *)
InOrder ==
  \A s \in DOMAIN replies : copies[s] > 0 => \A r \in replies[s].after : Sent(r)

(* What the CS sees is true: a tick beyond "queued" means WhatsApp has the *)
(* reply, and "delivered" or "read" that the customer's device said so of  *)
(* a copy we recorded, even when the reply was sent several times.         *)
TicksAreEarned ==
  \A r \in DOMAIN replies :
     /\ Rank(replies[r].status) >= 1 => replies[r].wa \in 1 .. copies[r]
     /\ replies[r].status \in {"delivered", "read"} =>
          <<r, replies[r].wa, replies[r].status>> \in answered

(* "refuses to walk it back when receipts arrive out of order": the ticks  *)
(* of a reply never go back, whatever receipts, resends and crashes do.    *)
TicksNeverGoBack ==
  [][\A r \in DOMAIN replies : Rank(replies'[r].status) >= Rank(replies[r].status)]_vars

(* An inbound message is recorded as read only if WhatsApp was told so;    *)
(* one that was not is told with the next reply.                           *)
ReadOnlyIfTold ==
  \A t \in Threads : \A i \in DOMAIN inbound[t] :
     inbound[t][i] = "read" => <<t, i>> \in told

(* "a loss nobody can [see]" is what the outbox refuses: every queued      *)
(* reply is sent, or failed with a reason, whatever crashes.               *)
EveryReplyIsSettled ==
  \A r \in 1 .. MaxReplies :
     (r \in DOMAIN replies /\ replies[r].status = "queued")
       ~> (r \in DOMAIN replies /\ replies[r].status # "queued")
=============================================================================
