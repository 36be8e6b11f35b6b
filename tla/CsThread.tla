------------------------------ MODULE CsThread ------------------------------
(***************************************************************************)
(* One thread of the shared inbox: a customer writes to a number many CS   *)
(* answer from.  The wa process stores what WhatsApp hands over, the API   *)
(* hands the thread around, closes it and queues replies, and both record  *)
(* how long the customer waits.                                            *)
(*   src/backend/internal/services/cs_conversation_service.go, cs_wait.go  *)
(*   src/backend/internal/services/cs_message_service.go,                  *)
(*     cs_message_phone.go                                                 *)
(*   src/backend/internal/wa/inbound.go, inbound_phone.go                  *)
(*   src/backend/internal/api/cs_handler_messages.go,                      *)
(*     cs_handler_conversations.go                                         *)
(*                                                                         *)
(* WhatsApp and the number's phone are external: they hand a message over  *)
(* when they like, sometimes again.  One session handles one event at a    *)
(* time.  What a handler does in several transactions is several steps.  A *)
(* transaction is one step from the moment it has the thread's row locked; *)
(* what comes before, its insert and the time it stamps, is a step of its  *)
(* own.  The phone's late message never locks that row: it is three steps, *)
(* and from the second it has the open wait's row, on which a reply or a   *)
(* close, holding the thread's row, then waits (blocked).  Not here:       *)
(* unread_count, names, ONT links, deletion of messages.                   *)
(***************************************************************************)
EXTENDS Integers, FiniteSets, Sequences

CONSTANTS
  CSes,             \* the people who answer
  Nobody,           \* assigned_user_id IS NULL
  Silence,          \* csCustomerSilence, in ticks
  MaxTime,          \* bound: the clock
  MaxSent,          \* bound: messages of the customer and the phone
  MaxReplies,       \* bound: replies typed in TikMan
  MaxTroubles       \* bound: events WhatsApp delivers again, failed
                    \* bookkeeping, failed handlers, and messages of the
                    \* customer handed over before an earlier one

ASSUME ParametersAssumption ==
  /\ Nobody \notin CSes /\ Silence \in Nat
  /\ MaxTime \in Nat \ {0} /\ MaxSent \in Nat /\ MaxReplies \in Nat
  /\ MaxTroubles \in Nat

VARIABLES
  now,          \* one clock for the customer, the phone and the servers
  sent,         \* WhatsApp's record: who sent each message and when
  pending,      \* messages WhatsApp has yet to hand over, or hands over again
  handler,      \* the event the session is handling
  created,      \* created[m]: when the row of message m was stored
  thread,       \* the cs_conversations row
  wait,         \* the open cs_waits row
  ended,        \* the ended cs_waits rows
  answer,       \* answer[u]: the reply u is sending
  blocked,      \* the reply or close that waits for the phone's transaction
  unanswered,   \* history: stored customer messages that nobody answered
  missed,       \* history: a reply or close did not find the wait that is open
  spent         \* replies, redeliveries and troubles so far

figures == <<wait, ended, unanswered, missed>>
vars == <<now, sent, pending, handler, created, thread, answer, blocked, figures, spent>>
whatsapp == <<now, sent>>

NoThread == [status |-> "none", holder |-> Nobody, at |-> 0, spoke |-> "none"]
NoWait == [started |-> 0, sentAt |-> 0, last |-> 0]
NoEvent == [m |-> 0, step |-> "idle", at |-> 0]
NoAnswer == [step |-> "idle", at |-> 0, moved |-> FALSE]
NoneBlocked == [step |-> "no", who |-> Nobody]

Exists == thread.status # "none"
ThreadFree == blocked = NoneBlocked
FromCustomer(m) == sent[m].from = "customer"
Sent(m) == sent[m].at

\* The bound on what goes wrong or comes again.
Spare == spent.redelivered + spent.troubles < MaxTroubles

\* Bookkeeping runs under a savepoint: it happens, or fails and is logged.
Recorded(ok) == ok \/ Spare
Spend(what) == [spent EXCEPT ![what] = @ + 1]
SpendUnless(ok) == IF ok THEN spent ELSE Spend("troubles")

\* The thread changed hands: whoever was about to answer no longer holds it.
Moved == [u \in CSes |-> [answer[u] EXCEPT !.moved = @ \/ answer[u].step # "idle"]]

-----------------------------------------------------------------------------
(* cs_wait.go.  Each is the new value of <<wait, ended>>.                  *)

\* A customer's message has its time and waits for the thread's row.
Storing == handler.step = "inserted"

\* History: the wait ends while a message that is not its own is being stored.
Crosses(reason) == Storing /\ reason # "abandoned"

\* Mutant: a wait that is over is ended once more.
endOpenWait_Again(reason, at) ==
  Append(ended, [started |-> wait.started, at |-> at, reason |-> reason, crossed |-> Crosses(reason)])

endOpenWait(reason, at) ==
  IF wait = NoWait THEN ended
  ELSE Append(ended, [started |-> wait.started, at |-> at, reason |-> reason, crossed |-> Crosses(reason)])

\* A customer's message continues the open wait, or starts one.
customerWrote(m) ==
  IF wait # NoWait /\ wait.last >= Sent(m) - Silence
  THEN <<[wait EXCEPT !.last = IF @ < Sent(m) THEN Sent(m) ELSE @], ended>>
  ELSE <<[started |-> handler.at, sentAt |-> Sent(m), last |-> Sent(m)],
         endOpenWait("abandoned", handler.at)>>

replied(at) == <<NoWait, endOpenWait("replied", at)>>

\* The phone's message is an answer to the wait that is open.
Answers(m) == wait # NoWait /\ Sent(m) >= wait.sentAt

\* Mutant: a late phone reply ends the wait of messages sent after it.
answeredFromPhone_NoReopen(m) ==
  IF ~Answers(m) THEN <<wait, ended>>
  ELSE <<NoWait, endOpenWait("phone", IF Sent(m) < wait.started THEN wait.started ELSE Sent(m))>>

\* A phone reply ends the wait it answers; what was sent after it waits on.
answeredFromPhone(m) ==
  LET later == {i \in DOMAIN created : FromCustomer(i) /\ Sent(i) > Sent(m)}
      first == CHOOSE i \in later : \A j \in later : Sent(i) <= Sent(j)
      last == CHOOSE i \in later : \A j \in later : Sent(i) >= Sent(j)
      reopenAfter == IF later = {} THEN NoWait
                     ELSE [started |-> created[first], sentAt |-> Sent(first), last |-> Sent(last)]
  IN IF ~Answers(m) THEN <<wait, ended>>
     ELSE <<reopenAfter,
            endOpenWait("phone", IF Sent(m) < wait.started THEN wait.started ELSE Sent(m))>>

closedWithoutReply == <<NoWait, endOpenWait("closed", now)>>

Wait(ok, next) ==
  /\ Recorded(ok)
  /\ wait' = IF ok THEN next[1] ELSE wait
  /\ ended' = IF ok THEN next[2] ELSE ended

\* A missed wait is open until something ends it or the customer writes again.
StillMissed == missed' = (missed /\ wait' # NoWait)

-----------------------------------------------------------------------------
Init ==
  /\ now = 1 /\ sent = <<>> /\ pending = {} /\ handler = NoEvent
  /\ created = <<>> /\ thread = NoThread /\ wait = NoWait /\ ended = <<>>
  /\ answer = [u \in CSes |-> NoAnswer]
  /\ blocked = NoneBlocked
  /\ unanswered = {} /\ missed = FALSE
  /\ spent = [replies |-> 0, redelivered |-> 0, troubles |-> 0]

Tick ==
  /\ now < MaxTime
  /\ now' = now + 1
  /\ UNCHANGED <<sent, pending, handler, created, thread, answer, blocked, figures, spent>>

\* The customer, or the phone that holds the number, sends a message.
Write(from) ==
  /\ Len(sent) < MaxSent
  /\ sent' = Append(sent, [from |-> from, at |-> now])
  /\ pending' = pending \cup {Len(sent) + 1}
  /\ UNCHANGED <<now, handler, created, thread, answer, blocked, figures, spent>>

\* WhatsApp delivers again an event it is unsure about.
Redeliver(m) ==
  /\ m \in DOMAIN created /\ Spare
  /\ pending' = pending \cup {m}
  /\ spent' = Spend("redelivered")
  /\ UNCHANGED <<whatsapp, handler, created, thread, answer, blocked, figures>>

\* WhatsApp hands over an earlier message of the customer later.
Stray(m) == \E i \in pending : FromCustomer(i) /\ i < m

\* handle: FindOrCreate, up to its read of the thread.
FindOrCreate(m) ==
  /\ handler = NoEvent /\ m \in pending /\ FromCustomer(m)
  /\ Stray(m) => Spare
  /\ pending' = pending \ {m}
  /\ handler' = [m |-> m, step |-> IF thread.status = "closed" THEN "reopen" ELSE "save", at |-> 0]
  /\ thread' = IF Exists THEN thread
               ELSE [status |-> "unassigned", holder |-> Nobody, at |-> now, spoke |-> "none"]
  /\ spent' = IF Stray(m) THEN Spend("troubles") ELSE spent
  /\ UNCHANGED <<whatsapp, created, answer, blocked, figures>>

\* handleFromPhone: a chat with nobody's thread stays out.
FindByPeer(m) ==
  /\ handler = NoEvent /\ m \in pending /\ ~FromCustomer(m)
  /\ pending' = pending \ {m}
  /\ handler' = IF Exists THEN [m |-> m, step |-> "save", at |-> 0] ELSE NoEvent
  /\ UNCHANGED <<whatsapp, created, thread, answer, blocked, figures, spent>>

\* FindOrCreate's update, by the status it has read.
Reopen ==
  /\ handler.step = "reopen" /\ ThreadFree
  /\ thread' = [thread EXCEPT !.status = "unassigned", !.holder = Nobody]
  /\ handler' = [handler EXCEPT !.step = "save"]
  /\ answer' = Moved
  /\ UNCHANGED <<whatsapp, pending, created, blocked, figures, spent>>

\* saveArrived: a message that is stored already changes nothing.
SaveDuplicate ==
  /\ handler.step = "save" /\ handler.m \in DOMAIN created
  /\ handler' = NoEvent
  /\ UNCHANGED <<whatsapp, pending, created, thread, answer, blocked, figures, spent>>

Store(m, at) == created' = [i \in DOMAIN created \cup {m} |-> IF i = m THEN at ELSE created[i]]

\* saveArrived inserts a customer's message: created_at is taken.
Insert ==
  /\ handler.step = "save" /\ handler.m \notin DOMAIN created /\ FromCustomer(handler.m)
  /\ handler' = [handler EXCEPT !.step = "inserted", !.at = now]
  /\ UNCHANGED <<whatsapp, pending, created, thread, answer, blocked, figures, spent>>

\* The rest of its transaction, from bumpConversation on.
SaveInbound(ok) ==
  LET m == handler.m
  IN /\ Storing /\ ThreadFree
     /\ Store(m, handler.at)
     /\ thread' = [thread EXCEPT !.at = Sent(m), !.spoke = "in"]
     /\ Wait(ok, customerWrote(m)) /\ missed' = (missed /\ ~ok)
     /\ unanswered' = unanswered \cup {m}
     /\ handler' = NoEvent
     /\ spent' = SpendUnless(ok)
     /\ UNCHANGED <<whatsapp, pending, answer, blocked>>

\* Mutant: the thread counts as answered however late the phone's message comes.
IsNewest_Always(m) == TRUE

\* markAnsweredFromPhone's condition.
IsNewest(m) == thread.at <= Sent(m)

\* The phone's message is the newest: its transaction locks the thread's row.
SaveFromPhone(ok) ==
  LET m == handler.m
  IN /\ handler.step = "save" /\ m \notin DOMAIN created /\ ~FromCustomer(m)
     /\ IsNewest(m) /\ ThreadFree
     /\ Store(m, now)
     /\ thread' = [thread EXCEPT !.at = Sent(m), !.spoke = "out"]
     /\ Wait(ok, answeredFromPhone(m)) /\ StillMissed
     /\ unanswered' = {i \in unanswered : Sent(i) > Sent(m)}
     /\ handler' = NoEvent
     /\ spent' = SpendUnless(ok)
     /\ UNCHANGED <<whatsapp, pending, answer, blocked>>

\* It is late: the update hits no row, and locks none.
PhoneIsLate ==
  /\ handler.step = "save" /\ handler.m \notin DOMAIN created /\ ~FromCustomer(handler.m)
  /\ ~IsNewest(handler.m)
  /\ handler' = [handler EXCEPT !.step = "late"]
  /\ UNCHANGED <<whatsapp, pending, created, thread, answer, blocked, figures, spent>>

\* endOpenWait has the row of the open wait; nobody sees that it ended.
EndWaitLate ==
  /\ handler.step = "late" /\ Answers(handler.m)
  /\ handler' = [handler EXCEPT !.step = "ending"]
  /\ UNCHANGED <<whatsapp, pending, created, thread, answer, blocked, figures, spent>>

\* The late message's transaction commits.  Who was blocked on the wait finds
\* that one ended and does not see the one reopenAfter opened; if the
\* bookkeeping was rolled back, he ends the wait as he would have.
SaveLate(ok) ==
  LET m == handler.m
  IN /\ handler.step \in {"late", "ending"}
     /\ handler.step = "late" /\ ok => ~Answers(m)
     /\ Store(m, now)
     /\ Wait(ok, answeredFromPhone(m)) /\ StillMissed
     /\ unanswered' = {i \in unanswered : Sent(i) > Sent(m)}
     /\ handler' = NoEvent
     /\ blocked' = IF ThreadFree \/ ~ok THEN NoneBlocked ELSE [blocked EXCEPT !.step = "missing"]
     /\ spent' = SpendUnless(ok)
     /\ UNCHANGED <<whatsapp, pending, thread, answer>>

\* A query fails: the event is logged and dropped.
HandlerFails ==
  /\ handler # NoEvent /\ Spare
  /\ handler' = NoEvent
  /\ blocked' = IF blocked.step = "waiting" THEN NoneBlocked ELSE blocked
  /\ spent' = Spend("troubles")
  /\ UNCHANGED <<whatsapp, pending, created, thread, answer, figures>>

-----------------------------------------------------------------------------
\* Mutant: the status is not part of the claim's condition.
MayClaim_AnyStatus(u) == Exists

MayClaim(u) == thread.status = "unassigned"

\* holdForReply: claim a thread nobody holds, or hold it already.
HoldForReply(u) ==
  /\ Exists /\ answer[u] = NoAnswer /\ spent.replies < MaxReplies
  /\ \/ MayClaim(u) /\ ThreadFree
     \/ ~MayClaim(u) /\ thread.holder = u
  /\ thread' = IF MayClaim(u) THEN [thread EXCEPT !.status = "open", !.holder = u] ELSE thread
  /\ answer' = [answer EXCEPT ![u] = [step |-> "holding", at |-> 0, moved |-> FALSE]]
  /\ spent' = Spend("replies")
  /\ UNCHANGED <<whatsapp, pending, handler, created, blocked, figures>>

\* Queue stamps the reply before its transaction.
Stamp(u) ==
  /\ answer[u].step = "holding"
  /\ answer' = [answer EXCEPT ![u].step = "stamped", ![u].at = now]
  /\ UNCHANGED <<whatsapp, pending, handler, created, thread, blocked, figures, spent>>

\* touchTx and its commit.
Touch(u) ==
  /\ thread' = [thread EXCEPT !.at = answer[u].at, !.spoke = "out"]
  /\ unanswered' = {}
  /\ answer' = [answer EXCEPT ![u] = NoAnswer]

Queue(u, ok) ==
  /\ answer[u].step = "stamped" /\ ThreadFree
  /\ ok => handler.step # "ending"
  /\ Touch(u)
  /\ Wait(ok, replied(answer[u].at)) /\ StillMissed
  /\ spent' = SpendUnless(ok)
  /\ UNCHANGED <<whatsapp, pending, handler, created, blocked>>

QueueFails(u) ==
  /\ answer[u].step = "stamped" /\ Spare
  /\ answer' = [answer EXCEPT ![u] = NoAnswer]
  /\ blocked' = IF blocked.who = u THEN NoneBlocked ELSE blocked
  /\ spent' = Spend("troubles")
  /\ UNCHANGED <<whatsapp, pending, handler, created, thread, figures>>

\* A thread is handed to a CS, also a closed one and one somebody else holds.
Assign(u) ==
  /\ Exists /\ ThreadFree
  /\ thread' = [thread EXCEPT !.status = "open", !.holder = u]
  /\ answer' = IF u = thread.holder THEN answer ELSE Moved
  /\ UNCHANGED <<whatsapp, pending, handler, created, blocked, figures, spent>>

\* The holder stays on the row.
Finish ==
  /\ thread' = [thread EXCEPT !.status = "closed"]
  /\ unanswered' = {}
  /\ UNCHANGED answer

Close(ok) ==
  /\ Exists /\ ThreadFree
  /\ ok => handler.step # "ending"
  /\ Finish
  /\ Wait(ok, closedWithoutReply) /\ StillMissed
  /\ spent' = SpendUnless(ok)
  /\ UNCHANGED <<whatsapp, pending, handler, created, blocked>>

\* A reply, or a close, has the thread's row and waits for the wait's.
Block(who) ==
  /\ handler.step = "ending" /\ ThreadFree
  /\ who # Nobody => answer[who].step = "stamped"
  /\ blocked' = [step |-> "waiting", who |-> who]
  /\ UNCHANGED <<whatsapp, pending, handler, created, thread, answer, figures, spent>>

\* It goes on: its update has hit no row, so it commits and ends no wait.
Miss ==
  /\ blocked.step = "missing"
  /\ IF blocked.who = Nobody THEN Finish ELSE Touch(blocked.who)
  /\ blocked' = NoneBlocked
  /\ missed' = (wait # NoWait)
  /\ UNCHANGED <<whatsapp, pending, handler, created, wait, ended, spent>>

Session ==
  \/ \E m \in pending : FindOrCreate(m) \/ FindByPeer(m)
  \/ Reopen \/ SaveDuplicate \/ Insert \/ PhoneIsLate \/ EndWaitLate \/ HandlerFails
  \/ \E ok \in BOOLEAN : SaveInbound(ok) \/ SaveFromPhone(ok) \/ SaveLate(ok)

Inbox ==
  \/ \E u \in CSes : HoldForReply(u) \/ Stamp(u) \/ QueueFails(u) \/ Assign(u)
  \/ \E ok \in BOOLEAN : Close(ok) \/ \E u \in CSes : Queue(u, ok)
  \/ Miss \/ \E who \in CSes \cup {Nobody} : Block(who)

Next ==
  \/ Tick
  \/ \E from \in {"customer", "phone"} : Write(from)
  \/ \E m \in DOMAIN created : Redeliver(m)
  \/ Session
  \/ Inbox

Spec == Init /\ [][Next]_vars

-----------------------------------------------------------------------------
Times == 0 .. MaxTime

(* The holder and the status move together, as the check constraint        *)
(* cs_conversations_holder_matches_status demands.                         *)
HolderMatchesStatus ==
  /\ thread.status = "unassigned" => thread.holder = Nobody
  /\ thread.status = "open" => thread.holder # Nobody

TypeOK ==
  /\ now \in Times /\ pending \subseteq DOMAIN sent /\ DOMAIN created \subseteq DOMAIN sent
  /\ handler \in [m : 0 .. MaxSent, at : Times,
                 step : {"idle", "reopen", "save", "inserted", "late", "ending"}]
  /\ thread \in [status : {"none", "unassigned", "open", "closed"}, holder : CSes \cup {Nobody},
                 at : Times, spoke : {"none", "in", "out"}]
  /\ HolderMatchesStatus
  /\ wait \in [started : Times, sentAt : Times, last : Times]
  /\ answer \in [CSes -> [step : {"idle", "holding", "stamped"}, at : Times, moved : BOOLEAN]]
  /\ blocked \in [step : {"no", "waiting", "missing"}, who : CSes \cup {Nobody}]
  /\ unanswered \subseteq DOMAIN created /\ missed \in BOOLEAN

(* "two first replies checking beforehand would both read unassigned and   *)
(* both go out": two CS answer at once only if the thread was handed over  *)
(* or released between the two.                                            *)
OneFirstReply ==
  \A u, v \in CSes :
     /\ answer[u].step # "idle" /\ ~answer[u].moved
     /\ answer[v].step # "idle" /\ ~answer[v].moved
     => u = v

\* The code accepts a wrong figure over a lost message, and counts on the
\* customer's messages coming in order.
Undisturbed == spent.troubles = 0

(* The figures are right: whoever is unanswered has a wait, and a wait is  *)
(* somebody's, whatever came late or again, unless an answer missed it     *)
(* while the phone's late message was reopening it.                        *)
OpenWaitIsUnanswered == Undisturbed =>
  /\ unanswered # {} => wait # NoWait
  /\ wait # NoWait /\ ~missed => unanswered # {}

(* The inbox and the figures agree: a thread with a customer who waits is  *)
(* one where the customer spoke last, with the same exception.             *)
WaitShowsInInbox == Undisturbed /\ wait # NoWait /\ ~missed => thread.spoke = "in"

(* Nobody's waiting is counted twice: a wait starts after the end of the   *)
(* one before it, unless its message was being stored when that one ended. *)
WaitsDoNotOverlap == Undisturbed =>
  /\ \A i \in 1 .. Len(ended) - 1 : ended[i].crossed \/ ended[i].at <= ended[i + 1].started
  /\ wait # NoWait /\ ended # <<>> =>
       ended[Len(ended)].crossed \/ ended[Len(ended)].at <= wait.started

(* "FindOrCreate reopens a closed thread before the message is stored, so  *)
(* by the time this filter runs it is unassigned again": no customer waits *)
(* in a closed thread, where the inbox hides them.                         *)
NobodyWaitsInClosed == wait # NoWait => thread.status # "closed"
=============================================================================
