--------------------------- MODULE CsThreadProofs ---------------------------
(***************************************************************************)
(* Theorems about CsThread for any number of CS, messages, replies,        *)
(* redeliveries and troubles, and for any clock and customer silence.      *)
(***************************************************************************)
EXTENDS CsThread, WellFoundedInduction, TLAPS

Reasons == {"abandoned", "replied", "phone", "closed"}
Ended == [started : Nat, at : Nat, reason : Reasons, crossed : BOOLEAN]
Message == [from : {"customer", "phone"}, at : Nat]

(* The shape of the state, part by part.                                   *)
ClockOK ==
  /\ now \in 1..MaxTime
  /\ spent \in [replies : Nat, redelivered : Nat, troubles : Nat]
SentOK ==
  /\ sent \in Seq(Message) /\ Len(sent) <= MaxSent
  /\ \A i \in DOMAIN sent : 1 <= Sent(i) /\ Sent(i) <= now
  /\ \A i, k \in DOMAIN sent : i <= k => Sent(i) <= Sent(k)
  /\ pending \subseteq DOMAIN sent
StoredOK ==
  /\ DOMAIN created \subseteq DOMAIN sent
  /\ \A i \in DOMAIN created : created[i] \in Nat /\ Sent(i) <= created[i] /\ created[i] <= now
  /\ unanswered \subseteq {i \in DOMAIN created : FromCustomer(i)}
HandlerOK ==
  /\ handler \in [m : 0..MaxSent, at : 0..now,
                  step : {"idle", "reopen", "save", "inserted", "late", "ending"}]
  /\ handler.step = "idle" => handler = NoEvent
  /\ handler.step # "idle" => handler.m \in DOMAIN sent /\ Exists
  /\ Storing => FromCustomer(handler.m) /\ Sent(handler.m) <= handler.at
  /\ handler.step \in {"inserted", "late", "ending"} => handler.m \notin DOMAIN created
  /\ handler.step \in {"late", "ending"} => ~FromCustomer(handler.m)
ThreadOK ==
  /\ thread \in [status : {"none", "unassigned", "open", "closed"}, holder : CSes \cup {Nobody},
                 at : Times, spoke : {"none", "in", "out"}]
  /\ HolderMatchesStatus
  /\ ~Exists => thread.holder = Nobody /\ DOMAIN created = {}
WaitsOK ==
  /\ wait \in [started : 0..now, sentAt : 0..now, last : 0..now]
  /\ ended \in Seq(Ended)
  /\ \A i \in 1..Len(ended) : ended[i].at <= now
AnswersOK ==
  /\ answer \in [CSes -> [step : {"idle", "holding", "stamped"}, at : Nat, moved : BOOLEAN]]
  /\ \A u \in CSes : answer[u].at <= now
BlockedOK ==
  /\ blocked \in [step : {"no", "waiting", "missing"}, who : CSes \cup {Nobody}]
  /\ missed \in BOOLEAN
Shape ==
  ClockOK /\ SentOK /\ StoredOK /\ HandlerOK /\ ThreadOK /\ WaitsOK /\ AnswersOK /\ BlockedOK

LEMMA ShapeIsType == Shape => TypeOK
<1>. SUFFICES ASSUME Shape PROVE TypeOK
  OBVIOUS
<1>. USE DEF Shape
<1>1. now \in Times /\ \A n \in Nat : n <= now => n \in Times
  BY ParametersAssumption DEF ClockOK, Times
<1>2. wait \in [started : Times, sentAt : Times, last : Times]
  BY <1>1 DEF WaitsOK, ClockOK
<1>3. answer \in [CSes -> [step : {"idle", "holding", "stamped"}, at : Times, moved : BOOLEAN]]
  BY <1>1 DEF AnswersOK
<1>4. handler \in [m : 0..MaxSent, at : Times,
                    step : {"idle", "reopen", "save", "inserted", "late", "ending"}]
  BY <1>1 DEF HandlerOK, ClockOK
<1>. QED
  BY <1>1, <1>2, <1>3, <1>4 DEF TypeOK, SentOK, StoredOK, ThreadOK, BlockedOK

-----------------------------------------------------------------------------
(* Among finitely many messages there is an earliest and a latest.         *)

Before == {ss \in Nat \X Nat : ss[1] < ss[2]}

LEMMA BeforeIsWellFounded == IsWellFoundedOn(Before, Nat)
<1>1. Before = OpToRel(<, Nat)
  BY Zenon DEF Before, OpToRel
<1>. QED
  BY <1>1, NatLessThanWellFounded, Zenon

LEMMA Least ==
  ASSUME NEW T \in SUBSET Nat, T # {}
  PROVE  \E n \in T : \A k \in T : n <= k
<1>1. PICK n \in T : \A k \in T : <<k, n>> \notin Before
  BY BeforeIsWellFounded, WFMin
<1>2. ASSUME NEW k \in T PROVE n <= k
  <2>1. k \in Nat /\ n \in Nat /\ <<k, n>> \notin Before
    BY <1>1
  <2>2. <<k, n>>[1] = k /\ <<k, n>>[2] = n /\ <<k, n>> \in Nat \X Nat
    BY <2>1
  <2>3. ~ (k < n)
    BY <2>1, <2>2 DEF Before
  <2>. QED
    BY <2>1, <2>3
<1>. QED
  BY <1>2

LEMMA Elements ==
  ASSUME NEW S, NEW s \in Seq(S)
  PROVE  /\ Len(s) \in Nat /\ DOMAIN s = 1..Len(s)
         /\ \A i \in DOMAIN s : s[i] \in S /\ i \in 1..Len(s)
OBVIOUS

LEMMA SentAt ==
  ASSUME ClockOK, SentOK, NEW i \in DOMAIN sent
  PROVE  /\ sent[i] \in Message
         /\ Sent(i) \in 1..now /\ now \in Nat \ {0} /\ i \in 1..Len(sent) /\ Len(sent) \in Nat
<1>1. sent[i] \in Message /\ i \in 1..Len(sent) /\ Len(sent) \in Nat
  BY Elements DEF SentOK
<1>2. now \in Nat \ {0}
  BY ParametersAssumption DEF ClockOK
<1>3. Sent(i) \in Nat
  BY <1>1 DEF Sent, Message
<1>4. 1 <= Sent(i) /\ Sent(i) <= now
  BY DEF SentOK
<1>. QED
  BY <1>1, <1>2, <1>3, <1>4

LEMMA EarliestAndLatest ==
  ASSUME ClockOK, SentOK, NEW S \in SUBSET DOMAIN sent, S # {}
  PROVE  /\ \E i \in S : \A j \in S : Sent(i) <= Sent(j)
         /\ \E i \in S : \A j \in S : Sent(i) >= Sent(j)
<1>0. now \in Nat /\ \A i \in S : Sent(i) \in Nat /\ Sent(i) <= now
  <2>1. now \in Nat
    BY ParametersAssumption DEF ClockOK
  <2>. QED
    BY <2>1, SentAt
<1>1. \E i \in S : \A j \in S : Sent(i) <= Sent(j)
  <2>1. {Sent(i) : i \in S} \in SUBSET Nat /\ {Sent(i) : i \in S} # {}
    BY <1>0
  <2>2. PICK n \in {Sent(i) : i \in S} : \A k \in {Sent(i) : i \in S} : n <= k
    BY <2>1, Least
  <2>. QED
    BY <2>2
<1>2. \E i \in S : \A j \in S : Sent(i) >= Sent(j)
  <2>1. {now - Sent(i) : i \in S} \in SUBSET Nat /\ {now - Sent(i) : i \in S} # {}
    BY <1>0
  <2>2. PICK n \in {now - Sent(i) : i \in S} : \A k \in {now - Sent(i) : i \in S} : n <= k
    BY <2>1, Least
  <2>3. PICK i \in S : n = now - Sent(i)
    BY <2>2
  <2>4. \A j \in S : now - Sent(i) <= now - Sent(j)
    BY <2>2, <2>3
  <2>. QED
    BY <1>0, <2>4
<1>. QED
  BY <1>1, <1>2

\* What a phone reply leaves unanswered, and the wait that follows from it.
Later(m) == {i \in DOMAIN created : FromCustomer(i) /\ Sent(i) > Sent(m)}
First(m) == CHOOSE i \in Later(m) : \A j \in Later(m) : Sent(i) <= Sent(j)
Last(m) == CHOOSE i \in Later(m) : \A j \in Later(m) : Sent(i) >= Sent(j)
PhoneEnd(m) == IF Sent(m) < wait.started THEN wait.started ELSE Sent(m)

LEMMA PhoneReply ==
  ASSUME NEW m
  PROVE  answeredFromPhone(m) =
           IF ~Answers(m) THEN <<wait, ended>>
           ELSE <<IF Later(m) = {} THEN NoWait
                  ELSE [started |-> created[First(m)], sentAt |-> Sent(First(m)),
                        last |-> Sent(Last(m))],
                  endOpenWait("phone", PhoneEnd(m))>>
BY DEF answeredFromPhone, Later, First, Last, PhoneEnd

LEMMA FirstAndLast ==
  ASSUME ClockOK, SentOK, StoredOK, NEW m, Later(m) # {}
  PROVE  /\ First(m) \in Later(m) /\ \A j \in Later(m) : Sent(First(m)) <= Sent(j)
         /\ Last(m) \in Later(m) /\ \A j \in Later(m) : Sent(Last(m)) >= Sent(j)
<1>1. Later(m) \in SUBSET DOMAIN sent
  BY DEF StoredOK, Later
<1>2. /\ \E i \in Later(m) : \A j \in Later(m) : Sent(i) <= Sent(j)
      /\ \E i \in Later(m) : \A j \in Later(m) : Sent(i) >= Sent(j)
  BY <1>1, EarliestAndLatest
<1>. QED
  BY <1>2 DEF First, Last

-----------------------------------------------------------------------------
(* What the bookkeeping of the waits returns.                              *)

Waiting == [started : 0..now, sentAt : 0..now, last : 0..now]

LEMMA EndedGrows ==
  ASSUME ClockOK, WaitsOK, NEW at \in Nat, at <= now, NEW reason \in Reasons
  PROVE  LET after == endOpenWait(reason, at)
         IN /\ after \in Seq(Ended)
            /\ \A i \in 1..Len(after) : after[i].at <= now
<1>1. CASE wait = NoWait
  BY <1>1 DEF WaitsOK, endOpenWait, Reasons
<1>2. CASE wait # NoWait
  <2>1. wait.started \in Nat
    BY DEF WaitsOK
  <2>2. [started |-> wait.started, at |-> at, reason |-> reason, crossed |-> Crosses(reason)] \in Ended
    BY <2>1 DEF Ended, Crosses, Storing
  <2>. QED
    BY <1>2, <2>2 DEF WaitsOK, endOpenWait, Reasons
<1>. QED
  BY <1>1, <1>2

LEMMA WaitsStayOK ==
  ASSUME ClockOK, WaitsOK, NEW at \in Nat, at <= now, NEW reason \in Reasons, NEW next, NEW w \in Waiting,
         next \in {<<w, ended>>, <<w, endOpenWait(reason, at)>>},
         NEW ok \in BOOLEAN, Wait(ok, next), UNCHANGED now
  PROVE  WaitsOK'
<1>1. wait' \in Waiting
  BY DEF Wait, WaitsOK, Waiting
<1>2. ended' \in {ended, endOpenWait(reason, at)}
  BY DEF Wait
<1>3. /\ ended' \in Seq(Ended)
      /\ \A i \in 1..Len(ended') : ended'[i].at <= now
  BY <1>2, EndedGrows DEF WaitsOK, Reasons
<1>. QED
  BY <1>1, <1>3 DEF WaitsOK, Waiting, Reasons

LEMMA NoWaitWaits == ClockOK => NoWait \in Waiting
BY ParametersAssumption DEF ClockOK, NoWait, Waiting

-----------------------------------------------------------------------------
(* Action by action, the shape stays.                                      *)

\* What an action leaves alone stays as it was.
LEMMA Stays ==
  /\ ClockOK /\ UNCHANGED <<now, spent>> => ClockOK'
  /\ SentOK /\ UNCHANGED <<now, sent, pending>> => SentOK'
  /\ StoredOK /\ UNCHANGED <<now, sent, created, unanswered>> => StoredOK'
  /\ HandlerOK /\ UNCHANGED <<now, sent, created, handler, thread>> => HandlerOK'
  /\ ThreadOK /\ UNCHANGED <<created, thread>> => ThreadOK'
  /\ WaitsOK /\ UNCHANGED <<now, wait, ended>> => WaitsOK'
  /\ AnswersOK /\ UNCHANGED <<now, answer>> => AnswersOK'
  /\ BlockedOK /\ UNCHANGED <<blocked, missed>> => BlockedOK'
<1>1. ClockOK /\ UNCHANGED <<now, spent>> => ClockOK'
  BY DEF ClockOK
<1>2. SentOK /\ UNCHANGED <<now, sent, pending>> => SentOK'
  BY DEF SentOK, Sent
<1>3. StoredOK /\ UNCHANGED <<now, sent, created, unanswered>> => StoredOK'
  BY DEF StoredOK, Sent, FromCustomer
<1>4. HandlerOK /\ UNCHANGED <<now, sent, created, handler, thread>> => HandlerOK'
  BY DEF HandlerOK, Exists, Storing, FromCustomer, Sent
<1>5. ThreadOK /\ UNCHANGED <<created, thread>> => ThreadOK'
  BY DEF ThreadOK, HolderMatchesStatus, Exists
<1>6. WaitsOK /\ UNCHANGED <<now, wait, ended>> => WaitsOK'
  BY DEF WaitsOK
<1>7. AnswersOK /\ UNCHANGED <<now, answer>> => AnswersOK'
  BY DEF AnswersOK
<1>8. BlockedOK /\ UNCHANGED <<blocked, missed>> => BlockedOK'
  BY DEF BlockedOK
<1>. QED
  BY <1>1, <1>2, <1>3, <1>4, <1>5, <1>6, <1>7, <1>8

LEMMA SpendOK ==
  ASSUME ClockOK, NEW what \in {"replies", "redelivered", "troubles"},
         spent' \in {spent, Spend(what)}, UNCHANGED now
  PROVE  ClockOK'
BY DEF ClockOK, Spend

LEMMA MovedOK ==
  ASSUME AnswersOK, answer' \in {answer, Moved}, UNCHANGED now
  PROVE  AnswersOK'
<1>1. /\ Moved \in [CSes -> [step : {"idle", "holding", "stamped"}, at : Nat, moved : BOOLEAN]]
      /\ \A u \in CSes : Moved[u].at = answer[u].at
  BY DEF AnswersOK, Moved
<1>. QED
  BY <1>1 DEF AnswersOK

LEMMA InitShape == Init => Shape
<1>. SUFFICES ASSUME Init PROVE Shape
  OBVIOUS
<1>1. ClockOK /\ SentOK
  BY ParametersAssumption DEF Init, ClockOK, SentOK, Message
<1>2. StoredOK
  BY DEF Init, StoredOK
<1>6. BlockedOK
  BY DEF Init, BlockedOK, NoneBlocked
<1>5. HandlerOK
  <2>1. now = 1 /\ 0 \in 0..MaxSent /\ 0 \in 0..now
    BY ParametersAssumption DEF Init
  <2>. QED
    BY <2>1 DEF Init, HandlerOK, NoEvent, Storing
<1>3. ThreadOK /\ WaitsOK
  BY ParametersAssumption DEF Init, ThreadOK, WaitsOK, NoThread, NoWait, Exists, HolderMatchesStatus, Times
<1>4. AnswersOK
  BY DEF Init, AnswersOK, NoAnswer
<1>. QED
  BY <1>1, <1>2, <1>3, <1>4, <1>5, <1>6 DEF Shape

LEMMA TickShape == ASSUME Shape, Tick PROVE Shape'
<1>1. ClockOK' /\ now' \in Nat /\ now <= now' /\ now \in Nat
  BY ParametersAssumption DEF Tick, Shape, ClockOK
<1>2. SentOK'
  <2>1. \A i \in DOMAIN sent : Sent(i) \in Nat /\ Sent(i) <= now
    BY SentAt DEF Shape, SentOK
  <2>. QED
    BY <1>1, <2>1 DEF Tick, Shape, SentOK, Sent
<1>3. StoredOK'
  BY <1>1 DEF Tick, figures, Shape, StoredOK, Sent, FromCustomer
<1>4. WaitsOK'
  <2>1. \A n \in 0..now : n \in 0..now'
    BY <1>1
  <2>2. wait' \in [started : 0..now', sentAt : 0..now', last : 0..now']
    BY <2>1 DEF Tick, figures, Shape, WaitsOK
  <2>3. \A i \in 1..Len(ended) : ended[i].at \in Nat /\ ended[i].at <= now
    <3>1. \A i \in 1..Len(ended) : ended[i] \in Ended
      BY Elements DEF Shape, WaitsOK
    <3>. QED
      BY <3>1 DEF Ended, Shape, WaitsOK
  <2>4. \A i \in 1..Len(ended) : ended[i].at <= now'
    BY <1>1, <2>3
  <2>. QED
    BY <2>2, <2>4 DEF Tick, figures, Shape, WaitsOK
<1>5. AnswersOK'
  BY <1>1 DEF Tick, Shape, AnswersOK
<1>6. HandlerOK'
  <2>1. \A n \in 0..now : n \in 0..now'
    BY <1>1
  <2>. QED
    BY <2>1 DEF Tick, Shape, HandlerOK, Exists, Storing, FromCustomer, Sent
<1>7. ThreadOK' /\ BlockedOK'
  BY Stays DEF Tick, figures, Shape
<1>. QED
  BY <1>1, <1>2, <1>3, <1>4, <1>5, <1>6, <1>7 DEF Shape

LEMMA WriteShape ==
  ASSUME Shape, NEW from \in {"customer", "phone"}, Write(from)
  PROVE  Shape'
<1>. DEFINE new == [from |-> from, at |-> now]
<1>1. now \in Nat \ {0} /\ new \in Message
  BY ParametersAssumption DEF Shape, ClockOK, Message
<1>. PICK n \in Nat : n = Len(sent)
  BY Elements DEF Shape, SentOK
<1>2. /\ sent \in Seq(Message) /\ sent' = Append(sent, new) /\ n + 1 <= MaxSent
  BY ParametersAssumption DEF Shape, SentOK, Write
<1>3. /\ sent' \in Seq(Message) /\ Len(sent') = n + 1
      /\ DOMAIN sent' = 1..(n + 1) /\ DOMAIN sent = 1..n
      /\ \A i \in DOMAIN sent : sent'[i] = sent[i]
      /\ sent'[n + 1] = new
  BY <1>1, <1>2
<1>4. SentOK'
  <2>1. \A i \in DOMAIN sent : Sent(i)' = Sent(i) /\ Sent(i) \in 1..now
    BY <1>3, SentAt DEF Shape, Sent
  <2>2. Sent(n + 1)' = now
    BY <1>3 DEF Sent
  <2>3. \A i \in DOMAIN sent' : i \in DOMAIN sent \/ i = n + 1
    BY <1>3
  <2>4. \A i \in DOMAIN sent' : Sent(i)' \in 1..now
    BY <1>1, <2>1, <2>2, <2>3
  <2>5. \A i, k \in DOMAIN sent' : i <= k => Sent(i)' <= Sent(k)'
    <3>1. SUFFICES ASSUME NEW i \in DOMAIN sent', NEW k \in DOMAIN sent', i <= k
                   PROVE  Sent(i)' <= Sent(k)'
      OBVIOUS
    <3>2. CASE k = n + 1
      BY <1>1, <2>2, <2>4, <3>2
    <3>3. CASE k # n + 1
      <4>1. k \in DOMAIN sent /\ i \in DOMAIN sent
        BY <1>3, <3>1, <3>3
      <4>. QED
        BY <2>1, <3>1, <4>1 DEF Shape, SentOK
    <3>. QED
      BY <3>2, <3>3
  <2>6. pending' \subseteq DOMAIN sent'
    BY <1>2, <1>3 DEF Write, Shape, SentOK
  <2>7. \A i \in DOMAIN sent' : 1 <= Sent(i)' /\ Sent(i)' <= now'
    BY <1>1, <2>4 DEF Write
  <2>. QED
    BY <1>2, <1>3, <2>5, <2>6, <2>7 DEF SentOK
<1>5. StoredOK'
  BY <1>3 DEF Write, figures, Shape, StoredOK, Sent, FromCustomer
<1>6. HandlerOK'
  BY <1>3 DEF Write, Shape, HandlerOK, Exists, Storing, FromCustomer, Sent
<1>7. ClockOK' /\ ThreadOK' /\ WaitsOK' /\ AnswersOK' /\ BlockedOK'
  BY Stays DEF Write, figures, Shape
<1>. QED
  BY <1>4, <1>5, <1>6, <1>7 DEF Shape

LEMMA RedeliverShape ==
  ASSUME Shape, NEW m \in DOMAIN created, Redeliver(m)
  PROVE  Shape'
<1>1. ClockOK'
  BY SpendOK DEF Redeliver, whatsapp, Shape
<1>2. SentOK'
  BY DEF Redeliver, whatsapp, Shape, SentOK, StoredOK, Sent
<1>3. StoredOK' /\ HandlerOK' /\ ThreadOK' /\ WaitsOK' /\ AnswersOK' /\ BlockedOK'
  BY Stays DEF Redeliver, whatsapp, figures, Shape
<1>. QED
  BY <1>1, <1>2, <1>3 DEF Shape

LEMMA FindOrCreateShape ==
  ASSUME Shape, NEW m \in pending, FindOrCreate(m)
  PROVE  Shape'
<1>1. ClockOK'
  BY SpendOK DEF FindOrCreate, whatsapp, Shape
<1>2. SentOK' /\ m \in DOMAIN sent
  BY DEF FindOrCreate, whatsapp, Shape, SentOK, Sent
<1>3. m \in 0..MaxSent /\ now \in Times /\ 0 \in 0..now
  BY <1>2, SentAt, ParametersAssumption DEF Shape, SentOK, ClockOK, Times
<1>4. ThreadOK' /\ Exists'
  BY <1>3 DEF FindOrCreate, figures, Shape, ThreadOK, HolderMatchesStatus, Exists
<1>5. HandlerOK'
  BY <1>2, <1>3, <1>4 DEF FindOrCreate, whatsapp, HandlerOK, Storing
<1>6. StoredOK' /\ WaitsOK' /\ AnswersOK' /\ BlockedOK'
  BY Stays DEF FindOrCreate, whatsapp, figures, Shape
<1>. QED
  BY <1>1, <1>2, <1>4, <1>5, <1>6 DEF Shape

LEMMA HandlerStops ==
  ASSUME ClockOK, HandlerOK, handler' = NoEvent, UNCHANGED now
  PROVE  HandlerOK'
BY ParametersAssumption DEF ClockOK, HandlerOK, NoEvent, Storing

LEMMA FindByPeerShape ==
  ASSUME Shape, NEW m \in pending, FindByPeer(m)
  PROVE  Shape'
<1>1. SentOK' /\ m \in DOMAIN sent
  BY DEF FindByPeer, whatsapp, Shape, SentOK, Sent
<1>2. m \in 0..MaxSent /\ 0 \in 0..now
  BY <1>1, SentAt, ParametersAssumption DEF Shape, SentOK, ClockOK
<1>3. HandlerOK'
  <2>1. CASE Exists
    BY <1>1, <1>2, <2>1 DEF FindByPeer, whatsapp, HandlerOK, Exists, Storing
  <2>2. CASE ~Exists
    BY <2>2, HandlerStops DEF FindByPeer, whatsapp, Shape
  <2>. QED
    BY <2>1, <2>2
<1>4. ClockOK' /\ StoredOK' /\ ThreadOK' /\ WaitsOK' /\ AnswersOK' /\ BlockedOK'
  BY Stays DEF FindByPeer, whatsapp, figures, Shape
<1>. QED
  BY <1>1, <1>3, <1>4 DEF Shape

LEMMA ReopenShape == ASSUME Shape, Reopen PROVE Shape'
<1>1. ThreadOK' /\ Exists'
  BY DEF Reopen, figures, Shape, ThreadOK, HandlerOK, HolderMatchesStatus, Exists
<1>2. HandlerOK'
  BY <1>1 DEF Reopen, whatsapp, Shape, HandlerOK, Storing
<1>3. AnswersOK'
  BY MovedOK DEF Reopen, whatsapp, Shape
<1>4. ClockOK' /\ SentOK' /\ StoredOK' /\ WaitsOK' /\ BlockedOK'
  BY Stays DEF Reopen, whatsapp, figures, Shape
<1>. QED
  BY <1>1, <1>2, <1>3, <1>4 DEF Shape

LEMMA DroppedShape ==
  ASSUME Shape, SaveDuplicate \/ HandlerFails
  PROVE  Shape'
<1>1. ClockOK'
  BY SpendOK, Stays DEF SaveDuplicate, HandlerFails, whatsapp, Shape
<1>2. HandlerOK'
  BY HandlerStops DEF SaveDuplicate, HandlerFails, whatsapp, Shape
<1>3. SentOK' /\ StoredOK' /\ ThreadOK' /\ WaitsOK' /\ AnswersOK'
  BY Stays DEF SaveDuplicate, HandlerFails, whatsapp, figures, Shape
<1>4. BlockedOK'
  BY DEF SaveDuplicate, HandlerFails, figures, Shape, BlockedOK, NoneBlocked
<1>. QED
  BY <1>1, <1>2, <1>3, <1>4 DEF Shape

\* The steps of a transaction that nobody sees yet.
LEMMA OnwardShape ==
  ASSUME Shape, Insert \/ PhoneIsLate \/ EndWaitLate
  PROVE  Shape'
<1>1. now \in Nat /\ (handler.m \in DOMAIN sent => Sent(handler.m) <= now)
  BY ParametersAssumption DEF Shape, ClockOK, SentOK
<1>2. HandlerOK'
  <2>1. CASE Insert
    <3>1. handler' = [[handler EXCEPT !.step = "inserted"] EXCEPT !.at = now]
      BY <2>1 DEF Insert
    <3>2. /\ handler'.m = handler.m /\ handler'.step = "inserted" /\ handler'.at = now
          /\ handler' \in [m : 0..MaxSent, at : 0..now,
                           step : {"idle", "reopen", "save", "inserted", "late", "ending"}]
      <4>1. now \in 0..now
        BY <1>1
      <4>. QED
        BY <3>1, <4>1 DEF Shape, HandlerOK
    <3>3. handler.m \in DOMAIN sent /\ Exists /\ FromCustomer(handler.m) /\ handler.m \notin DOMAIN created
      BY <2>1 DEF Insert, Shape, HandlerOK
    <3>. QED
      BY <1>1, <2>1, <3>2, <3>3 DEF Insert, whatsapp, HandlerOK, Storing, Exists, FromCustomer, Sent
  <2>2. CASE PhoneIsLate \/ EndWaitLate
    BY <2>2 DEF PhoneIsLate, EndWaitLate, whatsapp, Shape, HandlerOK, Storing, Exists, FromCustomer, Sent
  <2>. QED
    BY <2>1, <2>2
<1>3. ClockOK' /\ SentOK' /\ StoredOK' /\ ThreadOK' /\ WaitsOK' /\ AnswersOK' /\ BlockedOK'
  BY Stays DEF Insert, PhoneIsLate, EndWaitLate, whatsapp, figures, Shape
<1>. QED
  BY <1>2, <1>3 DEF Shape

\* Storing a message of the session's event.
LEMMA StoreOK ==
  ASSUME Shape, NEW m \in DOMAIN sent, NEW at \in 0..now, Sent(m) <= at, Store(m, at), UNCHANGED whatsapp,
         unanswered' \subseteq {i \in DOMAIN created : FromCustomer(i)} \cup (IF FromCustomer(m) THEN {m} ELSE {})
  PROVE  /\ StoredOK'
         /\ DOMAIN created' = DOMAIN created \cup {m} /\ created'[m] = at
         /\ m \notin DOMAIN created => \A i \in DOMAIN created : created'[i] = created[i]
<1>1. /\ DOMAIN created' = DOMAIN created \cup {m} /\ created'[m] = at
      /\ \A i \in DOMAIN created \ {m} : created'[i] = created[i]
  BY DEF Store
<1>2. at \in Nat /\ at <= now
  BY ParametersAssumption DEF Shape, ClockOK
<1>3. \A i \in DOMAIN created' : created'[i] \in Nat /\ Sent(i) <= created'[i] /\ created'[i] <= now
  BY <1>1, <1>2 DEF Shape, StoredOK
<1>4. StoredOK'
  BY <1>1, <1>3 DEF Shape, StoredOK, whatsapp, Sent, FromCustomer
<1>. QED
  BY <1>1, <1>4

\* A thread that the arrival of a message of its chat touches.
LEMMA ThreadHears ==
  ASSUME Shape, NEW at \in Times, NEW spoke \in {"in", "out"}, Exists,
         thread' \in {thread, [thread EXCEPT !.at = at, !.spoke = spoke]}
  PROVE  ThreadOK' /\ Exists'
<1>1. /\ thread'.status = thread.status /\ thread'.holder = thread.holder
      /\ thread' \in [status : {"none", "unassigned", "open", "closed"}, holder : CSes \cup {Nobody},
                      at : Times, spoke : {"none", "in", "out"}]
  BY DEF Shape, ThreadOK
<1>. QED
  BY <1>1 DEF Shape, ThreadOK, HolderMatchesStatus, Exists

\* What is left of a step that stores a message, once the rest is known.
LEMMA StoredShape ==
  ASSUME Shape, StoredOK', ThreadOK', WaitsOK', handler' = NoEvent,
         spent' \in {spent, Spend("troubles")}, UNCHANGED <<now, sent, pending, answer>>,
         blocked' \in [step : {"no", "waiting", "missing"}, who : CSes \cup {Nobody}], missed' \in BOOLEAN
  PROVE  Shape'
<1>1. ClockOK' /\ HandlerOK'
  BY SpendOK, HandlerStops DEF Shape
<1>2. SentOK' /\ AnswersOK' /\ BlockedOK'
  BY Stays DEF Shape, BlockedOK
<1>. QED
  BY <1>1, <1>2 DEF Shape

LEMMA CustomerWrote ==
  ASSUME Shape, NEW m \in DOMAIN sent
  PROVE  \E w \in Waiting : customerWrote(m) \in {<<w, ended>>, <<w, endOpenWait("abandoned", handler.at)>>}
<1>1. Sent(m) \in 0..now /\ handler.at \in 0..now
  BY SentAt DEF Shape, HandlerOK
<1>2. CASE wait # NoWait /\ wait.last >= Sent(m) - Silence
  <2>1. [wait EXCEPT !.last = IF wait.last < Sent(m) THEN Sent(m) ELSE wait.last] \in Waiting
    BY <1>1 DEF Shape, WaitsOK, Waiting
  <2>2. customerWrote(m) = <<[wait EXCEPT !.last = IF wait.last < Sent(m) THEN Sent(m) ELSE wait.last], ended>>
    BY <1>2 DEF customerWrote
  <2>. QED
    BY <2>1, <2>2
<1>3. CASE ~ (wait # NoWait /\ wait.last >= Sent(m) - Silence)
  <2>1. [started |-> handler.at, sentAt |-> Sent(m), last |-> Sent(m)] \in Waiting
    BY <1>1 DEF Waiting
  <2>2. customerWrote(m) = <<[started |-> handler.at, sentAt |-> Sent(m), last |-> Sent(m)],
                             endOpenWait("abandoned", handler.at)>>
    BY <1>3 DEF customerWrote
  <2>. QED
    BY <2>1, <2>2
<1>. QED
  BY <1>2, <1>3

LEMMA MissedIsBoolean ==
  ASSUME Shape, NEW ok \in BOOLEAN, StillMissed \/ missed' = (missed /\ ~ok)
  PROVE  missed' \in BOOLEAN
BY DEF StillMissed

LEMMA SaveInboundShape ==
  ASSUME Shape, NEW ok \in BOOLEAN, SaveInbound(ok)
  PROVE  Shape'
<1>. PICK m \in DOMAIN sent : m = handler.m
  BY DEF SaveInbound, Storing, Shape, HandlerOK
<1>0. /\ Exists /\ Sent(m) \in Times /\ handler.at \in 0..now /\ Sent(m) <= handler.at
      /\ handler.at \in Nat /\ handler.at <= now
  <2>1. Exists /\ handler.at \in 0..now /\ Sent(m) <= handler.at
    BY DEF SaveInbound, Storing, Shape, HandlerOK
  <2>2. Sent(m) \in 1..now /\ now \in Nat
    BY SentAt DEF Shape
  <2>3. now <= MaxTime
    BY ParametersAssumption DEF Shape, ClockOK
  <2>. QED
    BY <2>1, <2>2, <2>3, ParametersAssumption DEF Times
<1>1. StoredOK'
  <2>1. FromCustomer(m) /\ unanswered \subseteq {i \in DOMAIN created : FromCustomer(i)}
    BY DEF SaveInbound, Shape, HandlerOK, StoredOK
  <2>. QED
    BY <1>0, <2>1, StoreOK DEF SaveInbound
<1>2. ThreadOK'
  BY <1>0, ThreadHears DEF SaveInbound
<1>3. WaitsOK'
  <2>1. PICK w \in Waiting : customerWrote(m) \in {<<w, ended>>, <<w, endOpenWait("abandoned", handler.at)>>}
    BY CustomerWrote
  <2>2. Wait(ok, customerWrote(m)) /\ "abandoned" \in Reasons /\ UNCHANGED now
    BY DEF SaveInbound, Reasons, whatsapp
  <2>. QED
    BY <1>0, <2>1, <2>2, WaitsStayOK DEF Shape
<1>4. missed' \in BOOLEAN
  BY MissedIsBoolean DEF SaveInbound
<1>. QED
  BY <1>1, <1>2, <1>3, <1>4, StoredShape DEF SaveInbound, SpendUnless, whatsapp, Shape, BlockedOK

LEMMA AnsweredFromPhone ==
  ASSUME Shape, NEW m \in DOMAIN sent
  PROVE  /\ PhoneEnd(m) \in 0..now
         /\ \E w \in Waiting : answeredFromPhone(m) \in {<<w, ended>>, <<w, endOpenWait("phone", PhoneEnd(m))>>}
<1>1. Sent(m) \in 0..now /\ wait.started \in 0..now /\ wait \in Waiting
  BY SentAt DEF Shape, WaitsOK, Waiting
<1>2. PhoneEnd(m) \in 0..now
  BY <1>1 DEF PhoneEnd
<1>. DEFINE after == IF Later(m) = {} THEN NoWait
                     ELSE [started |-> created[First(m)], sentAt |-> Sent(First(m)), last |-> Sent(Last(m))]
<1>3. after \in Waiting
  <2>1. CASE Later(m) = {}
    BY <2>1, NoWaitWaits DEF Shape
  <2>2. CASE Later(m) # {}
    <3>1. First(m) \in DOMAIN created /\ Last(m) \in DOMAIN created
      BY <2>2, FirstAndLast DEF Shape, Later
    <3>2. created[First(m)] \in 0..now
      BY <3>1, SentAt DEF Shape, StoredOK
    <3>3. Sent(First(m)) \in 0..now /\ Sent(Last(m)) \in 0..now
      BY <3>1, SentAt DEF Shape, StoredOK
    <3>. QED
      BY <2>2, <3>2, <3>3 DEF Waiting
  <2>. QED
    BY <2>1, <2>2
<1>4. answeredFromPhone(m) \in {<<wait, ended>>, <<after, endOpenWait("phone", PhoneEnd(m))>>}
  BY PhoneReply
<1>. QED
  BY <1>1, <1>2, <1>3, <1>4

\* What the two ways of storing a message of the phone share.
LEMMA PhoneStores ==
  ASSUME Shape, NEW ok \in BOOLEAN, SaveFromPhone(ok) \/ SaveLate(ok)
  PROVE  /\ handler.m \in DOMAIN sent /\ handler.m \notin DOMAIN created /\ ~FromCustomer(handler.m)
         /\ Store(handler.m, now) /\ UNCHANGED <<now, sent, pending, answer>> /\ handler' = NoEvent
         /\ Wait(ok, answeredFromPhone(handler.m)) /\ StillMissed /\ spent' = SpendUnless(ok)
         /\ unanswered' = {i \in unanswered : Sent(i) > Sent(handler.m)}
         /\ \/ UNCHANGED thread
            \/ /\ thread.at <= Sent(handler.m)
               /\ thread' = [thread EXCEPT !.at = Sent(handler.m), !.spoke = "out"]
         /\ blocked' \in [step : {"no", "waiting", "missing"}, who : CSes \cup {Nobody}]
<1>1. CASE SaveFromPhone(ok)
  BY <1>1 DEF SaveFromPhone, IsNewest, whatsapp, Shape, HandlerOK, BlockedOK
<1>2. CASE SaveLate(ok)
  BY <1>2 DEF SaveLate, whatsapp, Shape, HandlerOK, BlockedOK, NoneBlocked
<1>. QED
  BY <1>1, <1>2

LEMMA PhoneShape ==
  ASSUME Shape, NEW ok \in BOOLEAN, SaveFromPhone(ok) \/ SaveLate(ok)
  PROVE  Shape'
<1>. PICK m \in DOMAIN sent : m = handler.m
  BY PhoneStores
<1>0. Exists /\ Sent(m) \in 1..now /\ now \in Nat /\ Sent(m) \in Times
  <2>1. Exists
    BY PhoneStores DEF SaveFromPhone, SaveLate, Shape, HandlerOK
  <2>2. Sent(m) \in 1..now /\ now \in Nat
    BY SentAt DEF Shape
  <2>3. now <= MaxTime
    BY ParametersAssumption DEF Shape, ClockOK
  <2>. QED
    BY <2>1, <2>2, <2>3, ParametersAssumption DEF Times
<1>1. StoredOK'
  <2>1. now \in 0..now /\ Sent(m) <= now
    BY <1>0
  <2>2. unanswered' \subseteq {i \in DOMAIN created : FromCustomer(i)} /\ Store(m, now) /\ UNCHANGED whatsapp
    BY PhoneStores DEF Shape, StoredOK, whatsapp
  <2>. QED
    BY <2>1, <2>2, StoreOK
<1>2. ThreadOK'
  BY <1>0, PhoneStores, ThreadHears
<1>3. WaitsOK'
  <2>1. PICK w \in Waiting : answeredFromPhone(m) \in {<<w, ended>>, <<w, endOpenWait("phone", PhoneEnd(m))>>}
    BY AnsweredFromPhone
  <2>2. Wait(ok, answeredFromPhone(m)) /\ "phone" \in Reasons /\ UNCHANGED now
    BY PhoneStores DEF Reasons
  <2>3. PhoneEnd(m) \in Nat /\ PhoneEnd(m) <= now
    BY <1>0, AnsweredFromPhone
  <2>. QED
    BY <2>1, <2>2, <2>3, WaitsStayOK DEF Shape
<1>4. missed' \in BOOLEAN
  BY PhoneStores, MissedIsBoolean
<1>. QED
  BY <1>1, <1>2, <1>3, <1>4, PhoneStores, StoredShape DEF SpendUnless

\* The thread's row is written, and nothing of the handler's.
LEMMA HandlerWaits ==
  ASSUME HandlerOK, Exists => Exists', UNCHANGED <<now, sent, created, handler>>
  PROVE  HandlerOK'
BY DEF HandlerOK, Storing, FromCustomer, Sent

LEMMA HoldForReplyShape ==
  ASSUME Shape, NEW u \in CSes, HoldForReply(u)
  PROVE  Shape'
<1>1. ThreadOK' /\ Exists'
  BY ParametersAssumption DEF HoldForReply, MayClaim, figures, Shape, ThreadOK, HolderMatchesStatus, Exists
<1>2. HandlerOK'
  BY <1>1, HandlerWaits DEF HoldForReply, whatsapp, Shape
<1>3. AnswersOK'
  BY ParametersAssumption DEF HoldForReply, whatsapp, Shape, AnswersOK, ClockOK
<1>4. ClockOK'
  BY SpendOK DEF HoldForReply, whatsapp, Shape
<1>5. SentOK' /\ StoredOK' /\ WaitsOK' /\ BlockedOK'
  BY Stays DEF HoldForReply, whatsapp, figures, Shape
<1>. QED
  BY <1>1, <1>2, <1>3, <1>4, <1>5 DEF Shape

LEMMA StampShape ==
  ASSUME Shape, NEW u \in CSes, Stamp(u)
  PROVE  Shape'
<1>1. now \in Nat
  BY ParametersAssumption DEF Shape, ClockOK
<1>2. AnswersOK'
  <2>1. answer' = [answer EXCEPT ![u] = [[answer[u] EXCEPT !.step = "stamped"] EXCEPT !.at = now]]
    BY DEF Stamp, Shape, AnswersOK
  <2>. QED
    BY <1>1, <2>1 DEF Stamp, whatsapp, Shape, AnswersOK
<1>3. ClockOK' /\ SentOK' /\ StoredOK' /\ HandlerOK' /\ ThreadOK' /\ WaitsOK' /\ BlockedOK'
  BY Stays DEF Stamp, whatsapp, figures, Shape
<1>. QED
  BY <1>2, <1>3 DEF Shape

\* A reply touches the thread, or a CS finishes it: nobody is unanswered.
LEMMA AnsweredShape ==
  ASSUME Shape, Finish \/ (\E u \in CSes : Touch(u)), UNCHANGED <<now, sent, created, handler>>
  PROVE  ThreadOK' /\ HandlerOK' /\ StoredOK' /\ AnswersOK'
<1>1. CASE Finish
  BY <1>1, HandlerWaits DEF Finish, Shape, ThreadOK, AnswersOK, StoredOK, HolderMatchesStatus, Exists, Sent
<1>2. ASSUME NEW u \in CSes, Touch(u) PROVE ThreadOK' /\ HandlerOK' /\ StoredOK' /\ AnswersOK'
  <2>0. answer[u].at \in Times
    <3>1. answer[u].at \in Nat /\ answer[u].at <= now
      BY DEF Shape, AnswersOK
    <3>2. now \in Nat /\ now <= MaxTime
      BY ParametersAssumption DEF Shape, ClockOK
    <3>. QED
      BY <3>1, <3>2, ParametersAssumption DEF Times
  <2>1. /\ thread'.status = thread.status /\ thread'.holder = thread.holder
        /\ thread' \in [status : {"none", "unassigned", "open", "closed"}, holder : CSes \cup {Nobody},
                        at : Times, spoke : {"none", "in", "out"}]
    BY <1>2, <2>0 DEF Touch, Shape, ThreadOK
  <2>2. ThreadOK'
    BY <2>1 DEF Shape, ThreadOK, HolderMatchesStatus, Exists
  <2>3. StoredOK'
    BY <1>2 DEF Touch, Shape, StoredOK, Sent
  <2>4. AnswersOK'
    <3>1. answer' = [answer EXCEPT ![u] = NoAnswer]
      BY <1>2 DEF Touch
    <3>2. 0 <= now
      BY ParametersAssumption DEF Shape, ClockOK
    <3>. QED
      BY <3>1, <3>2 DEF Shape, AnswersOK, NoAnswer
  <2>5. HandlerOK'
    BY <2>1, HandlerWaits DEF Shape, Exists
  <2>. QED
    BY <2>2, <2>3, <2>4, <2>5
<1>. QED
  BY <1>1, <1>2

LEMMA QueueShape ==
  ASSUME Shape, NEW u \in CSes, NEW ok \in BOOLEAN, Queue(u, ok)
  PROVE  Shape'
<1>0. answer[u].at \in Nat /\ answer[u].at <= now
  BY DEF Shape, AnswersOK
<1>1. ThreadOK' /\ HandlerOK' /\ StoredOK' /\ AnswersOK'
  BY AnsweredShape DEF Queue, whatsapp
<1>2. WaitsOK'
  <2>1. replied(answer[u].at) \in {<<NoWait, ended>>, <<NoWait, endOpenWait("replied", answer[u].at)>>}
    BY DEF replied
  <2>2. Wait(ok, replied(answer[u].at)) /\ "replied" \in Reasons /\ UNCHANGED now
    BY DEF Queue, Reasons, whatsapp
  <2>. QED
    BY <1>0, <2>1, <2>2, NoWaitWaits, WaitsStayOK DEF Shape
<1>3. ClockOK'
  BY SpendOK DEF Queue, SpendUnless, whatsapp, Shape
<1>4. SentOK' /\ BlockedOK'
  BY Stays, MissedIsBoolean DEF Queue, whatsapp, Shape, BlockedOK
<1>. QED
  BY <1>1, <1>2, <1>3, <1>4 DEF Shape

LEMMA QueueFailsShape ==
  ASSUME Shape, NEW u \in CSes, QueueFails(u)
  PROVE  Shape'
<1>1. AnswersOK'
  BY ParametersAssumption DEF QueueFails, whatsapp, Shape, AnswersOK, NoAnswer, ClockOK
<1>2. ClockOK'
  BY SpendOK DEF QueueFails, whatsapp, Shape
<1>3. SentOK' /\ StoredOK' /\ HandlerOK' /\ ThreadOK' /\ WaitsOK'
  BY Stays DEF QueueFails, whatsapp, figures, Shape
<1>4. BlockedOK'
  BY DEF QueueFails, figures, Shape, BlockedOK, NoneBlocked
<1>. QED
  BY <1>1, <1>2, <1>3, <1>4 DEF Shape

LEMMA AssignShape ==
  ASSUME Shape, NEW u \in CSes, Assign(u)
  PROVE  Shape'
<1>1. ThreadOK' /\ Exists'
  BY ParametersAssumption DEF Assign, Shape, ThreadOK, HolderMatchesStatus, Exists
<1>2. HandlerOK'
  BY <1>1, HandlerWaits DEF Assign, whatsapp, Shape
<1>3. AnswersOK'
  BY MovedOK DEF Assign, whatsapp, Shape
<1>4. ClockOK' /\ SentOK' /\ StoredOK' /\ WaitsOK' /\ BlockedOK'
  BY Stays DEF Assign, whatsapp, figures, Shape
<1>. QED
  BY <1>1, <1>2, <1>3, <1>4 DEF Shape

LEMMA CloseShape ==
  ASSUME Shape, NEW ok \in BOOLEAN, Close(ok)
  PROVE  Shape'
<1>1. ThreadOK' /\ HandlerOK' /\ StoredOK' /\ AnswersOK'
  BY AnsweredShape DEF Close, whatsapp
<1>2. WaitsOK'
  <2>1. closedWithoutReply \in {<<NoWait, ended>>, <<NoWait, endOpenWait("closed", now)>>}
    BY DEF closedWithoutReply
  <2>2. Wait(ok, closedWithoutReply) /\ "closed" \in Reasons /\ UNCHANGED now
    BY DEF Close, Reasons, whatsapp
  <2>3. now \in Nat /\ now <= now
    BY ParametersAssumption DEF Shape, ClockOK
  <2>. QED
    BY <2>1, <2>2, <2>3, NoWaitWaits, WaitsStayOK DEF Shape
<1>3. ClockOK'
  BY SpendOK DEF Close, SpendUnless, whatsapp, Shape
<1>4. SentOK' /\ BlockedOK'
  BY Stays, MissedIsBoolean DEF Close, whatsapp, Shape, BlockedOK
<1>. QED
  BY <1>1, <1>2, <1>3, <1>4 DEF Shape

LEMMA BlockShape ==
  ASSUME Shape, NEW who \in CSes \cup {Nobody}, Block(who)
  PROVE  Shape'
<1>1. BlockedOK'
  BY DEF Block, figures, Shape, BlockedOK
<1>2. ClockOK' /\ SentOK' /\ StoredOK' /\ HandlerOK' /\ ThreadOK' /\ WaitsOK' /\ AnswersOK'
  BY Stays DEF Block, whatsapp, figures, Shape
<1>. QED
  BY <1>1, <1>2 DEF Shape

LEMMA MissAnswers ==
  ASSUME Shape, Miss
  PROVE  Finish \/ \E u \in CSes : Touch(u)
BY DEF Miss, Shape, BlockedOK

LEMMA MissShape == ASSUME Shape, Miss PROVE Shape'
<1>1. ThreadOK' /\ HandlerOK' /\ StoredOK' /\ AnswersOK'
  BY MissAnswers, AnsweredShape DEF Miss, whatsapp
<1>2. BlockedOK'
  BY ParametersAssumption DEF Miss, Shape, BlockedOK, NoneBlocked
<1>3. ClockOK' /\ SentOK' /\ WaitsOK'
  BY Stays DEF Miss, whatsapp, Shape
<1>. QED
  BY <1>1, <1>2, <1>3 DEF Shape

LEMMA ShapeStays == Shape /\ [Next]_vars => Shape'
<1>. SUFFICES ASSUME Shape, [Next]_vars PROVE Shape'
  OBVIOUS
<1>1. CASE Tick
  BY <1>1, TickShape
<1>2. ASSUME NEW from \in {"customer", "phone"}, Write(from) PROVE Shape'
  BY <1>2, WriteShape
<1>3. ASSUME NEW m \in DOMAIN created, Redeliver(m) PROVE Shape'
  BY <1>3, RedeliverShape
<1>4. CASE Session
  BY <1>4, FindOrCreateShape, FindByPeerShape, ReopenShape, DroppedShape, OnwardShape, SaveInboundShape,
     PhoneShape DEF Session
<1>5. CASE Inbox
  BY <1>5, HoldForReplyShape, StampShape, QueueFailsShape, AssignShape, CloseShape, QueueShape,
     BlockShape, MissShape DEF Inbox
<1>6. CASE UNCHANGED vars
  BY <1>6, Stays DEF vars, figures, Shape
<1>. QED
  BY <1>1, <1>2, <1>3, <1>4, <1>5, <1>6 DEF Next

(* Every variable keeps its type, and a thread's status and its holder     *)
(* agree: the check constraint cs_conversations_holder_matches_status is   *)
(* never broken by FindOrCreate, ClaimForReply, EnsureHolder or Close.     *)
THEOREM TypeCorrect == Spec => []TypeOK
<1>. QED
  BY InitShape, ShapeStays, ShapeIsType, PTL DEF Spec

-----------------------------------------------------------------------------
(* Who answers holds the thread, unless it was taken from them.            *)

Holding ==
  \A u \in CSes : answer[u].step # "idle" /\ ~answer[u].moved
                  => thread.holder = u /\ thread.status \in {"open", "closed"}

\* Answers end, and the thread keeps its holder.
LEMMA AnswersEnd ==
  ASSUME Shape, Holding, thread'.holder = thread.holder,
         thread.status \in {"open", "closed"} => thread'.status \in {"open", "closed"},
         \A u \in CSes : answer'[u].step # "idle" => answer[u].step # "idle" /\ answer'[u].moved = answer[u].moved
  PROVE  Holding'
BY DEF Holding

\* The thread changes hands: nobody's answer is undisturbed.
LEMMA AllMoved ==
  ASSUME Shape, answer' = Moved
  PROVE  Holding'
<1>1. \A u \in CSes : answer'[u].step # "idle" => answer'[u].moved
  BY DEF Shape, AnswersOK, Moved
<1>. QED
  BY <1>1 DEF Holding

LEMMA HoldingStays == Shape /\ Holding /\ [Next]_vars => Holding'
<1>. SUFFICES ASSUME Shape, Holding, [Next]_vars PROVE Holding'
  OBVIOUS
<1>1. CASE UNCHANGED <<thread, answer>>
  BY <1>1, AnswersEnd
<1>2. ASSUME NEW m \in pending, FindOrCreate(m) PROVE Holding'
  <2>1. CASE Exists
    BY <1>2, <1>1, <2>1 DEF FindOrCreate
  <2>2. CASE ~Exists
    BY <1>2, <2>2, AnswersEnd DEF FindOrCreate, Exists, Shape, ThreadOK
  <2>. QED
    BY <2>1, <2>2
<1>3. CASE Reopen
  BY <1>3, AllMoved DEF Reopen
<1>4. ASSUME NEW ok \in BOOLEAN, SaveInbound(ok) \/ SaveFromPhone(ok) \/ SaveLate(ok) PROVE Holding'
  <2>1. thread'.holder = thread.holder /\ thread'.status = thread.status /\ UNCHANGED answer
    BY <1>4 DEF SaveInbound, SaveFromPhone, SaveLate, Shape, ThreadOK
  <2>. QED
    BY <2>1, AnswersEnd
<1>5. ASSUME NEW u \in CSes, HoldForReply(u) PROVE Holding'
  <2>1. thread'.holder = u /\ thread'.status \in {"open", "closed"}
    BY <1>5, ParametersAssumption
    DEF HoldForReply, MayClaim, Exists, Shape, ThreadOK, HolderMatchesStatus
  <2>2. ASSUME NEW v \in CSes, v # u, answer'[v].step # "idle", ~answer'[v].moved
        PROVE  thread'.holder = v /\ thread'.status \in {"open", "closed"}
    <3>1. answer[v].step # "idle" /\ ~answer[v].moved
      BY <1>5, <2>2 DEF HoldForReply, Shape, AnswersOK
    <3>2. thread.holder = v /\ thread.status \in {"open", "closed"}
      BY <3>1 DEF Holding
    <3>. QED
      BY <1>5, <3>2 DEF HoldForReply, MayClaim
  <2>. QED
    BY <2>1, <2>2 DEF Holding
<1>6. ASSUME NEW u \in CSes, Stamp(u) \/ QueueFails(u) \/ Touch(u) PROVE Holding'
  <2>1. thread'.holder = thread.holder /\ thread'.status = thread.status
    BY <1>6 DEF Stamp, QueueFails, Touch, Shape, ThreadOK
  <2>2. \A v \in CSes : answer'[v].step # "idle" => answer[v].step # "idle" /\ answer'[v].moved = answer[v].moved
    BY <1>6 DEF Stamp, QueueFails, Touch, NoAnswer, Shape, AnswersOK
  <2>. QED
    BY <2>1, <2>2, AnswersEnd
<1>7. ASSUME NEW u \in CSes, Assign(u) PROVE Holding'
  <2>1. CASE u = thread.holder
    BY <1>7, <2>1, AnswersEnd DEF Assign, Shape, ThreadOK
  <2>2. CASE u # thread.holder
    BY <1>7, <2>2, AllMoved DEF Assign
  <2>. QED
    BY <2>1, <2>2
<1>8. CASE Finish
  BY <1>8, AnswersEnd DEF Finish, Shape, ThreadOK
<1>9. CASE Tick \/ (\E from \in {"customer", "phone"} : Write(from)) \/ \E m \in DOMAIN created : Redeliver(m)
  BY <1>9, <1>1 DEF Tick, Write, Redeliver
<1>10. CASE Session
  <2>1. SaveDuplicate \/ HandlerFails \/ Insert \/ PhoneIsLate \/ EndWaitLate \/ (\E m \in pending : FindByPeer(m))
        => Holding'
    BY <1>1 DEF SaveDuplicate, HandlerFails, Insert, PhoneIsLate, EndWaitLate, FindByPeer
  <2>. QED
    BY <1>10, <2>1, <1>2, <1>3, <1>4 DEF Session
<1>11. CASE Inbox
  <2>1. \A ok \in BOOLEAN : Close(ok) => Finish
    BY DEF Close
  <2>2. \A u \in CSes : \A ok \in BOOLEAN : Queue(u, ok) => Touch(u)
    BY DEF Queue
  <2>3. Miss => Finish \/ \E u \in CSes : Touch(u)
    BY MissAnswers
  <2>4. \A who \in CSes \cup {Nobody} : Block(who) => Holding'
    BY <1>1 DEF Block
  <2>. QED
    BY <1>11, <1>5, <1>6, <1>7, <1>8, <2>1, <2>2, <2>3, <2>4 DEF Inbox
<1>12. CASE UNCHANGED vars
  BY <1>12, <1>1 DEF vars
<1>. QED
  BY <1>9, <1>10, <1>11, <1>12 DEF Next

(* "two first replies checking beforehand would both read unassigned and   *)
(* both go out": of two CS who answer at once, ClaimForReply's conditional *)
(* update lets one through, for any number of CS and messages.             *)
THEOREM FirstRepliesAreAlone == Spec => []OneFirstReply
<1>1. Init => Holding
  BY DEF Init, Holding, NoAnswer
<1>2. Holding => OneFirstReply
  BY DEF Holding, OneFirstReply
<1>. QED
  BY <1>1, <1>2, InitShape, ShapeStays, HoldingStays, PTL DEF Spec

-----------------------------------------------------------------------------
(* Without troubles, the customer's messages come in order and the figures *)
(* of the waits follow them.                                               *)

Customers == {i \in DOMAIN created : FromCustomer(i)}

\* A message of the customer is stored after every earlier one.
Arrived ==
  \A i \in DOMAIN sent : FromCustomer(i) =>
     /\ i \in pending \/ i \in DOMAIN created \/ i = handler.m
     /\ i \in DOMAIN created \/ i = handler.m =>
          \A k \in DOMAIN sent : k < i /\ FromCustomer(k) => k \in DOMAIN created
     /\ i \in DOMAIN created =>
          \A k \in DOMAIN sent : k < i /\ FromCustomer(k) => created[k] <= created[i]

\* What the message being stored finds is older, or ended while it waited.
InTime == Storing =>
  /\ \A k \in DOMAIN created : created[k] <= handler.at
  /\ wait.started <= handler.at
  /\ ended # <<>> => ended[Len(ended)].crossed \/ ended[Len(ended)].at <= handler.at

\* The wait began with a message of the customer; what was sent after that
\* came later than the wait began.  Unless it was missed, somebody waits.
WaitIsFor ==
  /\ wait.started >= 1
  /\ \E i \in Customers : Sent(i) >= wait.sentAt
  /\ \A i \in Customers : Sent(i) > wait.sentAt => created[i] >= wait.started
  /\ ~missed => \E i \in unanswered : Sent(i) >= wait.sentAt
Waited ==
  /\ wait = NoWait => unanswered = {}
  /\ wait # NoWait => WaitIsFor
\* Who is unanswered is so from some message on.
Unbroken == \A i \in unanswered : \A k \in Customers : i < k => k \in unanswered
Spoken ==
  /\ \A i \in unanswered : thread.at >= Sent(i)
  /\ wait # NoWait /\ ~missed => thread.spoke = "in"
Apart ==
  /\ \A i \in 1..Len(ended) - 1 : ended[i].crossed \/ ended[i].at <= ended[i + 1].started
  /\ wait # NoWait /\ ended # <<>> =>
       ended[Len(ended)].crossed \/ ended[Len(ended)].at <= wait.started
Figures == Waited /\ Unbroken /\ Spoken /\ Apart
Calm == Arrived /\ InTime /\ Figures

LEMMA FiguresMeanProperties ==
  ASSUME Shape, Undisturbed => Calm
  PROVE  OpenWaitIsUnanswered /\ WaitShowsInInbox /\ WaitsDoNotOverlap
BY DEF Calm, Figures, Waited, WaitIsFor, Spoken, Apart, OpenWaitIsUnanswered, WaitShowsInInbox, WaitsDoNotOverlap

\* Troubles do not go away.
LEMMA OnceDisturbed == Shape /\ [Next]_vars /\ Undisturbed' => Undisturbed
<1>. SUFFICES ASSUME Shape, [Next]_vars PROVE spent'.troubles = 0 => spent.troubles = 0
  BY DEF Undisturbed
<1>1. /\ spent \in [replies : Nat, redelivered : Nat, troubles : Nat]
      /\ \A what \in {"replies", "redelivered", "troubles"} : spent' \in {spent, Spend(what)}
           => (spent'.troubles = 0 => spent.troubles = 0)
  BY DEF Shape, ClockOK, Spend
<1>2. CASE Tick \/ (\E from \in {"customer", "phone"} : Write(from)) \/ \E m \in DOMAIN created : Redeliver(m)
  BY <1>1, <1>2 DEF Tick, Write, Redeliver
<1>3. CASE Session
  <2>1. \A m \in pending : FindOrCreate(m) \/ FindByPeer(m) => (spent'.troubles = 0 => spent.troubles = 0)
    BY <1>1 DEF FindOrCreate, FindByPeer
  <2>2. Reopen \/ SaveDuplicate \/ HandlerFails => (spent'.troubles = 0 => spent.troubles = 0)
    BY <1>1 DEF Reopen, SaveDuplicate, HandlerFails
  <2>3. Insert \/ PhoneIsLate \/ EndWaitLate => (spent'.troubles = 0 => spent.troubles = 0)
    BY <1>1 DEF Insert, PhoneIsLate, EndWaitLate
  <2>4. \A ok \in BOOLEAN : SaveInbound(ok) \/ SaveFromPhone(ok) \/ SaveLate(ok)
                            => (spent'.troubles = 0 => spent.troubles = 0)
    BY <1>1 DEF SaveInbound, SaveFromPhone, SaveLate, SpendUnless
  <2>. QED
    BY <1>3, <2>1, <2>2, <2>3, <2>4 DEF Session
<1>4. CASE Inbox
  <2>1. \A u \in CSes : HoldForReply(u) \/ Stamp(u) \/ QueueFails(u) \/ Assign(u)
                        => (spent'.troubles = 0 => spent.troubles = 0)
    BY <1>1 DEF HoldForReply, Stamp, QueueFails, Assign
  <2>2. \A ok \in BOOLEAN : Close(ok) \/ (\E u \in CSes : Queue(u, ok)) => (spent'.troubles = 0 => spent.troubles = 0)
    BY <1>1 DEF Close, Queue, SpendUnless
  <2>3. Miss \/ (\E who \in CSes \cup {Nobody} : Block(who)) => (spent'.troubles = 0 => spent.troubles = 0)
    BY <1>1 DEF Miss, Block
  <2>. QED
    BY <1>4, <2>1, <2>2, <2>3 DEF Inbox
<1>5. CASE UNCHANGED vars
  BY <1>5 DEF vars
<1>. QED
  BY <1>2, <1>3, <1>4, <1>5 DEF Next

\* A step that spends a trouble is none of an undisturbed behaviour.
LEMMA Troubled ==
  ASSUME Shape, spent' = Spend("troubles")
  PROVE  ~Undisturbed'
BY DEF Shape, ClockOK, Spend, Undisturbed

\* What the thread's row and the messages say of a wait stays what it was.
LEMMA FiguresStay ==
  ASSUME Shape, Figures, UNCHANGED <<created, wait, ended, unanswered, missed>>,
         thread'.at = thread.at, thread'.spoke = thread.spoke,
         DOMAIN sent \subseteq DOMAIN sent', \A i \in DOMAIN sent : sent'[i] = sent[i]
  PROVE  Figures'
<1>1. \A i \in DOMAIN created : i \in DOMAIN sent /\ Sent(i)' = Sent(i) /\ FromCustomer(i)' = FromCustomer(i)
  BY DEF Shape, StoredOK, Sent, FromCustomer
<1>2. Customers' = Customers /\ unanswered \subseteq Customers
  BY <1>1 DEF Customers, Shape, StoredOK
<1>3. Waited'
  <2>1. CASE wait = NoWait
    BY <2>1 DEF Figures, Waited
  <2>2. CASE wait # NoWait
    <3>1. WaitIsFor
      BY <2>2 DEF Figures, Waited
    <3>2. /\ \E i \in Customers : Sent(i)' >= wait.sentAt
          /\ ~missed => \E i \in unanswered : Sent(i)' >= wait.sentAt
      BY <1>1, <1>2, <3>1 DEF WaitIsFor, Customers
    <3>3. \A i \in Customers : Sent(i)' > wait.sentAt => created[i] >= wait.started
      BY <1>1, <1>2, <3>1 DEF WaitIsFor, Customers
    <3>4. WaitIsFor'
      BY <1>2, <3>1, <3>2, <3>3 DEF WaitIsFor
    <3>. QED
      BY <2>2, <3>4 DEF Waited
  <2>. QED
    BY <2>1, <2>2
<1>4. Spoken' /\ Unbroken'
  BY <1>1, <1>2 DEF Figures, Spoken, Unbroken, Customers
<1>5. Apart'
  BY DEF Figures, Apart
<1>. QED
  BY <1>3, <1>4, <1>5 DEF Figures

LEMMA ArrivedStays ==
  ASSUME Arrived, UNCHANGED <<sent, created>>,
         \A i \in DOMAIN sent : FromCustomer(i) =>
            /\ i \in pending => i \in pending'
            /\ i = handler.m => i = handler'.m \/ i \in DOMAIN created
            /\ i = handler'.m => i = handler.m
  PROVE  Arrived'
<1>1. \A i \in DOMAIN sent : FromCustomer(i)' = FromCustomer(i)
  BY DEF FromCustomer
<1>2. \A i \in DOMAIN sent : FromCustomer(i) =>
        /\ i \in pending' \/ i \in DOMAIN created \/ i = handler'.m
        /\ i \in DOMAIN created \/ i = handler'.m =>
             \A k \in DOMAIN sent : k < i /\ FromCustomer(k) => k \in DOMAIN created
        /\ i \in DOMAIN created =>
             \A k \in DOMAIN sent : k < i /\ FromCustomer(k) => created[k] <= created[i]
  BY DEF Arrived
<1>. QED
  BY <1>1, <1>2 DEF Arrived

LEMMA InTimeStays ==
  ASSUME InTime, UNCHANGED <<created, wait, ended>>, ~Storing' \/ UNCHANGED handler
  PROVE  InTime'
BY DEF InTime, Storing

\* No message has the place of no message.
LEMMA NoEventIsNoMessage == SentOK => NoEvent.m \notin DOMAIN sent
BY Elements DEF SentOK, NoEvent

LEMMA WriteCalm ==
  ASSUME Shape, Calm, NEW from \in {"customer", "phone"}, Write(from)
  PROVE  Calm'
<1>. PICK n \in Nat : n = Len(sent)
  BY Elements DEF Shape, SentOK
<1>. DEFINE new == [from |-> from, at |-> now]
<1>1. /\ sent \in Seq(Message) /\ sent' = Append(sent, new) /\ new \in Message
  BY ParametersAssumption DEF Shape, SentOK, ClockOK, Write, Message
<1>2. /\ DOMAIN sent' = 1..(n + 1) /\ DOMAIN sent = 1..n
      /\ \A i \in DOMAIN sent : sent'[i] = sent[i]
  BY <1>1
<1>3. Figures' /\ InTime'
  BY <1>2, FiguresStay, InTimeStays DEF Write, figures, Calm
<1>4. \A i \in DOMAIN sent : FromCustomer(i)' = FromCustomer(i)
  BY <1>2 DEF FromCustomer
<1>5. \A i \in DOMAIN sent' : i \in DOMAIN sent \/ i = n + 1
  BY <1>2
<1>6. n + 1 \in pending' /\ n + 1 \notin DOMAIN created /\ n + 1 # handler'.m
  BY <1>2, ParametersAssumption DEF Write, Shape, StoredOK, HandlerOK, NoEvent
<1>7. \A i \in DOMAIN sent : \A k \in DOMAIN sent' : k < i => k \in DOMAIN sent
  BY <1>2
<1>8. ASSUME NEW i \in DOMAIN sent', FromCustomer(i)'
      PROVE  /\ i \in pending' \/ i \in DOMAIN created \/ i = handler'.m
             /\ i \in DOMAIN created \/ i = handler'.m =>
                  \A k \in DOMAIN sent' : k < i /\ FromCustomer(k)' => k \in DOMAIN created
             /\ i \in DOMAIN created =>
                  \A k \in DOMAIN sent' : k < i /\ FromCustomer(k)' => created[k] <= created[i]
  <2>1. CASE i = n + 1
    BY <1>6, <2>1
  <2>2. CASE i # n + 1
    <3>1. i \in DOMAIN sent /\ FromCustomer(i)
      BY <1>4, <1>5, <1>8, <2>2
    <3>2. \A k \in DOMAIN sent' : k < i /\ FromCustomer(k)' => k \in DOMAIN sent /\ FromCustomer(k)
      BY <1>4, <1>7, <3>1
    <3>3. i \in pending' \/ i \in DOMAIN created \/ i = handler'.m
      BY <3>1 DEF Write, Calm, Arrived
    <3>. QED
      BY <3>1, <3>2, <3>3 DEF Write, Calm, Arrived
  <2>. QED
    BY <2>1, <2>2
<1>9. Arrived'
  BY <1>8 DEF Arrived, Write
<1>. QED
  BY <1>3, <1>9 DEF Calm

LEMMA FindOrCreateCalm ==
  ASSUME Shape, Calm, NEW m \in pending, FindOrCreate(m), Undisturbed'
  PROVE  Calm'
<1>1. ~Stray(m) /\ m \in DOMAIN sent /\ FromCustomer(m)
  BY Troubled DEF FindOrCreate, Shape, SentOK
<1>2. handler.m \notin DOMAIN sent
  BY NoEventIsNoMessage DEF FindOrCreate, Shape
<1>3. \A k \in DOMAIN sent : k < m /\ FromCustomer(k) => k \in DOMAIN created
  BY <1>1, <1>2 DEF Calm, Arrived, Stray
<1>4. /\ pending' = pending \ {m} /\ handler'.m = m /\ UNCHANGED <<sent, created>>
  BY DEF FindOrCreate, whatsapp
<1>5. \A i \in DOMAIN sent : FromCustomer(i)' = FromCustomer(i)
  BY <1>4 DEF FromCustomer
<1>6. \A i \in DOMAIN sent : FromCustomer(i) =>
        /\ i \in pending' \/ i \in DOMAIN created \/ i = m
        /\ i \in DOMAIN created \/ i = m =>
             \A k \in DOMAIN sent : k < i /\ FromCustomer(k) => k \in DOMAIN created
        /\ i \in DOMAIN created =>
             \A k \in DOMAIN sent : k < i /\ FromCustomer(k) => created[k] <= created[i]
  BY <1>2, <1>3, <1>4 DEF Calm, Arrived
<1>7. Arrived'
  BY <1>4, <1>5, <1>6 DEF Arrived
<1>8. Figures'
  <2>1. CASE Exists
    BY <2>1, FiguresStay DEF FindOrCreate, whatsapp, figures, Calm
  <2>2. CASE ~Exists
    <3>1. unanswered = {} /\ DOMAIN created = {}
      BY <2>2 DEF Shape, ThreadOK, StoredOK
    <3>2. wait = NoWait
      BY <3>1 DEF Calm, Figures, Waited, WaitIsFor, Customers
    <3>. QED
      BY <3>1, <3>2 DEF FindOrCreate, figures, Calm, Figures, Waited, Unbroken, Spoken, Apart
  <2>. QED
    BY <2>1, <2>2
<1>9. InTime'
  BY InTimeStays DEF FindOrCreate, figures, Storing, Calm
<1>. QED
  BY <1>7, <1>8, <1>9 DEF Calm

\* An ended wait began after the end of the one before it.
LEMMA ApartGrows ==
  ASSUME Shape, Apart, WaitsOK', NEW at \in Nat, NEW reason \in Reasons,
         ended' = endOpenWait(reason, at),
         wait' # NoWait =>
           IF wait = NoWait THEN ended # <<>> => ended[Len(ended)].crossed \/ ended[Len(ended)].at <= wait'.started
                            ELSE at <= wait'.started
  PROVE  Apart'
<1>. PICK n \in Nat : n = Len(ended)
  BY Elements DEF Shape, WaitsOK
<1>0. ended \in Seq(Ended) /\ DOMAIN ended = 1..n /\ wait.started \in Nat
  BY ParametersAssumption DEF Shape, WaitsOK, ClockOK
<1>2. CASE wait = NoWait
  BY <1>2 DEF endOpenWait, Apart
<1>3. CASE wait # NoWait
  <2>. DEFINE e == [started |-> wait.started, at |-> at, reason |-> reason, crossed |-> Crosses(reason)]
  <2>1. ended' = Append(ended, e) /\ e \in Ended
    BY <1>0, <1>3 DEF endOpenWait, Ended, Crosses, Storing
  <2>2. /\ Len(ended') = n + 1 /\ ended'[n + 1] = e
        /\ \A i \in 1..n : ended'[i] = ended[i]
    BY <1>0, <2>1
  <2>3. \A i \in 1..n : ended'[i].crossed \/ ended'[i].at <= ended'[i + 1].started
    <3>1. SUFFICES ASSUME NEW i \in 1..n PROVE ended'[i].crossed \/ ended'[i].at <= ended'[i + 1].started
      OBVIOUS
    <3>2. CASE i = n
      <4>1. ended # <<>> /\ (ended[n].crossed \/ ended[n].at <= wait.started)
        BY <1>0, <1>3, <3>1, <3>2 DEF Apart
      <4>. QED
        BY <2>2, <3>1, <3>2, <4>1
    <3>3. CASE i # n
      <4>1. i \in 1..Len(ended) - 1 /\ i + 1 \in 1..n
        BY <3>1, <3>3
      <4>. QED
        BY <2>2, <3>1, <4>1 DEF Apart
    <3>. QED
      BY <3>2, <3>3
  <2>4. wait' # NoWait => ended'[n + 1].at <= wait'.started
    BY <1>3, <2>2
  <2>5. Len(ended') - 1 = n
    BY <2>2
  <2>. QED
    BY <2>2, <2>3, <2>4, <2>5 DEF Apart
<1>. QED
  BY <1>2, <1>3

\* A reply or a closing ends the wait: nobody is unanswered.
LEMMA AnsweredCalm ==
  ASSUME Shape, Calm, WaitsOK', NEW at \in Nat, NEW reason \in Reasons \ {"abandoned"},
         wait' = NoWait, ended' = endOpenWait(reason, at), unanswered' = {},
         UNCHANGED <<sent, pending, handler, created>>
  PROVE  Calm'
<1>1. Arrived'
  BY ArrivedStays DEF Calm
<1>2. Apart'
  BY ApartGrows DEF Calm, Figures
<1>3. InTime'
  <2>1. SUFFICES ASSUME Storing PROVE InTime'
    BY DEF InTime, Storing
  <2>2. handler.at \in Nat
    BY DEF Shape, HandlerOK
  <2>3. wait'.started <= handler.at
    BY <2>2 DEF NoWait
  <2>4. ended' # <<>> => ended'[Len(ended')].crossed \/ ended'[Len(ended')].at <= handler.at
    <3>1. CASE wait = NoWait
      BY <2>1, <3>1 DEF endOpenWait, Calm, InTime
    <3>2. CASE wait # NoWait
      <4>. DEFINE e == [started |-> wait.started, at |-> at, reason |-> reason, crossed |-> Crosses(reason)]
      <4>1. ended \in Seq(Ended) /\ ended' = Append(ended, e) /\ e \in Ended
        BY <3>2 DEF endOpenWait, Shape, WaitsOK, Ended, Crosses, Storing
      <4>2. ended'[Len(ended')] = e
        BY <4>1
      <4>3. e.crossed = TRUE
        BY <2>1 DEF Crosses
      <4>. QED
        BY <4>2, <4>3
    <3>. QED
      BY <3>1, <3>2
  <2>. QED
    BY <2>1, <2>3, <2>4 DEF Calm, InTime, Storing
<1>. QED
  BY <1>1, <1>2, <1>3 DEF Calm, Figures, Waited, Unbroken, Spoken, NoWait

LEMMA QueueCalm ==
  ASSUME Shape, Calm, NEW u \in CSes, NEW ok \in BOOLEAN, Queue(u, ok), Undisturbed'
  PROVE  Calm'
<1>1. ok
  BY Troubled DEF Queue, SpendUnless
<1>2. wait' = NoWait /\ ended' = endOpenWait("replied", answer[u].at)
  BY <1>1 DEF Queue, Wait, replied
<1>3. answer[u].at \in Nat /\ "replied" \in Reasons \ {"abandoned"}
  BY DEF Shape, AnswersOK, Reasons
<1>4. WaitsOK'
  BY QueueShape DEF Shape
<1>. QED
  BY <1>2, <1>3, <1>4, AnsweredCalm DEF Queue, Touch, whatsapp

LEMMA CloseCalm ==
  ASSUME Shape, Calm, NEW ok \in BOOLEAN, Close(ok), Undisturbed'
  PROVE  Calm'
<1>1. ok
  BY Troubled DEF Close, SpendUnless
<1>2. wait' = NoWait /\ ended' = endOpenWait("closed", now)
  BY <1>1 DEF Close, Wait, closedWithoutReply
<1>3. now \in Nat /\ "closed" \in Reasons \ {"abandoned"}
  BY ParametersAssumption DEF Shape, ClockOK, Reasons
<1>4. WaitsOK'
  BY CloseShape DEF Shape
<1>. QED
  BY <1>2, <1>3, <1>4, AnsweredCalm DEF Close, Finish, whatsapp

\* An answer that missed the wait: nobody is unanswered, and it is open.
LEMMA MissCalm ==
  ASSUME Shape, Calm, Miss
  PROVE  Calm'
<1>1. /\ UNCHANGED <<sent, pending, handler, created, wait, ended>>
      /\ unanswered' = {} /\ missed' = (wait # NoWait)
  BY MissAnswers DEF Miss, Finish, Touch, whatsapp
<1>2. Arrived' /\ InTime'
  BY <1>1, ArrivedStays, InTimeStays DEF Calm
<1>3. Customers' = Customers /\ \A i \in Customers : Sent(i)' = Sent(i)
  BY <1>1 DEF Customers, FromCustomer, Sent
<1>4. wait # NoWait => WaitIsFor'
  BY <1>1, <1>3 DEF Calm, Figures, Waited, WaitIsFor
<1>5. Waited' /\ Unbroken' /\ Spoken' /\ Apart'
  BY <1>1, <1>4 DEF Calm, Figures, Waited, Unbroken, Spoken, Apart
<1>. QED
  BY <1>2, <1>5 DEF Calm, Figures

\* Nothing is stored and nobody is answered.
LEMMA QuietCalm ==
  ASSUME Shape, Calm, UNCHANGED <<sent, created, wait, ended, unanswered, missed>>,
         thread'.at = thread.at, thread'.spoke = thread.spoke,
         ~Storing' \/ UNCHANGED handler,
         \A i \in DOMAIN sent : FromCustomer(i) =>
            /\ i \in pending => i \in pending'
            /\ i = handler.m => i = handler'.m \/ i \in DOMAIN created
            /\ i = handler'.m => i = handler.m
  PROVE  Calm'
<1>1. Arrived' /\ InTime'
  BY ArrivedStays, InTimeStays DEF Calm
<1>2. Figures'
  BY FiguresStay DEF Calm
<1>. QED
  BY <1>1, <1>2 DEF Calm

LEMMA FindByPeerCalm ==
  ASSUME Shape, Calm, NEW m \in pending, FindByPeer(m)
  PROVE  Calm'
<1>1. handler.m \notin DOMAIN sent
  BY NoEventIsNoMessage DEF FindByPeer, Shape
<1>2. (handler'.m = m \/ handler'.m = handler.m) /\ ~Storing'
  BY DEF FindByPeer, Storing, NoEvent
<1>. QED
  BY <1>1, <1>2, QuietCalm DEF FindByPeer, whatsapp, figures

LEMMA SaveDuplicateCalm ==
  ASSUME Shape, Calm, SaveDuplicate
  PROVE  Calm'
<1>1. handler'.m \notin DOMAIN sent /\ ~Storing'
  BY NoEventIsNoMessage DEF SaveDuplicate, Shape, Storing, NoEvent
<1>. QED
  BY <1>1, QuietCalm DEF SaveDuplicate, whatsapp, figures

\* What is there when a message takes its time is not younger.
LEMMA InsertCalm ==
  ASSUME Shape, Calm, Insert
  PROVE  Calm'
<1>1. handler'.m = handler.m /\ handler'.at = now /\ UNCHANGED <<sent, pending, created, wait, ended>>
  BY DEF Insert, whatsapp, figures, Shape, HandlerOK
<1>2. Arrived'
  BY <1>1, ArrivedStays DEF Calm
<1>3. Figures'
  BY FiguresStay DEF Insert, whatsapp, figures, Calm
<1>4. InTime'
  <2>1. \A k \in DOMAIN created : created[k] <= now
    BY DEF Shape, StoredOK
  <2>2. wait.started <= now
    BY ParametersAssumption DEF Shape, WaitsOK, ClockOK
  <2>3. ended # <<>> => ended[Len(ended)].at <= now
    <3>1. ended \in Seq(Ended) /\ (ended # <<>> => Len(ended) \in 1..Len(ended))
      BY DEF Shape, WaitsOK
    <3>. QED
      BY <3>1 DEF Shape, WaitsOK
  <2>. QED
    BY <1>1, <2>1, <2>2, <2>3 DEF InTime
<1>. QED
  BY <1>2, <1>3, <1>4 DEF Calm

LEMMA InboxCalm ==
  ASSUME Shape, Calm, NEW u \in CSes, HoldForReply(u) \/ Stamp(u) \/ QueueFails(u) \/ Assign(u)
  PROVE  Calm'
<1>1. thread'.at = thread.at /\ thread'.spoke = thread.spoke
  BY DEF HoldForReply, Stamp, QueueFails, Assign, Shape, ThreadOK
<1>2. UNCHANGED <<sent, pending, handler, created, wait, ended, unanswered, missed>>
  BY DEF HoldForReply, Stamp, QueueFails, Assign, whatsapp, figures
<1>. QED
  BY <1>1, <1>2, QuietCalm

LEMMA OthersCalm ==
  ASSUME Shape, Calm,
         \/ Tick \/ Reopen \/ PhoneIsLate \/ EndWaitLate \/ UNCHANGED vars
         \/ (\E m \in DOMAIN created : Redeliver(m)) \/ (\E who \in CSes \cup {Nobody} : Block(who))
  PROVE  Calm'
<1>1. thread'.at = thread.at /\ thread'.spoke = thread.spoke
  BY DEF Tick, Reopen, PhoneIsLate, EndWaitLate, Redeliver, Block, vars, Shape, ThreadOK
<1>2. /\ UNCHANGED <<sent, created, wait, ended, unanswered, missed>>
      /\ pending \subseteq pending'
  BY DEF Tick, Reopen, PhoneIsLate, EndWaitLate, Redeliver, Block, vars, figures, whatsapp
<1>3. handler'.m = handler.m /\ (~Storing' \/ UNCHANGED handler)
  BY DEF Tick, Reopen, PhoneIsLate, EndWaitLate, Redeliver, Block, vars, Storing, Shape, HandlerOK
<1>. QED
  BY <1>1, <1>2, <1>3, QuietCalm

\* The message of the handler is stored: it arrived after all before it.
LEMMA StoreArrived ==
  ASSUME Shape, Arrived, NEW m \in DOMAIN sent, m = handler.m, m \notin DOMAIN created, NEW at \in Nat,
         FromCustomer(m) => \A k \in DOMAIN created : created[k] <= at,
         Store(m, at), UNCHANGED <<now, sent, pending>>, handler' = NoEvent
  PROVE  Arrived'
<1>1. /\ DOMAIN created' = DOMAIN created \cup {m} /\ created'[m] = at
      /\ \A i \in DOMAIN created : created'[i] = created[i]
  BY DEF Store
<1>2. \A i \in DOMAIN sent : FromCustomer(i)' = FromCustomer(i)
  BY DEF FromCustomer
<1>3. NoEvent.m \notin DOMAIN sent
  BY NoEventIsNoMessage DEF Shape
<1>5. ASSUME NEW i \in DOMAIN sent, FromCustomer(i)
      PROVE  /\ i \in pending \/ i \in DOMAIN created'
             /\ i \in DOMAIN created' =>
                  \A k \in DOMAIN sent : k < i /\ FromCustomer(k) => k \in DOMAIN created'
             /\ i \in DOMAIN created' =>
                  \A k \in DOMAIN sent : k < i /\ FromCustomer(k) => created'[k] <= created'[i]
  <2>1. i \in DOMAIN created' =>
          \A k \in DOMAIN sent : k < i /\ FromCustomer(k) => k \in DOMAIN created
    BY <1>1, <1>5 DEF Arrived
  <2>2. ASSUME i \in DOMAIN created', NEW k \in DOMAIN sent, k < i, FromCustomer(k)
        PROVE  created'[k] <= created'[i]
    <3>1. k \in DOMAIN created
      BY <2>1, <2>2
    <3>2. CASE i = m
      BY <1>1, <1>5, <3>1, <3>2
    <3>3. CASE i # m
      BY <1>1, <1>5, <2>2, <3>1, <3>3 DEF Arrived
    <3>. QED
      BY <3>2, <3>3
  <2>3. i \in pending \/ i \in DOMAIN created'
    BY <1>1, <1>5 DEF Arrived
  <2>. QED
    BY <1>1, <2>1, <2>2, <2>3
<1>. QED
  BY <1>2, <1>3, <1>5 DEF Arrived

LEMMA SaveInboundCalm ==
  ASSUME Shape, Calm, NEW ok \in BOOLEAN, SaveInbound(ok), Undisturbed'
  PROVE  Calm'
<1>. PICK m \in DOMAIN sent : m = handler.m
  BY DEF SaveInbound, Storing, Shape, HandlerOK
<1>. DEFINE at == handler.at
<1>0. /\ ok /\ FromCustomer(m) /\ Store(m, at) /\ UNCHANGED <<now, sent, pending>>
      /\ handler' = NoEvent /\ unanswered' = unanswered \cup {m} /\ missed' = FALSE
      /\ thread' = [thread EXCEPT !.at = Sent(m), !.spoke = "in"]
      /\ wait' = customerWrote(m)[1] /\ ended' = customerWrote(m)[2]
  BY Troubled DEF SaveInbound, SpendUnless, Wait, whatsapp, Shape, HandlerOK
<1>i. /\ m \notin DOMAIN created /\ at \in Nat /\ Sent(m) <= at
      /\ \A k \in DOMAIN created : created[k] <= at
      /\ wait.started <= at
      /\ ended # <<>> => ended[Len(ended)].crossed \/ ended[Len(ended)].at <= at
  BY DEF SaveInbound, Storing, InTime, Calm, Shape, HandlerOK
<1>. HIDE DEF at
<1>1. Arrived' /\ InTime'
  <2>1. ~Storing'
    BY <1>0 DEF Storing, NoEvent
  <2>. QED
    BY <1>0, <1>i, <2>1, StoreArrived DEF Calm, InTime
<1>2. /\ DOMAIN created' = DOMAIN created \cup {m} /\ created'[m] = at
      /\ \A i \in DOMAIN created : created'[i] = created[i]
  BY <1>0, <1>i DEF Store
<1>3. \A i \in DOMAIN sent : Sent(i)' = Sent(i) /\ FromCustomer(i)' = FromCustomer(i)
  BY <1>0 DEF Sent, FromCustomer
<1>4. Customers' = Customers \cup {m} /\ Customers \subseteq DOMAIN sent /\ unanswered \subseteq Customers
  BY <1>0, <1>2, <1>3 DEF Customers, Shape, StoredOK
<1>b. \A i \in Customers : ~(m < i)
  BY <1>0, <1>i, <1>4 DEF Calm, Arrived, Customers
<1>5. \A i \in Customers \cup {m} : Sent(i) \in Nat /\ Sent(i) >= 1 /\ Sent(i) <= Sent(m)
  <2>2. \A i \in Customers : i <= m
    BY <1>4, <1>b, SentAt DEF Shape
  <2>. QED
    BY <1>4, <2>2, SentAt DEF Shape, SentOK
<1>6. Spoken'
  <2>1. thread'.at = Sent(m) /\ thread'.spoke = "in"
    BY <1>0 DEF Shape, ThreadOK
  <2>. QED
    BY <1>0, <1>3, <1>4, <1>5, <2>1 DEF Spoken
<1>u. Unbroken'
  <2>1. \A k \in Customers' : ~(m < k)
    BY <1>4, <1>b, SentAt DEF Shape
  <2>2. \A i \in unanswered : \A k \in Customers' : i < k => k \in unanswered'
    BY <1>0, <1>4 DEF Calm, Figures, Unbroken
  <2>. QED
    BY <1>0, <2>1, <2>2 DEF Unbroken
<1>t. wait.started \in Nat /\ wait.sentAt \in Nat /\ at >= 1
  BY <1>i, <1>5, ParametersAssumption DEF Shape, ClockOK, WaitsOK
<1>7. CASE wait # NoWait /\ wait.last >= Sent(m) - Silence
  <2>1. wait' = [wait EXCEPT !.last = IF wait.last < Sent(m) THEN Sent(m) ELSE wait.last] /\ ended' = ended
    BY <1>0, <1>7 DEF customerWrote
  <2>2. wait'.started = wait.started /\ wait'.sentAt = wait.sentAt
    BY <2>1 DEF Shape, WaitsOK
  <2>3. WaitIsFor
    BY <1>7 DEF Calm, Figures, Waited
  <2>4. wait' # NoWait
    BY <1>t, <2>2, <2>3 DEF WaitIsFor, NoWait
  <2>5. Sent(m)' >= wait.sentAt /\ m \in unanswered' /\ m \in Customers'
    <3>1. PICK i \in Customers : Sent(i) >= wait.sentAt
      BY <2>3 DEF WaitIsFor
    <3>. QED
      BY <1>0, <1>3, <1>4, <1>5, <1>t, <3>1
  <2>6. \A i \in Customers \cup {m} : Sent(i) > wait.sentAt => created'[i] >= wait.started
    BY <1>2, <1>i, <1>t, <2>3 DEF WaitIsFor, Customers
  <2>7. WaitIsFor'
    BY <1>3, <1>4, <2>2, <2>3, <2>5, <2>6 DEF WaitIsFor
  <2>8. Apart'
    BY <1>7, <2>1, <2>2 DEF Calm, Figures, Apart
  <2>. QED
    BY <1>1, <1>6, <1>u, <2>4, <2>7, <2>8 DEF Calm, Figures, Waited
<1>8. CASE ~ (wait # NoWait /\ wait.last >= Sent(m) - Silence)
  <2>1. wait' = [started |-> at, sentAt |-> Sent(m), last |-> Sent(m)] /\ ended' = endOpenWait("abandoned", at)
    BY <1>0, <1>8 DEF customerWrote, at
  <2>2. wait' # NoWait
    BY <1>t, <2>1 DEF NoWait
  <2>3. \A i \in Customers' : ~(Sent(i)' > wait'.sentAt)
    BY <1>3, <1>4, <1>5, <2>1
  <2>4. Sent(m)' >= wait'.sentAt /\ wait'.started >= 1 /\ m \in unanswered' /\ m \in Customers'
    BY <1>0, <1>3, <1>4, <1>5, <1>t, <2>1
  <2>5. WaitIsFor'
    BY <2>3, <2>4 DEF WaitIsFor
  <2>6. Apart'
    <3>1. WaitsOK' /\ "abandoned" \in Reasons
      BY SaveInboundShape DEF Shape, Reasons
    <3>2. wait'.started = at /\ at <= at
      BY <1>i, <2>1
    <3>. QED
      BY <1>i, <2>1, <3>1, <3>2, ApartGrows DEF Calm, Figures
  <2>. QED
    BY <1>1, <1>6, <1>u, <2>2, <2>5, <2>6 DEF Calm, Figures, Waited
<1>. QED
  BY <1>7, <1>8

LEMMA PhoneCalm ==
  ASSUME Shape, Calm, NEW ok \in BOOLEAN, SaveFromPhone(ok) \/ SaveLate(ok), Undisturbed'
  PROVE  Calm'
<1>. PICK m \in DOMAIN sent : m = handler.m
  BY PhoneStores
<1>0. /\ ok /\ m \notin DOMAIN created /\ ~FromCustomer(m) /\ Store(m, now) /\ UNCHANGED <<now, sent, pending>>
      /\ handler' = NoEvent /\ unanswered' = {i \in unanswered : Sent(i) > Sent(m)}
      /\ \/ UNCHANGED thread
         \/ thread.at <= Sent(m) /\ thread' = [thread EXCEPT !.at = Sent(m), !.spoke = "out"]
      /\ wait' = answeredFromPhone(m)[1] /\ ended' = answeredFromPhone(m)[2]
      /\ missed' = (missed /\ wait' # NoWait)
  BY PhoneStores, Troubled DEF SpendUnless, Wait, StillMissed
<1>n. now \in Nat
  BY ParametersAssumption DEF Shape, ClockOK
<1>1. Arrived' /\ InTime'
  <2>1. ~Storing'
    BY <1>0 DEF Storing, NoEvent
  <2>. QED
    BY <1>0, <1>n, <2>1, StoreArrived DEF Calm, InTime
<1>2. /\ DOMAIN created' = DOMAIN created \cup {m} /\ created'[m] = now
      /\ \A i \in DOMAIN created : created'[i] = created[i]
  BY <1>0 DEF Store
<1>3. \A i \in DOMAIN sent : Sent(i)' = Sent(i) /\ FromCustomer(i)' = FromCustomer(i)
  BY <1>0 DEF Sent, FromCustomer
<1>4. Customers' = Customers /\ Customers \subseteq DOMAIN sent /\ unanswered \subseteq Customers
  BY <1>0, <1>2, <1>3 DEF Customers, Shape, StoredOK
<1>5. Sent(m) \in Nat /\ \A i \in Customers : i \in Nat /\ Sent(i) \in Nat /\ Sent(i) >= 1 /\ created[i] \in Nat
  BY <1>4, SentAt DEF Shape, StoredOK, Customers
<1>t. /\ wait.started \in Nat /\ wait.sentAt \in Nat /\ thread.at \in Nat
  BY ParametersAssumption DEF Shape, ClockOK, WaitsOK, ThreadOK, Times
<1>u. Unbroken'
  <2>1. \A i, k \in Customers : i < k => Sent(i) <= Sent(k)
    BY <1>4, <1>5 DEF Shape, SentOK
  <2>. QED
    BY <1>0, <1>4, <1>5, <2>1 DEF Calm, Figures, Unbroken
\* Whoever waits unmissed waits for the customer's last message.
<1>w. ASSUME wait # NoWait, ~missed, NEW k \in Customers
      PROVE  \E i \in unanswered : Sent(i) >= wait.sentAt /\ Sent(i) >= Sent(k)
  <2>1. PICK i \in unanswered : Sent(i) >= wait.sentAt
    BY <1>w DEF Calm, Figures, Waited, WaitIsFor
  <2>2. CASE i < k
    <3>1. k \in unanswered /\ Sent(i) <= Sent(k)
      BY <1>4, <1>5, <2>1, <2>2 DEF Calm, Figures, Unbroken, Shape, SentOK
    <3>. QED
      BY <1>4, <1>5, <1>t, <2>1, <3>1
  <2>3. CASE ~(i < k)
    <3>1. k <= i
      BY <1>4, <1>5, <2>1, <2>3
    <3>2. Sent(k) <= Sent(i)
      BY <1>4, <2>1, <3>1 DEF Shape, SentOK
    <3>. QED
      BY <1>4, <1>5, <2>1, <3>2
  <2>. QED
    BY <2>2, <2>3
\* A newest message finds every unanswered one sent before it.
<1>a. ASSUME thread' # thread
      PROVE  thread.at <= Sent(m) /\ \A i \in unanswered : Sent(i) <= Sent(m)
  BY <1>0, <1>4, <1>5, <1>t, <1>a DEF Calm, Figures, Spoken
<1>b. wait' # NoWait /\ ~missed' => wait # NoWait /\ ~missed
  BY <1>0, PhoneReply DEF Answers
\* What is open afterwards and not missed has somebody waiting.
<1>c. ASSUME wait' # NoWait, ~missed', NEW i \in unanswered, Sent(i) > Sent(m)
      PROVE  thread'.spoke = "in"
  <2>1. thread' = thread
    BY <1>4, <1>5, <1>a, <1>c
  <2>. QED
    BY <1>b, <1>c, <2>1 DEF Calm, Figures, Spoken
<1>d. \A i \in unanswered' : thread'.at >= Sent(i)'
  <2>1. ASSUME NEW i \in unanswered' PROVE thread'.at >= Sent(i)'
    <3>1. i \in unanswered /\ Sent(i) > Sent(m) /\ Sent(i)' = Sent(i)
      BY <1>0, <1>3, <1>4
    <3>2. thread' = thread
      BY <1>4, <1>5, <1>a, <3>1
    <3>. QED
      BY <3>1, <3>2 DEF Calm, Figures, Spoken
  <2>. QED
    BY <2>1
\* The reply ends no wait.
<1>6. CASE ~Answers(m)
  <2>1. wait' = wait /\ ended' = ended
    BY <1>0, <1>6, PhoneReply
  <2>2. Apart'
    BY <2>1 DEF Calm, Figures, Apart
  <2>3. CASE wait = NoWait
    BY <1>0, <1>1, <1>u, <2>1, <2>2, <2>3 DEF Calm, Figures, Waited, Spoken
  <2>4. CASE wait # NoWait
    <3>1. WaitIsFor /\ Sent(m) < wait.sentAt
      BY <1>5, <1>6, <1>t, <2>4 DEF Answers, Calm, Figures, Waited
    <3>2. ASSUME ~missed' PROVE \E i \in unanswered : Sent(i) >= wait.sentAt /\ Sent(i) > Sent(m)
      <4>1. PICK i \in unanswered : Sent(i) >= wait.sentAt
        BY <1>b, <2>1, <2>4, <3>1, <3>2 DEF WaitIsFor
      <4>. QED
        BY <1>4, <1>5, <1>t, <3>1, <4>1
    <3>3. ~missed' => \E i \in unanswered' : Sent(i)' >= wait'.sentAt
      BY <1>0, <1>3, <1>4, <2>1, <3>2
    <3>4. WaitIsFor'
      <4>1. \E i \in Customers' : Sent(i)' >= wait'.sentAt
        BY <1>3, <1>4, <2>1, <3>1 DEF WaitIsFor
      <4>2. \A i \in Customers' : Sent(i)' > wait'.sentAt => created'[i] >= wait'.started
        BY <1>2, <1>3, <1>4, <2>1, <3>1 DEF WaitIsFor, Customers
      <4>. QED
        BY <2>1, <3>1, <3>3, <4>1, <4>2 DEF WaitIsFor
    <3>5. Spoken'
      BY <1>c, <1>d, <3>2 DEF Spoken
    <3>. QED
      BY <1>1, <1>u, <2>1, <2>2, <2>4, <3>4, <3>5 DEF Calm, Figures, Waited
  <2>. QED
    BY <2>3, <2>4
\* It ends the wait, and what was sent after it waits on.
<1>7. CASE Answers(m)
  <2>1. wait # NoWait /\ WaitIsFor /\ Sent(m) >= wait.sentAt
    BY <1>7 DEF Answers, Calm, Figures, Waited
  <2>2. /\ wait' = IF Later(m) = {} THEN NoWait
                   ELSE [started |-> created[First(m)], sentAt |-> Sent(First(m)), last |-> Sent(Last(m))]
        /\ ended' = endOpenWait("phone", PhoneEnd(m))
    BY <1>0, <1>7, PhoneReply
  <2>3. "phone" \in Reasons /\ PhoneEnd(m) \in Nat /\ WaitsOK'
    BY AnsweredFromPhone, PhoneShape DEF Shape, Reasons
  <2>4. CASE Later(m) = {}
    <3>1. wait' = NoWait /\ unanswered' = {}
      BY <1>0, <1>4, <2>2, <2>4 DEF Later, Customers
    <3>2. Apart'
      BY <2>2, <2>3, <3>1, ApartGrows DEF Calm, Figures
    <3>. QED
      BY <1>1, <1>u, <3>1, <3>2 DEF Calm, Figures, Waited, Spoken
  <2>5. CASE Later(m) # {}
    <3>. PICK f \in Later(m) : f = First(m) /\ \A j \in Later(m) : Sent(f) <= Sent(j)
      BY <2>5, FirstAndLast DEF Shape
    <3>1. wait'.started = created[f] /\ wait'.sentAt = Sent(f)
      BY <2>2, <2>5
    <3>2. f \in Customers /\ Sent(f) > Sent(m) /\ Sent(f) > wait.sentAt
      BY <1>4, <1>5, <1>t, <2>1 DEF Later, Customers
    <3>3. created[f] >= wait.started /\ created[f] >= Sent(f) /\ Sent(f) >= 1
      BY <1>5, <2>1, <3>2 DEF WaitIsFor, Shape, StoredOK, Customers
    <3>4. wait' # NoWait
      BY <1>5, <3>1, <3>2, <3>3 DEF NoWait
    <3>5. \A i \in Customers : Sent(i) > Sent(f) => created'[i] >= created[f]
      <4>1. SUFFICES ASSUME NEW i \in Customers, Sent(i) > Sent(f)
                     PROVE  created'[i] >= created[f]
        OBVIOUS
      <4>2. f < i
        <5>1. i <= f => Sent(i) <= Sent(f)
          BY <1>4, <3>2 DEF Shape, SentOK
        <5>. QED
          BY <1>5, <3>2, <4>1, <5>1
      <4>3. created[f] <= created[i]
        BY <1>4, <3>2, <4>2 DEF Calm, Arrived, Customers
      <4>. QED
        BY <1>2, <1>5, <3>2, <4>3 DEF Customers
    <3>6. ASSUME ~missed' PROVE \E i \in unanswered : Sent(i) >= Sent(f) /\ Sent(i) > Sent(m)
      <4>1. PICK i \in unanswered : Sent(i) >= Sent(f)
        BY <1>b, <1>w, <3>2, <3>4, <3>6
      <4>. QED
        BY <1>4, <1>5, <3>2, <4>1
    <3>7. WaitIsFor'
      <4>1. Sent(f)' >= wait'.sentAt /\ f \in Customers'
        BY <1>3, <1>4, <1>5, <3>1, <3>2
      <4>2. \A i \in Customers' : Sent(i)' > wait'.sentAt => created'[i] >= wait'.started
        BY <1>3, <1>4, <3>1, <3>5
      <4>3. wait'.started >= 1
        BY <1>5, <3>1, <3>2, <3>3
      <4>4. ~missed' => \E i \in unanswered' : Sent(i)' >= wait'.sentAt
        BY <1>0, <1>3, <1>4, <3>1, <3>6
      <4>. QED
        BY <4>1, <4>2, <4>3, <4>4 DEF WaitIsFor
    <3>8. Spoken'
      BY <1>c, <1>d, <3>6 DEF Spoken
    <3>9. Apart'
      <4>1. PhoneEnd(m) <= wait'.started
        BY <1>5, <1>t, <3>1, <3>2, <3>3 DEF PhoneEnd
      <4>. QED
        BY <2>1, <2>2, <2>3, <4>1, ApartGrows DEF Calm, Figures
    <3>. QED
      BY <1>1, <1>u, <3>4, <3>7, <3>8, <3>9 DEF Calm, Figures, Waited
  <2>. QED
    BY <2>4, <2>5
<1>. QED
  BY <1>6, <1>7

LEMMA CalmStays == Shape /\ (Undisturbed => Calm) /\ [Next]_vars => (Undisturbed => Calm)'
<1>. SUFFICES ASSUME Shape, Undisturbed => Calm, [Next]_vars, Undisturbed' PROVE Calm'
  OBVIOUS
<1>. Calm
  BY OnceDisturbed
<1>1. CASE Tick \/ (\E m \in DOMAIN created : Redeliver(m)) \/ UNCHANGED vars
  BY <1>1, OthersCalm
<1>2. ASSUME NEW from \in {"customer", "phone"}, Write(from) PROVE Calm'
  BY <1>2, WriteCalm
<1>3. CASE Session
  <2>1. \A m \in pending : FindOrCreate(m) \/ FindByPeer(m) => Calm'
    BY FindOrCreateCalm, FindByPeerCalm
  <2>2. Reopen \/ SaveDuplicate \/ Insert \/ PhoneIsLate \/ EndWaitLate => Calm'
    BY OthersCalm, SaveDuplicateCalm, InsertCalm
  <2>3. ~HandlerFails
    BY Troubled DEF HandlerFails
  <2>4. \A ok \in BOOLEAN : SaveInbound(ok) \/ SaveFromPhone(ok) \/ SaveLate(ok) => Calm'
    BY SaveInboundCalm, PhoneCalm
  <2>. QED
    BY <1>3, <2>1, <2>2, <2>3, <2>4 DEF Session
<1>4. CASE Inbox
  BY <1>4, InboxCalm, QueueCalm, CloseCalm, MissCalm, OthersCalm DEF Inbox
<1>. QED
  BY <1>1, <1>2, <1>3, <1>4 DEF Next

LEMMA InitCalm == Init => Calm
BY DEF Init, Calm, Arrived, InTime, Storing, NoEvent, Figures, Waited, Unbroken, Spoken, Apart

(* customerWrote, replied, answeredFromPhone and closedWithoutReply keep   *)
(* the figures right, however late the phone's messages come and however   *)
(* often any message comes: whoever is unanswered has an open wait, and an *)
(* open wait is somebody's unless an answer missed it while reopenAfter    *)
(* was opening it.                                                         *)
THEOREM WaitsAreForSomebody == Spec => []OpenWaitIsUnanswered
BY InitCalm, InitShape, ShapeStays, CalmStays, FiguresMeanProperties, PTL DEF Spec

(* With the same invariant and the same exception, the direction in the    *)
(* thread's row shows who waits.                                           *)
THEOREM InboxShowsWaits == Spec => []WaitShowsInInbox
BY InitCalm, InitShape, ShapeStays, CalmStays, FiguresMeanProperties, PTL DEF Spec

(* With the same invariant, no time of waiting is counted twice, but for a *)
(* wait that ended while the next one's message was being stored.          *)
THEOREM WaitsFollowEachOther == Spec => []WaitsDoNotOverlap
BY InitCalm, InitShape, ShapeStays, CalmStays, FiguresMeanProperties, PTL DEF Spec
=============================================================================
