--------------------------- MODULE CsOutboxProofs ---------------------------
(***************************************************************************)
(* Theorems about CsOutbox for any numbers, threads, replies, inbound      *)
(* messages and mishaps, and any size of a batch.  Some need a number to   *)
(* have one session for good (OneSession), and say so.                     *)
(***************************************************************************)
EXTENDS CsOutbox, FiniteSetTheorems, WellFoundedInduction, TLAPS

\* No session is dropped and opened again while its old drainer still works.
OneSession == Generations = 1

Reply == [thread : Threads, status : Statuses, wa : Nat, after : SUBSET Nat]
Places == {"none", "idle", "first", "next", "accepted", "refused", "sent", "acking", "acked"}
Receipt == [status : {"none", "delivered", "read"}, row : Nat, seen : Statuses \cup {"none"}]

(* The shape of the state, part by part.                                   *)
RowsOK ==
  /\ replies \in Seq(Reply)
  /\ copies \in Seq(Nat) /\ Len(copies) = Len(replies)
  /\ lost \in Seq(Nat) /\ Len(lost) = Len(replies)
InboundOK == inbound \in [Threads -> Seq({"delivered", "read"})]
SessionOK == session \in [Accounts -> 1..Generations]
DrainOK ==
  /\ drain \in [Drainers -> [at : Places, batch : SUBSET Nat, ack : SUBSET Nat]]
  /\ \A d \in Drainers :
       /\ drain[d].at \in {"none", "idle"} <=> drain[d].batch = {}
       /\ \A r \in drain[d].batch : r \in DOMAIN replies /\ AccountOf[replies[r].thread] = d[1]
ReceiptOK ==
  /\ receipt \in [Accounts -> Receipt]
  /\ \A a \in Accounts : receipt[a] # NoReceipt =>
       /\ receipt[a].status \in {"delivered", "read"} /\ receipt[a].seen \in Statuses
       /\ receipt[a].row \in DOMAIN replies /\ AccountOf[replies[receipt[a].row].thread] = a
MishapsOK == mishaps \in 0..MaxMishaps
Shape == RowsOK /\ InboundOK /\ SessionOK /\ DrainOK /\ ReceiptOK /\ MishapsOK

-----------------------------------------------------------------------------
(* Facts about sequences, and the head of a batch.                         *)

LEMMA Elements ==
  ASSUME NEW S, NEW s \in Seq(S)
  PROVE  /\ Len(s) \in Nat /\ DOMAIN s = 1..Len(s)
         /\ \A i \in DOMAIN s : s[i] \in S /\ i \in Nat \ {0}
OBVIOUS

LEMMA Changed ==
  ASSUME NEW S, NEW s \in Seq(S), NEW c \in DOMAIN s, NEW e \in S
  PROVE  LET t == [s EXCEPT ![c] = e]
         IN /\ t \in Seq(S) /\ Len(t) = Len(s) /\ DOMAIN t = DOMAIN s
            /\ t[c] = e /\ \A i \in DOMAIN s \ {c} : t[i] = s[i]
OBVIOUS

LEMMA Appended ==
  ASSUME NEW S, NEW s \in Seq(S), NEW e \in S, NEW n \in Nat, n = Len(s)
  PROVE  /\ Append(s, e) \in Seq(S) /\ Len(Append(s, e)) = n + 1
         /\ DOMAIN s = 1..n /\ DOMAIN Append(s, e) = 1..(n + 1)
         /\ Append(s, e)[n + 1] = e /\ \A i \in DOMAIN s : Append(s, e)[i] = s[i]
OBVIOUS

Before == {ss \in Nat \X Nat : ss[1] < ss[2]}

LEMMA BeforeIsWellFounded == IsWellFoundedOn(Before, Nat)
<1>1. Before = OpToRel(<, Nat)
  BY Zenon DEF Before, OpToRel
<1>. QED
  BY <1>1, NatLessThanWellFounded, Zenon

LEMMA Least ==
  ASSUME NEW T \in SUBSET Nat, T # {}
  PROVE  \E n \in T : \A k \in T : n <= k
<1>1. PICK n \in T : \A k \in T : <<k, n>> \notin Before
  BY BeforeIsWellFounded, WFMin
<1>2. ASSUME NEW k \in T PROVE n <= k
  <2>1. k \in Nat /\ n \in Nat /\ <<k, n>> \notin Before
    BY <1>1
  <2>2. <<k, n>>[1] = k /\ <<k, n>>[2] = n /\ <<k, n>> \in Nat \X Nat
    BY <2>1
  <2>3. ~ (k < n)
    BY <2>1, <2>2 DEF Before
  <2>. QED
    BY <2>1, <2>3
<1>. QED
  BY <1>2

\* A drainer that works has a reply at hand, the oldest of its batch.
LEMMA AtHand ==
  ASSUME RowsOK, DrainOK, NEW d \in Drainers, drain[d].at \notin {"none", "idle"}
  PROVE  /\ Current(d) \in drain[d].batch /\ \A r \in drain[d].batch : Current(d) <= r
         /\ Current(d) \in DOMAIN replies /\ Current(d) \in Nat
<1>1. drain[d].batch \in SUBSET Nat /\ drain[d].batch # {}
  BY DEF DrainOK
<1>2. \E r \in drain[d].batch : \A s \in drain[d].batch : r <= s
  BY <1>1, Least
<1>3. Current(d) \in drain[d].batch /\ \A r \in drain[d].batch : Current(d) <= r
  BY <1>2 DEF Current
<1>. QED
  BY <1>1, <1>3 DEF DrainOK

\* What ClaimQueued returns: queued rows of the number, and every older one.
LEMMA Claimed ==
  ASSUME RowsOK, NEW a \in Accounts
  PROVE  /\ ClaimQueued(a) \in SUBSET Nat
         /\ \A s \in ClaimQueued(a) :
              /\ s \in DOMAIN replies /\ replies[s].status = "queued" /\ AccountOf[replies[s].thread] = a
              /\ \A r \in DOMAIN replies :
                   r < s /\ replies[r].status = "queued" /\ AccountOf[replies[r].thread] = a
                   => r \in ClaimQueued(a)
<1>. PICK n \in Nat : n = Len(replies)
  BY Elements DEF RowsOK
<1>1. DOMAIN replies = 1..n /\ Queued(a) \subseteq 1..n
  BY Elements DEF RowsOK, Queued
<1>2. IsFiniteSet(Queued(a))
  <2>1. IsFiniteSet(1..n)
    BY FS_Interval
  <2>. QED
    BY <1>1, <2>1, FS_Subset
<1>3. ASSUME NEW s \in ClaimQueued(a), NEW r \in Queued(a), r < s
      PROVE  r \in ClaimQueued(a)
  <2>. DEFINE older(x) == {q \in Queued(a) : q < x}
  <2>1. older(r) \subseteq older(s) /\ older(s) \subseteq Queued(a)
    BY <1>1, <1>3 DEF ClaimQueued
  <2>2. IsFiniteSet(older(s)) /\ IsFiniteSet(older(r))
    BY <1>2, <2>1, FS_Subset
  <2>3. Cardinality(older(r)) <= Cardinality(older(s))
    BY <2>1, <2>2, FS_Subset
  <2>4. Cardinality(older(r)) \in Nat /\ Cardinality(older(s)) \in Nat
    BY <2>2, FS_CardinalityType
  <2>5. Cardinality(older(s)) < Batch
    BY DEF ClaimQueued
  <2>. QED
    BY <2>3, <2>4, <2>5, ParametersAssumption DEF ClaimQueued
<1>. QED
  BY <1>1, <1>3 DEF ClaimQueued, Queued

LEMMA ShapeIsType == Shape => TypeOK
<1>. SUFFICES ASSUME Shape PROVE TypeOK
  OBVIOUS
<1>1. /\ \A r \in DOMAIN replies : replies[r] \in Reply
      /\ DOMAIN replies = 1..Len(replies) /\ DOMAIN copies = 1..Len(copies) /\ DOMAIN lost = 1..Len(lost)
  BY Elements DEF Shape, RowsOK
<1>. QED
  BY <1>1 DEF Shape, RowsOK, InboundOK, SessionOK, DrainOK, MishapsOK, TypeOK, Reply, Places

-----------------------------------------------------------------------------
(* How the rows and the drainers move.                                     *)

Drainer == [at : Places, batch : SUBSET Nat, ack : SUBSET Nat]
Working(d) == drain[d].at \notin {"none", "idle"}

\* Rows are not deleted, stay in their thread and keep their place in it.
SameThreads ==
  /\ DOMAIN replies \subseteq DOMAIN replies'
  /\ \A r \in DOMAIN replies :
       replies'[r].thread = replies[r].thread /\ replies'[r].after = replies[r].after

LEMMA NoThreadMoves == UNCHANGED replies => SameThreads
BY DEF SameThreads

\* A row is written.
LEMMA RowWritten ==
  ASSUME RowsOK, NEW c \in DOMAIN replies, NEW row \in Reply, row.thread = replies[c].thread,
         row.after = replies[c].after,
         replies' = [replies EXCEPT ![c] = row]
  PROVE  /\ replies' \in Seq(Reply) /\ Len(replies') = Len(replies) /\ DOMAIN replies' = DOMAIN replies
         /\ SameThreads /\ replies'[c] = row /\ \A r \in DOMAIN replies \ {c} : replies'[r] = replies[r]
         /\ UNCHANGED <<copies, lost>> => RowsOK'
<1>1. /\ replies' \in Seq(Reply) /\ Len(replies') = Len(replies) /\ DOMAIN replies' = DOMAIN replies
      /\ replies'[c] = row /\ \A r \in DOMAIN replies \ {c} : replies'[r] = replies[r]
  BY Changed DEF RowsOK
<1>2. SameThreads
  BY <1>1 DEF SameThreads
<1>3. UNCHANGED <<copies, lost>> => RowsOK'
  BY <1>1 DEF RowsOK, Reply, Statuses
<1>. QED
  BY <1>1, <1>2, <1>3

\* A count of copies is written.
LEMMA CountWritten ==
  ASSUME NEW n, NEW s \in Seq(Nat), Len(s) = n, NEW c \in DOMAIN s, NEW k \in Nat, NEW t,
         t = [s EXCEPT ![c] = k]
  PROVE  /\ t \in Seq(Nat) /\ Len(t) = n /\ DOMAIN t = DOMAIN s
         /\ t[c] = k /\ \A r \in DOMAIN s \ {c} : t[r] = s[r]
BY Changed

LEMMA Domains ==
  ASSUME RowsOK
  PROVE  /\ DOMAIN copies = DOMAIN replies /\ DOMAIN lost = DOMAIN replies
         /\ \A r \in DOMAIN replies :
              replies[r] \in Reply /\ copies[r] \in Nat /\ lost[r] \in Nat /\ r \in Nat \ {0}
BY Elements DEF RowsOK

LEMMA DomainsThen ==
  ASSUME RowsOK'
  PROVE  /\ DOMAIN copies' = DOMAIN replies' /\ DOMAIN lost' = DOMAIN replies'
         /\ \A r \in DOMAIN replies' :
              replies'[r] \in Reply /\ copies'[r] \in Nat /\ lost'[r] \in Nat /\ r \in Nat \ {0}
<1>1. Reply' = Reply
  BY DEF Reply, Statuses
<1>. QED
  BY <1>1, Elements DEF RowsOK

\* One drainer turns to another state.
LEMMA DrainerMoves ==
  ASSUME DrainOK, SameThreads, NEW d \in Drainers, NEW e \in Drainer, drain' = [drain EXCEPT ![d] = e],
         e.at \in {"none", "idle"} <=> e.batch = {},
         \A r \in e.batch : r \in DOMAIN replies /\ AccountOf[replies[r].thread] = d[1]
  PROVE  /\ DrainOK' /\ drain'[d] = e /\ \A o \in Drainers \ {d} : drain'[o] = drain[o]
<1>1. /\ drain' \in [Drainers -> Drainer] /\ drain'[d] = e
      /\ \A o \in Drainers \ {d} : drain'[o] = drain[o]
  BY DEF DrainOK, Drainer
<1>2. ASSUME NEW o \in Drainers
      PROVE  /\ drain'[o].at \in {"none", "idle"} <=> drain'[o].batch = {}
             /\ \A r \in drain'[o].batch : r \in DOMAIN replies /\ AccountOf[replies[r].thread] = o[1]
  BY <1>1 DEF DrainOK
<1>. QED
  BY <1>1, <1>2 DEF DrainOK, SameThreads, Drainer

LEMMA DrainersStay ==
  ASSUME DrainOK, SameThreads, UNCHANGED drain
  PROVE  DrainOK'
BY DEF DrainOK, SameThreads

LEMMA Idle == IdleDrain \in Drainer /\ IdleDrain.batch = {} /\ IdleDrain.at = "idle"
BY DEF IdleDrain, Drainer, Places

LEMMA StopMoves ==
  ASSUME DrainOK, SameThreads, NEW d \in Drainers, Stop(d)
  PROVE  DrainOK' /\ drain'[d] = IdleDrain /\ \A o \in Drainers \ {d} : drain'[o] = drain[o]
BY Idle, DrainerMoves DEF Stop

LEMMA AtMoves ==
  ASSUME DrainOK, SameThreads, NEW d \in Drainers, Working(d), NEW place \in Places \ {"none", "idle"},
         At(d, place)
  PROVE  /\ DrainOK' /\ drain'[d].at = place /\ drain'[d].batch = drain[d].batch
         /\ drain'[d].ack = drain[d].ack /\ \A o \in Drainers \ {d} : drain'[o] = drain[o]
<1>. DEFINE e == [drain[d] EXCEPT !.at = place]
<1>1. e \in Drainer /\ e.at = place /\ e.batch = drain[d].batch /\ e.ack = drain[d].ack
  BY DEF DrainOK, Drainer
<1>2. drain' = [drain EXCEPT ![d] = e]
  BY DEF At
<1>3. e.at \in {"none", "idle"} <=> e.batch = {}
  BY <1>1 DEF DrainOK, Working
<1>4. \A r \in e.batch : r \in DOMAIN replies /\ AccountOf[replies[r].thread] = d[1]
  BY <1>1 DEF DrainOK
<1>. HIDE DEF e
<1>. QED
  BY <1>1, <1>2, <1>3, <1>4, DrainerMoves

LEMMA OnwardMoves ==
  ASSUME RowsOK, DrainOK, SameThreads, NEW d \in Drainers, Working(d), Onward(d)
  PROVE  /\ DrainOK' /\ drain'[d].at \in {"idle", "next"} /\ drain'[d].batch = drain[d].batch \ {Current(d)}
         /\ \A o \in Drainers \ {d} : drain'[o] = drain[o]
<1>. DEFINE rest == drain[d].batch \ {Current(d)}
            e == IF rest = {} THEN IdleDrain ELSE [at |-> "next", batch |-> rest, ack |-> {}]
<1>1. rest \in SUBSET Nat
  BY DEF DrainOK
<1>2. e \in Drainer /\ e.at \in {"idle", "next"} /\ e.batch = rest
  BY <1>1, Idle DEF Drainer, Places
<1>3. drain' = [drain EXCEPT ![d] = e]
  BY DEF Onward
<1>4. e.at \in {"none", "idle"} <=> e.batch = {}
  BY <1>2, Idle
<1>5. \A r \in e.batch : r \in DOMAIN replies /\ AccountOf[replies[r].thread] = d[1]
  BY <1>2 DEF DrainOK
<1>. HIDE DEF e
<1>6. DrainOK' /\ drain'[d] = e /\ \A o \in Drainers \ {d} : drain'[o] = drain[o]
  BY <1>2, <1>3, <1>4, <1>5, DrainerMoves
<1>. QED
  BY <1>2, <1>6

LEMMA ReceiptsStay ==
  ASSUME ReceiptOK, SameThreads, UNCHANGED receipt
  PROVE  ReceiptOK'
BY DEF ReceiptOK, SameThreads

LEMMA OthersStay ==
  /\ RowsOK /\ UNCHANGED <<replies, copies, lost>> => RowsOK'
  /\ InboundOK /\ UNCHANGED inbound => InboundOK'
  /\ SessionOK /\ UNCHANGED session => SessionOK'
  /\ MishapsOK /\ UNCHANGED mishaps => MishapsOK'
BY DEF RowsOK, InboundOK, SessionOK, MishapsOK, Reply, Statuses

LEMMA MishapCounted ==
  ASSUME MishapsOK, mishaps < MaxMishaps, mishaps' = mishaps + 1
  PROVE  MishapsOK'
BY ParametersAssumption DEF MishapsOK

-----------------------------------------------------------------------------
(* Action by action, the shape stays.                                      *)

LEMMA InitShape == Init => Shape
<1>. SUFFICES ASSUME Init PROVE Shape
  OBVIOUS
<1>1. RowsOK /\ InboundOK /\ SessionOK /\ MishapsOK
  BY ParametersAssumption DEF Init, RowsOK, InboundOK, SessionOK, MishapsOK
<1>2. DrainOK
  <2>1. \A d \in Drainers : drain[d] \in {IdleDrain, NoDrainer}
    BY DEF Init
  <2>2. drain \in [Drainers -> Drainer]
    BY DEF Init, Drainer, Places, IdleDrain, NoDrainer
  <2>. QED
    BY <2>1, <2>2 DEF DrainOK, Drainer, IdleDrain, NoDrainer
<1>3. ReceiptOK
  BY DEF Init, ReceiptOK, Receipt, NoReceipt
<1>. QED
  BY <1>1, <1>2, <1>3 DEF Shape

\* A reply is written: a row after all others, which nobody sees yet.
LEMMA QueueAppends ==
  ASSUME Shape, NEW t \in Threads, Queue(t)
  PROVE  \E n \in Nat, row \in Reply :
            /\ row.status = "writing" /\ row.wa = 0
            /\ row.after = {r \in DOMAIN replies : replies[r].thread = row.thread /\ Committed(r)}
            /\ DOMAIN replies = 1..n /\ DOMAIN replies' = 1..(n + 1)
            /\ replies' \in Seq(Reply) /\ copies' \in Seq(Nat) /\ lost' \in Seq(Nat)
            /\ Len(replies') = n + 1 /\ Len(copies') = n + 1 /\ Len(lost') = n + 1
            /\ replies'[n + 1] = row /\ \A r \in DOMAIN replies : replies'[r] = replies[r]
            /\ copies'[n + 1] = 0 /\ \A r \in DOMAIN replies : copies'[r] = copies[r]
            /\ lost'[n + 1] = 0 /\ \A r \in DOMAIN replies : lost'[r] = lost[r]
<1>. PICK n \in Nat : n = Len(replies)
  BY Elements DEF Shape, RowsOK
<1>. DEFINE there == {r \in DOMAIN replies : replies[r].thread = t /\ Committed(r)}
            row == [thread |-> t, status |-> "writing", wa |-> 0, after |-> there]
<1>1. there \in SUBSET Nat
  BY Elements DEF Shape, RowsOK
<1>2. /\ row \in Reply /\ row.status = "writing" /\ row.wa = 0 /\ row.thread = t
      /\ row.after = {r \in DOMAIN replies : replies[r].thread = t /\ Committed(r)}
  BY <1>1 DEF Reply, Statuses
<1>3. replies' = Append(replies, row) /\ copies' = Append(copies, 0) /\ lost' = Append(lost, 0)
  BY DEF Queue
<1>. HIDE DEF row, there
<1>4. /\ DOMAIN replies = 1..n /\ DOMAIN replies' = 1..(n + 1) /\ replies'[n + 1] = row
      /\ replies' \in Seq(Reply) /\ Len(replies') = n + 1
      /\ \A r \in DOMAIN replies : replies'[r] = replies[r]
  BY <1>2, <1>3, Appended DEF Shape, RowsOK
<1>5. /\ copies' \in Seq(Nat) /\ Len(copies') = n + 1 /\ copies'[n + 1] = 0
      /\ \A r \in DOMAIN replies : copies'[r] = copies[r]
  BY <1>3, Appended, Domains DEF Shape, RowsOK
<1>6. /\ lost' \in Seq(Nat) /\ Len(lost') = n + 1 /\ lost'[n + 1] = 0
      /\ \A r \in DOMAIN replies : lost'[r] = lost[r]
  BY <1>3, Appended, Domains DEF Shape, RowsOK
<1>. QED
  BY <1>2, <1>4, <1>5, <1>6

LEMMA QueueShape ==
  ASSUME Shape, NEW t \in Threads, Queue(t)
  PROVE  Shape' /\ SameThreads
<1>1. PICK n \in Nat :
        /\ DOMAIN replies = 1..n /\ DOMAIN replies' = 1..(n + 1)
        /\ replies' \in Seq(Reply) /\ copies' \in Seq(Nat) /\ lost' \in Seq(Nat)
        /\ Len(replies') = n + 1 /\ Len(copies') = n + 1 /\ Len(lost') = n + 1
        /\ \A r \in DOMAIN replies : replies'[r] = replies[r]
  BY QueueAppends
<1>2. RowsOK' /\ SameThreads
  BY <1>1 DEF RowsOK, Reply, Statuses, SameThreads
<1>3. DrainOK' /\ ReceiptOK'
  BY <1>2, DrainersStay, ReceiptsStay DEF Queue, Shape
<1>4. InboundOK' /\ SessionOK' /\ MishapsOK'
  BY OthersStay DEF Queue, Shape
<1>. QED
  BY <1>2, <1>3, <1>4 DEF Shape

\* Its transaction ends: the row is queued, or never was.
LEMMA EndQueueShape ==
  ASSUME Shape, NEW c \in DOMAIN replies, EndQueue(c)
  PROVE  /\ Shape' /\ SameThreads /\ DOMAIN replies' = DOMAIN replies
         /\ replies[c].status = "writing" /\ replies'[c].status \in {"queued", "undone"}
         /\ replies'[c].wa = replies[c].wa
         /\ \A r \in DOMAIN replies \ {c} : replies'[r] = replies[r]
<1>1. replies[c] \in Reply
  BY Domains DEF Shape
<1>2. PICK status \in {"queued", "undone"} : replies' = [replies EXCEPT ![c].status = status]
  BY DEF EndQueue
<1>. DEFINE row == [replies[c] EXCEPT !.status = status]
<1>3. /\ row \in Reply /\ row.thread = replies[c].thread /\ row.after = replies[c].after
      /\ row.status \in {"queued", "undone"} /\ row.wa = replies[c].wa
  BY <1>1 DEF Reply, Statuses
<1>4. replies' = [replies EXCEPT ![c] = row]
  BY <1>2
<1>. HIDE DEF row
<1>5. /\ RowsOK' /\ DOMAIN replies' = DOMAIN replies /\ SameThreads /\ replies'[c] = row
      /\ \A r \in DOMAIN replies \ {c} : replies'[r] = replies[r]
  BY <1>3, <1>4, RowWritten DEF EndQueue, world, Shape
<1>6. DrainOK' /\ ReceiptOK'
  BY <1>5, DrainersStay, ReceiptsStay DEF EndQueue, Shape
<1>7. InboundOK' /\ SessionOK' /\ MishapsOK' /\ replies[c].status = "writing"
  BY OthersStay DEF EndQueue, Shape
<1>. QED
  BY <1>3, <1>5, <1>6, <1>7 DEF Shape

LEMMA CustomerWritesShape ==
  ASSUME Shape, NEW t \in Threads, CustomerWrites(t)
  PROVE  Shape'
<1>1. InboundOK'
  <2>1. inbound[t] \in Seq({"delivered", "read"})
    BY DEF Shape, InboundOK
  <2>2. Append(inbound[t], "delivered") \in Seq({"delivered", "read"})
    BY <2>1, Elements, Appended
  <2>. QED
    BY <2>2 DEF CustomerWrites, Shape, InboundOK
<1>2. DrainOK' /\ ReceiptOK'
  BY NoThreadMoves, DrainersStay, ReceiptsStay DEF CustomerWrites, Shape
<1>3. RowsOK' /\ SessionOK' /\ MishapsOK'
  BY OthersStay DEF CustomerWrites, world, Shape
<1>. QED
  BY <1>1, <1>2, <1>3 DEF Shape

LEMMA StartDrainShape ==
  ASSUME Shape, NEW d \in Drainers, StartDrain(d)
  PROVE  /\ Shape' /\ drain'[d].at = "first" /\ drain'[d].batch = ClaimQueued(d[1])
         /\ drain'[d].ack = {} /\ \A o \in Drainers \ {d} : drain'[o] = drain[o]
<1>. DEFINE e == [at |-> "first", batch |-> ClaimQueued(d[1]), ack |-> {}]
<1>1. d[1] \in Accounts
  BY DEF Drainers
<1>2. /\ e.batch = ClaimQueued(d[1]) /\ e.at = "first" /\ e.ack = {} /\ e.batch # {}
      /\ drain' = [drain EXCEPT ![d] = e] /\ UNCHANGED replies
  BY DEF StartDrain
<1>3. e \in Drainer /\ \A r \in e.batch : r \in DOMAIN replies /\ AccountOf[replies[r].thread] = d[1]
  BY <1>1, Claimed DEF Drainer, Places, Shape
<1>. HIDE DEF e
<1>4. /\ DrainOK' /\ drain'[d] = e /\ \A o \in Drainers \ {d} : drain'[o] = drain[o]
  BY <1>2, <1>3, DrainerMoves, NoThreadMoves DEF Shape
<1>5. ReceiptOK'
  BY NoThreadMoves, ReceiptsStay DEF StartDrain, Shape
<1>6. RowsOK' /\ InboundOK' /\ SessionOK' /\ MishapsOK'
  BY OthersStay DEF StartDrain, world, Shape
<1>. QED
  BY <1>2, <1>4, <1>5, <1>6 DEF Shape

LEMMA CancelDrainShape ==
  ASSUME Shape, NEW d \in Drainers, CancelDrain(d)
  PROVE  Shape' /\ drain'[d] = IdleDrain /\ \A o \in Drainers \ {d} : drain'[o] = drain[o]
<1>1. DrainOK' /\ drain'[d] = IdleDrain /\ \A o \in Drainers \ {d} : drain'[o] = drain[o]
  BY StopMoves, NoThreadMoves DEF CancelDrain, Shape
<1>2. ReceiptOK'
  BY NoThreadMoves, ReceiptsStay DEF CancelDrain, Shape
<1>3. RowsOK' /\ InboundOK' /\ SessionOK' /\ MishapsOK'
  BY OthersStay DEF CancelDrain, world, Shape
<1>. QED
  BY <1>1, <1>2, <1>3 DEF Shape

\* A send: accepted, refused, or accepted with the answer lost.
LEMMA SendShape ==
  ASSUME Shape, NEW d \in Drainers, Send(d)
  PROVE  /\ Shape' /\ drain[d].at \in {"first", "next"}
         /\ drain'[d].batch = drain[d].batch /\ drain'[d].ack = drain[d].ack
         /\ \A o \in Drainers \ {d} : drain'[o] = drain[o]
         /\ DOMAIN copies' = DOMAIN copies
         /\ \A r \in DOMAIN copies \ {Current(d)} : copies'[r] = copies[r]
         /\ \/ /\ drain'[d].at = "accepted" /\ Running(d) /\ copies'[Current(d)] = copies[Current(d)] + 1
            \/ /\ drain'[d].at = "refused" /\ Running(d) /\ copies'[Current(d)] = copies[Current(d)] + 1
            \/ /\ drain'[d].at = "refused" /\ UNCHANGED copies
<1>1. drain[d].at \in {"first", "next"} /\ Working(d)
  BY DEF Send, Accept, Refuse, Working
<1>2. Current(d) \in DOMAIN copies /\ copies[Current(d)] \in Nat
  BY <1>1, AtHand, Domains DEF Shape, Working
<1>3. PICK place \in {"accepted", "refused"} :
        /\ At(d, place) /\ UNCHANGED <<replies, inbound, session, receipt, lost, mishaps>>
        /\ \/ Running(d) /\ copies' = [copies EXCEPT ![Current(d)] = copies[Current(d)] + 1]
           \/ place = "refused" /\ UNCHANGED copies
  BY DEF Send, Accept, Refuse
<1>4. /\ copies' \in Seq(Nat) /\ Len(copies') = Len(copies) /\ DOMAIN copies' = DOMAIN copies
      /\ \A r \in DOMAIN copies \ {Current(d)} : copies'[r] = copies[r]
      /\ \/ Running(d) /\ copies'[Current(d)] = copies[Current(d)] + 1
         \/ place = "refused" /\ UNCHANGED copies
  <2>1. CASE place = "refused" /\ UNCHANGED copies
    BY <2>1 DEF Shape, RowsOK
  <2>2. CASE Running(d) /\ copies' = [copies EXCEPT ![Current(d)] = copies[Current(d)] + 1]
    BY <1>2, <2>2, CountWritten DEF Shape, RowsOK
  <2>. QED
    BY <1>3, <2>1, <2>2
<1>5. RowsOK'
  BY <1>3, <1>4 DEF Shape, RowsOK, Reply, Statuses
<1>6. /\ DrainOK' /\ drain'[d].at = place /\ drain'[d].batch = drain[d].batch
      /\ drain'[d].ack = drain[d].ack /\ \A o \in Drainers \ {d} : drain'[o] = drain[o]
  BY <1>1, <1>3, AtMoves, NoThreadMoves DEF Shape, Places
<1>7. ReceiptOK'
  BY <1>3, NoThreadMoves, ReceiptsStay DEF Shape
<1>8. InboundOK' /\ SessionOK' /\ MishapsOK'
  BY <1>3, OthersStay DEF Shape
<1>. QED
  BY <1>1, <1>4, <1>5, <1>6, <1>7, <1>8 DEF Shape

LEMMA MarkSentShape ==
  ASSUME Shape, NEW d \in Drainers, MarkSent(d)
  PROVE  /\ Shape' /\ SameThreads /\ DOMAIN replies' = DOMAIN replies
         /\ replies'[Current(d)].status = "sent" /\ replies'[Current(d)].wa = copies[Current(d)]
         /\ \A r \in DOMAIN replies \ {Current(d)} : replies'[r] = replies[r]
         /\ drain'[d].at = "sent" /\ drain'[d].batch = drain[d].batch /\ drain'[d].ack = drain[d].ack
         /\ \A o \in Drainers \ {d} : drain'[o] = drain[o]
<1>. PICK c \in DOMAIN replies : c = Current(d) /\ Working(d)
  BY AtHand DEF Shape, MarkSent, Working
<1>1. replies[c] \in Reply /\ copies[c] \in Nat
  BY Domains DEF Shape
<1>. DEFINE row == [[replies[c] EXCEPT !.status = "sent"] EXCEPT !.wa = copies[c]]
<1>2. row \in Reply /\ row.thread = replies[c].thread /\ row.after = replies[c].after /\ row.status = "sent" /\ row.wa = copies[c]
  BY <1>1 DEF Reply, Statuses
<1>3. replies' = [replies EXCEPT ![c] = row]
  <2>1. c \in DOMAIN [replies EXCEPT ![c].status = "sent"]
    OBVIOUS
  <2>. QED
    BY <2>1 DEF MarkSent
<1>. HIDE DEF row
<1>4. /\ RowsOK' /\ DOMAIN replies' = DOMAIN replies /\ SameThreads /\ replies'[c] = row
      /\ \A r \in DOMAIN replies \ {c} : replies'[r] = replies[r]
  BY <1>2, <1>3, RowWritten DEF MarkSent, world, Shape
<1>5. /\ DrainOK' /\ drain'[d].at = "sent" /\ drain'[d].batch = drain[d].batch
      /\ drain'[d].ack = drain[d].ack /\ \A o \in Drainers \ {d} : drain'[o] = drain[o]
  BY <1>4, AtMoves DEF MarkSent, Shape, Places
<1>6. ReceiptOK'
  BY <1>4, ReceiptsStay DEF MarkSent, Shape
<1>7. InboundOK' /\ SessionOK' /\ MishapsOK'
  BY OthersStay DEF MarkSent, Shape
<1>. QED
  BY <1>2, <1>4, <1>5, <1>6, <1>7 DEF Shape

LEMMA MarkFailedShape ==
  ASSUME Shape, NEW d \in Drainers, MarkFailed(d)
  PROVE  /\ Shape' /\ SameThreads /\ DOMAIN replies' = DOMAIN replies
         /\ replies'[Current(d)].status = "failed" /\ replies'[Current(d)].wa = replies[Current(d)].wa
         /\ \A r \in DOMAIN replies \ {Current(d)} : replies'[r] = replies[r]
         /\ drain'[d].at \in {"idle", "next"} /\ drain'[d].batch = drain[d].batch \ {Current(d)}
         /\ \A o \in Drainers \ {d} : drain'[o] = drain[o]
<1>. PICK c \in DOMAIN replies : c = Current(d) /\ Working(d)
  BY AtHand DEF Shape, MarkFailed, Working
<1>1. replies[c] \in Reply
  BY Domains DEF Shape
<1>. DEFINE row == [replies[c] EXCEPT !.status = "failed"]
<1>2. row \in Reply /\ row.thread = replies[c].thread /\ row.after = replies[c].after /\ row.status = "failed" /\ row.wa = replies[c].wa
  BY <1>1 DEF Reply, Statuses
<1>3. replies' = [replies EXCEPT ![c] = row]
  BY DEF MarkFailed
<1>. HIDE DEF row
<1>4. /\ RowsOK' /\ DOMAIN replies' = DOMAIN replies /\ SameThreads /\ replies'[c] = row
      /\ \A r \in DOMAIN replies \ {c} : replies'[r] = replies[r]
  BY <1>2, <1>3, RowWritten DEF MarkFailed, world, Shape
<1>5. /\ DrainOK' /\ drain'[d].at \in {"idle", "next"} /\ drain'[d].batch = drain[d].batch \ {c}
      /\ \A o \in Drainers \ {d} : drain'[o] = drain[o]
  BY <1>4, OnwardMoves DEF MarkFailed, Shape
<1>6. ReceiptOK'
  BY <1>4, ReceiptsStay DEF MarkFailed, Shape
<1>7. InboundOK' /\ SessionOK' /\ MishapsOK'
  BY OthersStay DEF MarkFailed, Shape
<1>. QED
  BY <1>2, <1>4, <1>5, <1>6, <1>7 DEF Shape

LEMMA MarkErrorShape ==
  ASSUME Shape, NEW d \in Drainers, MarkError(d)
  PROVE  /\ Shape' /\ drain'[d] = IdleDrain /\ \A o \in Drainers \ {d} : drain'[o] = drain[o]
         /\ DOMAIN lost' = DOMAIN lost /\ lost'[Current(d)] = copies[Current(d)]
         /\ \A r \in DOMAIN lost \ {Current(d)} : lost'[r] = lost[r]
<1>. PICK c \in DOMAIN replies : c = Current(d) /\ Working(d)
  BY AtHand DEF Shape, MarkError, Working
<1>1. c \in DOMAIN lost /\ copies[c] \in Nat
  BY Domains DEF Shape
<1>2. /\ lost' \in Seq(Nat) /\ Len(lost') = Len(lost) /\ DOMAIN lost' = DOMAIN lost
      /\ lost'[c] = copies[c] /\ \A r \in DOMAIN lost \ {c} : lost'[r] = lost[r]
  BY <1>1, CountWritten DEF MarkError, Shape, RowsOK
<1>3. RowsOK'
  BY <1>2 DEF MarkError, world, Shape, RowsOK, Reply, Statuses
<1>4. DrainOK' /\ drain'[d] = IdleDrain /\ \A o \in Drainers \ {d} : drain'[o] = drain[o]
  BY StopMoves, NoThreadMoves DEF MarkError, Shape
<1>5. ReceiptOK'
  BY NoThreadMoves, ReceiptsStay DEF MarkError, Shape
<1>6. InboundOK' /\ SessionOK' /\ MishapsOK'
  BY OthersStay, MishapCounted DEF MarkError, Shape
<1>. QED
  BY <1>2, <1>3, <1>4, <1>5, <1>6 DEF Shape

LEMMA AckReadShape ==
  ASSUME Shape, NEW d \in Drainers, AckRead(d)
  PROVE  /\ Shape' /\ drain'[d].at = "acking" /\ drain'[d].batch = drain[d].batch
         /\ \A o \in Drainers \ {d} : drain'[o] = drain[o]
<1>. PICK t \in Threads : t = replies[Current(d)].thread /\ Working(d)
  BY AtHand, Domains DEF Shape, AckRead, Working, Reply
<1>. DEFINE waiting == {i \in DOMAIN inbound[t] : inbound[t][i] # "read"}
            e == [[drain[d] EXCEPT !.at = "acking"] EXCEPT !.ack = waiting]
<1>1. waiting \in SUBSET Nat
  BY Elements DEF Shape, InboundOK
<1>2. drain[d] \in Drainer /\ drain[d].batch # {}
  BY DEF Shape, DrainOK, Drainer, Working
<1>3. drain' = [drain EXCEPT ![d] = e]
  BY DEF AckRead
<1>. HIDE DEF waiting
<1>4. e \in Drainer /\ e.at = "acking" /\ e.batch = drain[d].batch
  BY <1>1, <1>2 DEF Drainer, Places
<1>. HIDE DEF e
<1>5. \A r \in e.batch : r \in DOMAIN replies /\ AccountOf[replies[r].thread] = d[1]
  BY <1>4 DEF Shape, DrainOK
<1>6. DrainOK' /\ drain'[d] = e /\ \A o \in Drainers \ {d} : drain'[o] = drain[o]
  BY <1>2, <1>3, <1>4, <1>5, DrainerMoves, NoThreadMoves DEF AckRead, Shape
<1>7. ReceiptOK'
  BY NoThreadMoves, ReceiptsStay DEF AckRead, Shape
<1>8. RowsOK' /\ InboundOK' /\ SessionOK' /\ MishapsOK'
  BY OthersStay DEF AckRead, world, Shape
<1>. QED
  BY <1>4, <1>6, <1>7, <1>8 DEF Shape

LEMMA AckTellShape ==
  ASSUME Shape, NEW d \in Drainers, AckTell(d)
  PROVE  /\ Shape' /\ drain'[d].at = "acked" /\ drain'[d].batch = drain[d].batch
         /\ drain'[d].ack = drain[d].ack /\ \A o \in Drainers \ {d} : drain'[o] = drain[o]
<1>1. /\ DrainOK' /\ drain'[d].at = "acked" /\ drain'[d].batch = drain[d].batch
      /\ drain'[d].ack = drain[d].ack /\ \A o \in Drainers \ {d} : drain'[o] = drain[o]
  BY AtMoves, NoThreadMoves DEF AckTell, Shape, Places, Working
<1>2. ReceiptOK'
  BY NoThreadMoves, ReceiptsStay DEF AckTell, Shape
<1>3. RowsOK' /\ InboundOK' /\ SessionOK' /\ MishapsOK'
  BY OthersStay DEF AckTell, Shape
<1>. QED
  BY <1>1, <1>2, <1>3 DEF Shape

LEMMA AckEndsShape ==
  ASSUME Shape, NEW d \in Drainers, AckRecord(d) \/ AckSkip(d)
  PROVE  /\ Shape' /\ drain'[d].at \in {"idle", "next"} /\ drain'[d].batch = drain[d].batch \ {Current(d)}
         /\ \A o \in Drainers \ {d} : drain'[o] = drain[o]
<1>1. Working(d) /\ Onward(d) /\ UNCHANGED <<replies, session, receipt, copies, lost, mishaps>>
  BY DEF AckRecord, AckSkip, Working, world
<1>2. /\ DrainOK' /\ drain'[d].at \in {"idle", "next"} /\ drain'[d].batch = drain[d].batch \ {Current(d)}
      /\ \A o \in Drainers \ {d} : drain'[o] = drain[o]
  BY <1>1, OnwardMoves, NoThreadMoves DEF Shape
<1>3. InboundOK'
  <2>1. CASE AckRecord(d)
    <3>. PICK t \in Threads : t = replies[Current(d)].thread
      BY <1>1, AtHand, Domains DEF Shape, Working, Reply
    <3>1. inbound[t] \in Seq({"delivered", "read"})
      BY DEF Shape, InboundOK
    <3>. DEFINE row == [i \in DOMAIN inbound[t] |-> IF i \in drain[d].ack THEN "read" ELSE inbound[t][i]]
    <3>2. row \in Seq({"delivered", "read"})
      BY <3>1
    <3>3. inbound' = [inbound EXCEPT ![t] = row]
      BY <2>1 DEF AckRecord
    <3>. QED
      BY <3>2, <3>3 DEF Shape, InboundOK
  <2>2. CASE AckSkip(d)
    BY <2>2 DEF AckSkip, Shape, InboundOK
  <2>. QED
    BY <2>1, <2>2
<1>4. ReceiptOK'
  BY <1>1, NoThreadMoves, ReceiptsStay DEF Shape
<1>5. RowsOK' /\ SessionOK' /\ MishapsOK'
  BY <1>1, OthersStay DEF Shape
<1>. QED
  BY <1>2, <1>3, <1>4, <1>5 DEF Shape

LEMMA ReceiptReadShape ==
  ASSUME Shape, NEW a \in Accounts, NEW r \in DOMAIN replies, NEW n \in 1..MaxReplies,
         NEW s \in {"delivered", "read"}, ReceiptRead(a, r, n, s)
  PROVE  /\ Shape' /\ UNCHANGED <<replies, inbound, drain, copies, told, lost>>
         /\ answered' = answered \cup {<<r, n, s>>}
         /\ \A b \in Accounts \ {a} : receipt'[b] = receipt[b]
         /\ receipt[a] = NoReceipt
         /\ \/ receipt'[a] = NoReceipt
            \/ /\ receipt'[a] = [status |-> s, row |-> r, seen |-> replies[r].status]
               /\ replies[r].wa = n /\ n \in 1..copies[r]
<1>1. replies[r] \in Reply /\ r \in Nat
  BY Domains DEF Shape
<1>2. [status |-> s, row |-> r, seen |-> replies[r].status] \in Receipt
  BY <1>1 DEF Receipt, Reply
<1>3. /\ receipt' \in [Accounts -> Receipt]
      /\ \A b \in Accounts \ {a} : receipt'[b] = receipt[b]
      /\ receipt[a] = NoReceipt
      /\ \/ receipt'[a] = NoReceipt
         \/ /\ receipt'[a] = [status |-> s, row |-> r, seen |-> replies[r].status]
            /\ replies[r].wa = n /\ n \in 1..copies[r]
  BY <1>2 DEF ReceiptRead, Shape, ReceiptOK
<1>4. UNCHANGED <<replies, inbound, session, drain, copies, told, lost, mishaps>>
      /\ answered' = answered \cup {<<r, n, s>>} /\ AccountOf[replies[r].thread] = a
  BY DEF ReceiptRead
<1>5. ReceiptOK'
  <2>1. ASSUME NEW b \in Accounts, receipt'[b] # NoReceipt
        PROVE  /\ receipt'[b].status \in {"delivered", "read"} /\ receipt'[b].seen \in Statuses
               /\ receipt'[b].row \in DOMAIN replies /\ AccountOf[replies[receipt'[b].row].thread] = b
    <3>1. CASE b = a
      BY <1>1, <1>3, <1>4, <2>1, <3>1 DEF Reply
    <3>2. CASE b # a
      BY <1>3, <2>1, <3>2 DEF Shape, ReceiptOK
    <3>. QED
      BY <3>1, <3>2
  <2>. QED
    BY <1>3, <1>4, <2>1 DEF ReceiptOK, Receipt, Statuses
<1>6. DrainOK'
  BY <1>4, NoThreadMoves, DrainersStay DEF Shape
<1>7. RowsOK' /\ InboundOK' /\ SessionOK' /\ MishapsOK'
  BY <1>4, OthersStay DEF Shape
<1>. QED
  BY <1>3, <1>4, <1>5, <1>6, <1>7 DEF Shape

LEMMA ReceiptEnds ==
  ASSUME ReceiptOK, SameThreads, NEW a \in Accounts, receipt' = [receipt EXCEPT ![a] = NoReceipt]
  PROVE  ReceiptOK' /\ receipt'[a] = NoReceipt /\ \A b \in Accounts \ {a} : receipt'[b] = receipt[b]
<1>1. NoReceipt \in Receipt
  BY DEF NoReceipt, Receipt
<1>2. /\ receipt' \in [Accounts -> Receipt] /\ receipt'[a] = NoReceipt
      /\ \A b \in Accounts \ {a} : receipt'[b] = receipt[b]
  BY <1>1 DEF ReceiptOK
<1>. QED
  BY <1>2 DEF ReceiptOK, SameThreads, Receipt, Statuses

LEMMA ReceiptUpdateShape ==
  ASSUME Shape, NEW a \in Accounts, ReceiptUpdate(a)
  PROVE  /\ Shape' /\ SameThreads /\ DOMAIN replies' = DOMAIN replies
         /\ receipt[a] # NoReceipt /\ receipt'[a] = NoReceipt
         /\ \A b \in Accounts \ {a} : receipt'[b] = receipt[b]
         /\ \A r \in DOMAIN replies : replies'[r].wa = replies[r].wa
         /\ \A r \in DOMAIN replies \ {receipt[a].row} : replies'[r] = replies[r]
         /\ \/ replies'[receipt[a].row] = replies[receipt[a].row]
            \/ Moves(receipt[a]) /\ replies'[receipt[a].row].status = receipt[a].status
<1>. PICK c \in DOMAIN replies : c = receipt[a].row
  BY DEF ReceiptUpdate, Shape, ReceiptOK
<1>1. replies[c] \in Reply /\ receipt[a].status \in Statuses
  BY Domains DEF Shape, ReceiptOK, ReceiptUpdate, Statuses
<1>. DEFINE row == [replies[c] EXCEPT !.status = receipt[a].status]
<1>2. row \in Reply /\ row.thread = replies[c].thread /\ row.after = replies[c].after /\ row.status = receipt[a].status /\ row.wa = replies[c].wa
  BY <1>1 DEF Reply
<1>3. replies' = replies \/ (Moves(receipt[a]) /\ replies' = [replies EXCEPT ![c] = row])
  BY DEF ReceiptUpdate
<1>. HIDE DEF row
<1>4. /\ RowsOK' /\ DOMAIN replies' = DOMAIN replies /\ SameThreads
      /\ \A r \in DOMAIN replies \ {c} : replies'[r] = replies[r]
      /\ replies'[c] = replies[c] \/ (Moves(receipt[a]) /\ replies'[c] = row)
  <2>1. CASE UNCHANGED replies
    BY <2>1, NoThreadMoves, OthersStay DEF ReceiptUpdate, world, Shape
  <2>2. CASE Moves(receipt[a]) /\ replies' = [replies EXCEPT ![c] = row]
    BY <1>2, <2>2, RowWritten DEF ReceiptUpdate, world, Shape
  <2>. QED
    BY <1>3, <2>1, <2>2
<1>5. ReceiptOK' /\ receipt'[a] = NoReceipt /\ \A b \in Accounts \ {a} : receipt'[b] = receipt[b]
  BY <1>4, ReceiptEnds DEF ReceiptUpdate, Shape
<1>6. DrainOK'
  BY <1>4, DrainersStay DEF ReceiptUpdate, Shape
<1>7. InboundOK' /\ SessionOK' /\ MishapsOK'
  BY OthersStay DEF ReceiptUpdate, Shape
<1>8. receipt[a] # NoReceipt
  BY DEF ReceiptUpdate
<1>. QED
  BY <1>2, <1>4, <1>5, <1>6, <1>7, <1>8 DEF Shape

LEMMA ReceiptErrorShape ==
  ASSUME Shape, NEW a \in Accounts, ReceiptError(a)
  PROVE  /\ Shape' /\ receipt'[a] = NoReceipt /\ \A b \in Accounts \ {a} : receipt'[b] = receipt[b]
<1>1. ReceiptOK' /\ receipt'[a] = NoReceipt /\ \A b \in Accounts \ {a} : receipt'[b] = receipt[b]
  BY ReceiptEnds, NoThreadMoves DEF ReceiptError, Shape
<1>2. DrainOK'
  BY NoThreadMoves, DrainersStay DEF ReceiptError, Shape
<1>3. RowsOK' /\ InboundOK' /\ SessionOK' /\ MishapsOK'
  BY OthersStay, MishapCounted DEF ReceiptError, world, Shape
<1>. QED
  BY <1>1, <1>2, <1>3 DEF Shape

LEMMA DropSessionShape ==
  ASSUME Shape, NEW a \in Accounts, DropSession(a)
  PROVE  /\ Shape' /\ Generations # 1
         /\ \A d \in Drainers : drain'[d] \in {drain[d], IdleDrain}
<1>. PICK g \in 1..Generations : g = session[a]
  BY DEF Shape, SessionOK
<1>1. g \in Nat /\ g + 1 \in 1..Generations /\ Generations # 1
  BY ParametersAssumption DEF DropSession
<1>2. SessionOK'
  BY <1>1 DEF DropSession, Shape, SessionOK
<1>. DEFINE d == <<a, g + 1>>
<1>3. d \in Drainers
  BY <1>1 DEF Drainers
<1>. HIDE DEF d
<1>4. DrainOK' /\ drain'[d] = IdleDrain /\ \A o \in Drainers \ {d} : drain'[o] = drain[o]
  <2>1. drain' = [drain EXCEPT ![d] = IdleDrain] /\ UNCHANGED replies
    BY DEF DropSession, d
  <2>. QED
    BY <1>3, <2>1, Idle, DrainerMoves, NoThreadMoves DEF Shape
<1>5. ReceiptOK'
  BY NoThreadMoves, ReceiptsStay DEF DropSession, Shape
<1>6. RowsOK' /\ InboundOK' /\ MishapsOK'
  BY OthersStay DEF DropSession, world, Shape
<1>. QED
  BY <1>1, <1>2, <1>4, <1>5, <1>6 DEF Shape

LEMMA CrashShape ==
  ASSUME Shape, Crash
  PROVE  /\ Shape' /\ \A d \in Drainers : drain'[d] \in {IdleDrain, NoDrainer}
         /\ \A a \in Accounts : receipt'[a] = NoReceipt
         /\ DOMAIN lost' = DOMAIN lost
         /\ \A r \in DOMAIN lost :
              lost'[r] = IF \E d \in Drainers : drain[d].at \in {"accepted", "refused"} /\ Current(d) = r
                         THEN copies[r] ELSE lost[r]
<1>1. /\ drain' = [d \in Drainers |-> IF Running(d) THEN IdleDrain ELSE NoDrainer]
      /\ receipt' = [a \in Accounts |-> NoReceipt]
      /\ lost' = [r \in DOMAIN lost |->
                    IF \E d \in Drainers : drain[d].at \in {"accepted", "refused"} /\ Current(d) = r
                    THEN copies[r] ELSE lost[r]]
      /\ UNCHANGED <<replies, inbound, session, copies>>
  BY DEF Crash, world
<1>2. DrainOK' /\ \A d \in Drainers : drain'[d] \in {IdleDrain, NoDrainer}
  <2>1. drain' \in [Drainers -> Drainer] /\ \A d \in Drainers : drain'[d] \in {IdleDrain, NoDrainer}
    BY <1>1 DEF Drainer, Places, IdleDrain, NoDrainer
  <2>. QED
    BY <2>1 DEF DrainOK, Drainer, IdleDrain, NoDrainer
<1>3. ReceiptOK'
  BY <1>1 DEF ReceiptOK, Receipt, NoReceipt
<1>4. RowsOK'
  <2>1. \A r \in DOMAIN lost : lost[r] \in Nat /\ copies[r] \in Nat
    BY Domains DEF Shape
  <2>2. lost' \in [1..Len(lost) -> Nat] /\ Len(lost) \in Nat
    BY <1>1, <2>1, Elements DEF Shape, RowsOK
  <2>3. lost' \in Seq(Nat) /\ Len(lost') = Len(lost)
    BY <2>2
  <2>. QED
    BY <1>1, <2>3 DEF Shape, RowsOK, Reply, Statuses
<1>5. InboundOK' /\ SessionOK' /\ MishapsOK'
  BY <1>1, OthersStay, MishapCounted DEF Crash, Shape
<1>. QED
  BY <1>1, <1>2, <1>3, <1>4, <1>5 DEF Shape

LEMMA ShapeStays == Shape /\ [Next]_vars => Shape'
<1>. SUFFICES ASSUME Shape, [Next]_vars PROVE Shape'
  OBVIOUS
<1>1. ASSUME NEW t \in Threads, Queue(t) \/ CustomerWrites(t) PROVE Shape'
  BY <1>1, QueueShape, CustomerWritesShape
<1>2. ASSUME NEW d \in Drainers, Drain(d) \/ MarkError(d) PROVE Shape'
  <2>1. StartDrain(d) \/ CancelDrain(d) \/ Send(d) \/ MarkError(d) => Shape'
    BY StartDrainShape, CancelDrainShape, SendShape, MarkErrorShape
  <2>2. Settle(d) => Shape'
    BY MarkSentShape, MarkFailedShape DEF Settle
  <2>3. Acknowledge(d) => Shape'
    BY AckReadShape, AckTellShape, AckEndsShape DEF Acknowledge
  <2>. QED
    BY <1>2, <2>1, <2>2, <2>3 DEF Drain
<1>3. ASSUME NEW a \in Accounts, Receive(a) \/ DropSession(a) PROVE Shape'
  BY <1>3, ReceiptReadShape, ReceiptUpdateShape, ReceiptErrorShape, DropSessionShape DEF Receive
<1>4. CASE Crash
  BY <1>4, CrashShape
<1>5. CASE UNCHANGED vars
  BY <1>5, NoThreadMoves, DrainersStay, ReceiptsStay, OthersStay DEF vars, Shape
<1>6. ASSUME NEW r \in DOMAIN replies, EndQueue(r) PROVE Shape'
  BY <1>6, EndQueueShape
<1>. QED
  BY <1>1, <1>2, <1>3, <1>4, <1>5, <1>6 DEF Next

(* Every variable keeps its type: in particular a drainer works on rows    *)
(* that are there, in threads of its own number.                           *)
THEOREM TypeCorrect == Spec => []TypeOK
<1>. QED
  BY InitShape, ShapeStays, ShapeIsType, PTL DEF Spec

-----------------------------------------------------------------------------
(* The order of a thread, whatever sessions and drainers overlap.          *)

\* What a reply comes after was in its thread and committed before it.
Afters ==
  \A s \in DOMAIN replies : \A r \in replies[s].after :
     r \in DOMAIN replies /\ r < s /\ replies[r].thread = replies[s].thread /\ Committed(r)

\* A drainer that has a reply in its batch has those it comes after too, or
\* they are out.
Order ==
  \A d \in Drainers : \A s \in drain[d].batch : \A r \in replies[s].after :
     r \in drain[d].batch \/ Sent(r)

\* Nobody claims what is not committed, and no copy of it is out.
Visible ==
  /\ \A d \in Drainers : \A r \in drain[d].batch : Committed(r)
  /\ \A r \in DOMAIN replies : copies[r] > 0 => Committed(r)
\* What was accepted has a copy.
Reached ==
  \A d \in Drainers : drain[d].at \in {"accepted", "sent", "acking", "acked"} => copies[Current(d)] > 0
\* A tick comes with the id of a copy.
Stamped ==
  /\ \A r \in DOMAIN replies : /\ replies[r].wa <= copies[r]
                               /\ Rank(replies[r].status) >= 1 => replies[r].wa >= 1
  /\ \A a \in Accounts : receipt[a] # NoReceipt => replies[receipt[a].row].wa >= 1
OrderInv == Afters /\ Order /\ Visible /\ Reached /\ Stamped /\ InOrder

\* A committed row stays one and does not go back to the queue, no copy is
\* taken back, and new rows come after all others.
Forward ==
  /\ SameThreads
  /\ \A r \in DOMAIN replies :
       /\ copies'[r] >= copies[r]
       /\ Committed(r) => Committed(r)' /\ (replies'[r].status = "queued" => replies[r].status = "queued")
  /\ \A r \in DOMAIN replies' \ DOMAIN replies :
       /\ copies'[r] = 0
       /\ \A q \in replies'[r].after :
            q \in DOMAIN replies /\ q < r /\ replies[q].thread = replies'[r].thread /\ Committed(q)

LEMMA Ranks ==
  /\ \A x \in Statuses : x \notin {"writing", "undone", "queued", "failed"} => Rank(x) >= 1
  /\ Rank("writing") = 0 /\ Rank("undone") = 0 /\ Rank("queued") = 0 /\ Rank("failed") = 0 /\ Rank("sent") = 1 /\ Rank("none") = 0
  /\ \A x \in Statuses : Rank(x) \in Nat
BY DEF Rank, Statuses

LEMMA SentStays ==
  ASSUME Shape, Shape', Forward, Stamped', NEW r \in DOMAIN replies, Sent(r)
  PROVE  Sent(r)'
<1>1. r \in DOMAIN replies' /\ copies[r] \in Nat /\ copies'[r] \in Nat /\ copies'[r] >= copies[r]
  BY Domains, DomainsThen DEF Shape, Forward, SameThreads
<1>2. CASE copies[r] > 0
  BY <1>1, <1>2 DEF Sent
<1>3. CASE replies[r].status = "failed"
  <2>1. replies'[r].status \notin {"queued", "writing", "undone"} /\ replies'[r] \in Reply
    BY <1>1, <1>3, DomainsThen DEF Forward, Committed, Shape
  <2>2. replies'[r].status = "failed" \/ Rank(replies'[r].status) >= 1
    BY <2>1, Ranks DEF Reply
  <2>3. replies'[r].wa <= copies'[r] /\ (Rank(replies'[r].status) >= 1 => replies'[r].wa >= 1)
    BY <1>1 DEF Stamped
  <2>4. replies'[r].wa \in Nat
    BY <2>1 DEF Reply
  <2>. QED
    BY <1>1, <2>2, <2>3, <2>4 DEF Sent
<1>. QED
  BY <1>2, <1>3 DEF Sent

\* Batches shrink by what is done.
LEMMA OrderStays ==
  ASSUME Shape, Shape', Forward, Stamped', Afters, Order, Visible,
         \A d \in Drainers : drain'[d].batch # {} =>
            /\ drain'[d].batch \subseteq drain[d].batch
            /\ \A q \in drain[d].batch \ drain'[d].batch : Sent(q)'
  PROVE  Order' /\ \A d \in Drainers : \A r \in drain'[d].batch : Committed(r)'
<1>1. ASSUME NEW d \in Drainers, NEW s \in drain'[d].batch
      PROVE  s \in drain[d].batch /\ s \in DOMAIN replies /\ Committed(s)'
  BY <1>1 DEF Shape, DrainOK, Visible, Forward
<1>2. SUFFICES ASSUME NEW d \in Drainers, NEW s \in drain'[d].batch, NEW r \in replies'[s].after
               PROVE  r \in drain'[d].batch \/ Sent(r)'
  BY <1>1 DEF Order
<1>3. r \in replies[s].after /\ r \in DOMAIN replies
  BY <1>1, <1>2 DEF Forward, SameThreads, Afters
<1>4. r \in drain[d].batch \/ Sent(r)
  BY <1>1, <1>3 DEF Order
<1>. QED
  BY <1>1, <1>3, <1>4, SentStays

\* Nothing is sent for the first time.
LEMMA InOrderStays ==
  ASSUME Shape, Shape', Forward, Stamped', Afters, InOrder,
         \A s \in DOMAIN replies : copies'[s] > 0 => copies[s] > 0
  PROVE  InOrder'
<1>1. SUFFICES ASSUME NEW s \in DOMAIN replies', copies'[s] > 0, NEW r \in replies'[s].after
               PROVE  Sent(r)'
  BY DEF InOrder
<1>2. s \in DOMAIN replies
  BY <1>1 DEF Forward
<1>3. r \in replies[s].after /\ r \in DOMAIN replies
  BY <1>1, <1>2 DEF Forward, SameThreads, Afters
<1>4. Sent(r)
  BY <1>1, <1>2, <1>3 DEF InOrder
<1>. QED
  BY <1>3, <1>4, SentStays

\* The rows keep what they come after, and copies are of committed rows.
LEMMA AftersStay ==
  ASSUME Shape, Shape', Forward, Afters, Visible,
         \A s \in DOMAIN replies : copies'[s] > 0 => copies[s] > 0
  PROVE  Afters' /\ \A r \in DOMAIN replies' : copies'[r] > 0 => Committed(r)'
<1>1. ASSUME NEW s \in DOMAIN replies', NEW r \in replies'[s].after
      PROVE  /\ r \in DOMAIN replies' /\ r < s /\ replies'[r].thread = replies'[s].thread
             /\ Committed(r)'
  <2>1. CASE s \in DOMAIN replies
    BY <1>1, <2>1 DEF Forward, SameThreads, Afters
  <2>2. CASE s \notin DOMAIN replies
    BY <1>1, <2>2 DEF Forward, SameThreads
  <2>. QED
    BY <2>1, <2>2
<1>2. ASSUME NEW r \in DOMAIN replies', copies'[r] > 0 PROVE Committed(r)'
  BY <1>2 DEF Forward, Visible
<1>. QED
  BY <1>1, <1>2 DEF Afters

LEMMA CurrentStays ==
  ASSUME NEW d \in Drainers, drain'[d].batch = drain[d].batch
  PROVE  Current(d)' = Current(d)
BY DEF Current

\* Drainers that had a copy accepted keep their place, or go on.
LEMMA ReachedStays ==
  ASSUME Shape, Shape', Forward, Reached,
         \A d \in Drainers : drain'[d].at \in {"accepted", "sent", "acking", "acked"} =>
            drain'[d].batch = drain[d].batch /\ drain[d].at \in {"accepted", "sent", "acking", "acked"}
  PROVE  Reached'
<1>1. SUFFICES ASSUME NEW d \in Drainers, drain'[d].at \in {"accepted", "sent", "acking", "acked"}
               PROVE  copies'[Current(d)'] > 0
  BY DEF Reached
<1>2. Current(d)' = Current(d) /\ copies[Current(d)] > 0
  BY <1>1, CurrentStays DEF Reached
<1>3. Current(d) \in DOMAIN replies
  BY <1>1, AtHand DEF Shape
<1>4. PICK c \in DOMAIN replies : c = Current(d)
  BY <1>3
<1>5. /\ copies[c] \in Nat /\ copies'[c] >= copies[c] /\ copies'[c] \in Nat /\ copies[c] > 0
      /\ Current(d)' = c
  BY <1>2, <1>4, Domains, DomainsThen DEF Shape, Forward, SameThreads
<1>6. copies'[c] > 0
  BY <1>5
<1>. QED
  BY <1>5, <1>6

LEMMA RowsRest ==
  ASSUME Shape, UNCHANGED <<replies, copies>>
  PROVE  /\ Forward /\ \A r : Sent(r)' = Sent(r)
         /\ Stamped /\ (\A a \in Accounts : receipt'[a] \in {receipt[a], NoReceipt}) => Stamped'
<1>1. Forward
  BY Domains DEF Shape, Forward, SameThreads, Committed
<1>2. \A r : Sent(r)' = Sent(r)
  BY DEF Sent
<1>. QED
  BY <1>1, <1>2 DEF Stamped

\* Steps that write no row: batches stay, end, or shrink by what is done.
LEMMA RestingOrder ==
  ASSUME Shape, Shape', OrderInv, UNCHANGED <<replies, copies>>, Stamped',
         \A d \in Drainers :
            \/ drain'[d].batch = {} /\ drain'[d].at \in {"none", "idle"}
            \/ drain'[d] = drain[d]
            \/ /\ drain'[d].batch = drain[d].batch
               /\ drain'[d].at \in {"accepted", "sent", "acking", "acked"}
                  => drain[d].at \in {"accepted", "sent", "acking", "acked"}
            \/ /\ drain'[d].at \in {"idle", "next"} /\ Sent(Current(d))
               /\ drain'[d].batch = drain[d].batch \ {Current(d)}
  PROVE  OrderInv'
<1>1. Forward /\ \A r : Sent(r)' = Sent(r)
  BY RowsRest
<1>2. \A d \in Drainers : drain'[d].batch # {} =>
        /\ drain'[d].batch \subseteq drain[d].batch
        /\ \A q \in drain[d].batch \ drain'[d].batch : Sent(q)'
  BY <1>1
<1>3. Order' /\ Visible' /\ Afters'
  BY <1>1, <1>2, OrderStays, AftersStay DEF OrderInv, Visible
<1>4. \A d \in Drainers : drain'[d].at \in {"accepted", "sent", "acking", "acked"} =>
        drain'[d].batch = drain[d].batch /\ drain[d].at \in {"accepted", "sent", "acking", "acked"}
  OBVIOUS
<1>5. Reached'
  BY <1>1, <1>4, ReachedStays DEF OrderInv
<1>6. InOrder'
  BY <1>1, InOrderStays DEF OrderInv
<1>. QED
  BY <1>3, <1>5, <1>6 DEF OrderInv

LEMMA QueueOrder ==
  ASSUME Shape, OrderInv, NEW t \in Threads, Queue(t)
  PROVE  OrderInv'
<1>1. PICK n \in Nat, row \in Reply :
        /\ row.status = "writing" /\ row.wa = 0
        /\ row.after = {r \in DOMAIN replies : replies[r].thread = row.thread /\ Committed(r)}
        /\ DOMAIN replies = 1..n /\ DOMAIN replies' = 1..(n + 1)
        /\ replies'[n + 1] = row /\ \A r \in DOMAIN replies : replies'[r] = replies[r]
        /\ copies'[n + 1] = 0 /\ \A r \in DOMAIN replies : copies'[r] = copies[r]
  BY QueueAppends
<1>2. UNCHANGED <<drain, receipt>>
  BY DEF Queue
<1>3. Shape'
  BY QueueShape
<1>4. Forward
  <2>1. \A r \in DOMAIN replies : copies[r] \in Nat
    BY Domains DEF Shape
  <2>. QED
    BY <1>1, <2>1 DEF Forward, SameThreads, Committed
<1>5. Stamped'
  <2>1. ASSUME NEW r \in DOMAIN replies'
        PROVE  replies'[r].wa <= copies'[r] /\ (Rank(replies'[r].status) >= 1 => replies'[r].wa >= 1)
    <3>1. CASE r = n + 1
      BY <1>1, <3>1, Ranks
    <3>2. CASE r # n + 1
      <4>1. r \in DOMAIN replies
        BY <1>1, <3>2
      <4>. QED
        BY <1>1, <4>1 DEF OrderInv, Stamped
    <3>. QED
      BY <3>1, <3>2
  <2>2. \A a \in Accounts : receipt[a] # NoReceipt => receipt[a].row \in DOMAIN replies
    BY DEF Shape, ReceiptOK
  <2>3. \A a \in Accounts : receipt'[a] # NoReceipt => replies'[receipt'[a].row].wa >= 1
    BY <1>1, <1>2, <2>2 DEF OrderInv, Stamped
  <2>. QED
    BY <2>1, <2>3 DEF Stamped
<1>6. Order' /\ Visible' /\ Afters'
  BY <1>1, <1>2, <1>3, <1>4, <1>5, OrderStays, AftersStay DEF OrderInv, Visible
<1>7. Reached'
  BY <1>2, <1>3, <1>4, ReachedStays DEF OrderInv
<1>8. InOrder'
  BY <1>1, <1>3, <1>4, <1>5, InOrderStays DEF OrderInv
<1>. QED
  BY <1>5, <1>6, <1>7, <1>8 DEF OrderInv

LEMMA EndQueueOrder ==
  ASSUME Shape, OrderInv, NEW c \in DOMAIN replies, EndQueue(c)
  PROVE  OrderInv'
<1>1. /\ Shape' /\ SameThreads /\ DOMAIN replies' = DOMAIN replies
      /\ replies[c].status = "writing" /\ replies'[c].status \in {"queued", "undone"}
      /\ replies'[c].wa = replies[c].wa
      /\ \A r \in DOMAIN replies \ {c} : replies'[r] = replies[r]
  BY EndQueueShape
<1>2. UNCHANGED <<copies, drain, receipt>>
  BY DEF EndQueue, world
<1>3. \A r \in DOMAIN replies : copies[r] \in Nat
  BY Domains DEF Shape
<1>4. Forward
  BY <1>1, <1>2, <1>3 DEF Forward, Committed
<1>5. Stamped'
  <2>1. \A r \in DOMAIN replies : /\ replies'[r].wa <= copies[r]
                                  /\ Rank(replies'[r].status) >= 1 => replies'[r].wa >= 1
    BY <1>1, Ranks DEF OrderInv, Stamped
  <2>2. \A a \in Accounts : receipt[a] # NoReceipt => replies'[receipt[a].row].wa >= 1
    BY <1>1 DEF OrderInv, Stamped, Shape, ReceiptOK
  <2>. QED
    BY <1>1, <1>2, <2>1, <2>2 DEF Stamped
<1>6. Order' /\ Visible' /\ Afters'
  BY <1>1, <1>2, <1>4, <1>5, OrderStays, AftersStay DEF OrderInv, Visible
<1>7. Reached' /\ InOrder'
  BY <1>1, <1>2, <1>4, <1>5, ReachedStays, InOrderStays DEF OrderInv
<1>. QED
  BY <1>5, <1>6, <1>7 DEF OrderInv

LEMMA StartDrainOrder ==
  ASSUME Shape, OrderInv, NEW d \in Drainers, StartDrain(d)
  PROVE  OrderInv'
<1>1. /\ Shape' /\ drain'[d].at = "first" /\ drain'[d].batch = ClaimQueued(d[1])
      /\ \A o \in Drainers \ {d} : drain'[o] = drain[o]
  BY StartDrainShape
<1>2. UNCHANGED <<replies, copies, receipt>> /\ d[1] \in Accounts
  BY DEF StartDrain, world, Drainers
<1>3. Forward /\ (\A r : Sent(r)' = Sent(r)) /\ Stamped'
  BY <1>2, RowsRest DEF OrderInv
<1>4. ASSUME NEW s \in ClaimQueued(d[1]), NEW r \in replies[s].after
      PROVE  r \in ClaimQueued(d[1]) \/ Sent(r)
  <2>0. /\ s \in DOMAIN replies /\ r \in DOMAIN replies /\ r < s /\ Committed(r)
        /\ replies[r].thread = replies[s].thread
    BY <1>2, <1>4, Claimed DEF Shape, OrderInv, Afters
  <2>1. AccountOf[replies[r].thread] = d[1] /\ (replies[r].status = "queued" => r \in ClaimQueued(d[1]))
    BY <1>2, <1>4, <2>0, Claimed DEF Shape
  <2>2. CASE replies[r].status = "queued"
    BY <2>1, <2>2
  <2>3. CASE replies[r].status = "failed"
    BY <2>3 DEF Sent
  <2>4. CASE replies[r].status \notin {"queued", "failed"}
    <3>1. replies[r] \in Reply /\ copies[r] \in Nat
      BY <2>0, Domains DEF Shape
    <3>2. Rank(replies[r].status) >= 1
      BY <2>0, <2>4, <3>1, Ranks DEF Reply, Committed
    <3>3. replies[r].wa >= 1 /\ replies[r].wa <= copies[r] /\ replies[r].wa \in Nat
      BY <2>0, <3>1, <3>2 DEF OrderInv, Stamped, Reply
    <3>. QED
      BY <3>1, <3>3 DEF Sent
  <2>. QED
    BY <2>2, <2>3, <2>4
<1>5. Order' /\ Visible' /\ Afters'
  <2>1. ASSUME NEW o \in Drainers, NEW s \in drain'[o].batch
        PROVE  Committed(s) /\ \A r \in replies[s].after : r \in drain'[o].batch \/ Sent(r)
    <3>1. CASE o = d
      BY <1>1, <1>2, <1>4, <2>1, <3>1, Claimed DEF Committed, Shape
    <3>2. CASE o # d
      BY <1>1, <2>1, <3>2 DEF OrderInv, Order, Visible
    <3>. QED
      BY <3>1, <3>2
  <2>2. Order'
    BY <1>2, <1>3, <2>1 DEF Order
  <2>. QED
    BY <1>1, <1>2, <1>3, <2>1, <2>2, AftersStay DEF OrderInv, Visible, Committed
<1>6. Reached'
  BY <1>1, <1>3, ReachedStays DEF OrderInv
<1>7. InOrder'
  BY <1>1, <1>2, <1>3, InOrderStays DEF OrderInv
<1>. QED
  BY <1>3, <1>5, <1>6, <1>7 DEF OrderInv

\* The only step that brings a reply to a customer: the older ones of the
\* batch are gone from it.
LEMMA SendOrder ==
  ASSUME Shape, OrderInv, NEW d \in Drainers, Send(d)
  PROVE  OrderInv'
<1>. PICK c \in DOMAIN replies : c = Current(d) /\ c \in drain[d].batch /\ \A r \in drain[d].batch : c <= r
  BY AtHand DEF Shape, Send, Accept, Refuse
<1>1. /\ Shape' /\ drain'[d].batch = drain[d].batch /\ drain'[d].at \in {"accepted", "refused"}
      /\ \A o \in Drainers \ {d} : drain'[o] = drain[o]
      /\ \A r \in DOMAIN copies \ {c} : copies'[r] = copies[r]
      /\ copies'[c] = copies[c] + 1 \/ (copies'[c] = copies[c] /\ drain'[d].at = "refused")
  BY SendShape
<1>2. UNCHANGED <<replies, receipt>>
  BY DEF Send, Accept, Refuse
<1>3. /\ DOMAIN copies = DOMAIN replies /\ \A r \in DOMAIN replies : copies[r] \in Nat /\ r \in Nat
  BY Domains DEF Shape
<1>4. Forward
  BY <1>1, <1>2, <1>3 DEF Forward, SameThreads, Committed
<1>5. Stamped'
  <2>1. ASSUME NEW r \in DOMAIN replies PROVE replies[r].wa <= copies'[r]
    <3>1. replies[r].wa <= copies[r] /\ copies'[r] \in Nat /\ copies'[r] >= copies[r] /\ replies[r].wa \in Nat
      BY <1>1, <1>2, <1>3, Domains DEF OrderInv, Stamped, Forward, Reply, Shape
    <3>. QED
      BY <1>3, <3>1
  <2>. QED
    BY <1>2, <2>1 DEF OrderInv, Stamped
<1>6. Order' /\ Visible' /\ Afters'
  <2>1. \A o \in Drainers : drain'[o].batch = drain[o].batch
    BY <1>1
  <2>2. Order' /\ \A o \in Drainers : \A r \in drain'[o].batch : Committed(r)'
    BY <1>1, <1>4, <1>5, <2>1, OrderStays DEF OrderInv
  <2>3. Committed(c)
    BY DEF OrderInv, Visible
  <2>4. \A r \in DOMAIN replies : copies'[r] > 0 => Committed(r)
    BY <1>1, <1>3, <2>3 DEF OrderInv, Visible
  <2>. QED
    BY <1>2, <2>2, <2>4 DEF OrderInv, Visible, Afters, Committed
<1>7. Reached'
  <2>1. ASSUME NEW o \in Drainers, drain'[o].at \in {"accepted", "sent", "acking", "acked"}
        PROVE  copies'[Current(o)'] > 0
    <3>1. Current(o)' = Current(o)
      BY <1>1, CurrentStays
    <3>2. CASE o = d
      BY <1>1, <1>3, <2>1, <3>1, <3>2
    <3>3. CASE o # d
      <4>1. drain[o].at \in {"accepted", "sent", "acking", "acked"}
        BY <1>1, <2>1, <3>3
      <4>2. copies[Current(o)] > 0 /\ Current(o) \in DOMAIN replies
        BY <4>1, AtHand DEF OrderInv, Reached, Shape
      <4>3. PICK q \in DOMAIN replies : q = Current(o)
        BY <4>2
      <4>4. copies'[q] > 0
        BY <1>1, <1>3, <4>2, <4>3
      <4>. QED
        BY <3>1, <4>3, <4>4
    <3>. QED
      BY <3>2, <3>3
  <2>. QED
    BY <2>1 DEF Reached
<1>8. InOrder'
  <2>1. SUFFICES ASSUME NEW s \in DOMAIN replies, copies'[s] > 0, NEW r \in replies[s].after
                 PROVE  Sent(r)'
    BY <1>2 DEF InOrder
  <2>2. r \in DOMAIN replies /\ r < s
    BY <2>1 DEF OrderInv, Afters
  <2>3. Sent(r)
    <3>1. CASE s = c
      <4>1. r \notin drain[d].batch
        BY <1>3, <2>2, <3>1
      <4>. QED
        BY <2>1, <3>1, <4>1 DEF OrderInv, Order
    <3>2. CASE s # c
      BY <1>1, <1>3, <2>1, <3>2 DEF OrderInv, InOrder
    <3>. QED
      BY <3>1, <3>2
  <2>. QED
    BY <1>1, <1>4, <1>5, <2>2, <2>3, SentStays
<1>. QED
  BY <1>5, <1>6, <1>7, <1>8 DEF OrderInv

LEMMA MarkSentOrder ==
  ASSUME Shape, OrderInv, NEW d \in Drainers, MarkSent(d)
  PROVE  OrderInv'
<1>. PICK c \in DOMAIN replies : c = Current(d) /\ drain[d].at = "accepted"
  BY AtHand DEF Shape, MarkSent
<1>1. /\ Shape' /\ SameThreads /\ DOMAIN replies' = DOMAIN replies
      /\ replies'[c].status = "sent" /\ replies'[c].wa = copies[c]
      /\ \A r \in DOMAIN replies \ {c} : replies'[r] = replies[r]
      /\ drain'[d].at = "sent" /\ drain'[d].batch = drain[d].batch
      /\ \A o \in Drainers \ {d} : drain'[o] = drain[o]
  BY MarkSentShape
<1>2. UNCHANGED <<copies, receipt>>
  BY DEF MarkSent, world
<1>3. \A r \in DOMAIN replies : copies[r] \in Nat
  BY Domains DEF Shape
<1>4. Forward
  BY <1>1, <1>2, <1>3 DEF Forward, Committed
<1>5. copies[c] >= 1
  BY <1>3 DEF OrderInv, Reached
<1>6. Stamped'
  <2>1. \A r \in DOMAIN replies : /\ replies'[r].wa <= copies[r]
                                  /\ Rank(replies'[r].status) >= 1 => replies'[r].wa >= 1
    BY <1>1, <1>3, <1>5 DEF OrderInv, Stamped
  <2>2. \A a \in Accounts : receipt[a] # NoReceipt => replies'[receipt[a].row].wa >= 1
    BY <1>1, <1>5 DEF OrderInv, Stamped, Shape, ReceiptOK
  <2>. QED
    BY <1>1, <1>2, <2>1, <2>2 DEF Stamped
<1>7. Order' /\ Visible' /\ Afters'
  BY <1>1, <1>2, <1>4, <1>6, OrderStays, AftersStay DEF OrderInv, Visible
<1>8. Reached' /\ InOrder'
  BY <1>1, <1>2, <1>4, <1>6, ReachedStays, InOrderStays DEF OrderInv
<1>. QED
  BY <1>6, <1>7, <1>8 DEF OrderInv

LEMMA MarkFailedOrder ==
  ASSUME Shape, OrderInv, NEW d \in Drainers, MarkFailed(d)
  PROVE  OrderInv'
<1>. PICK c \in DOMAIN replies : c = Current(d) /\ drain[d].at = "refused"
  BY AtHand DEF Shape, MarkFailed
<1>1. /\ Shape' /\ SameThreads /\ DOMAIN replies' = DOMAIN replies
      /\ replies'[c].status = "failed" /\ replies'[c].wa = replies[c].wa
      /\ \A r \in DOMAIN replies \ {c} : replies'[r] = replies[r]
      /\ drain'[d].at \in {"idle", "next"} /\ drain'[d].batch = drain[d].batch \ {c}
      /\ \A o \in Drainers \ {d} : drain'[o] = drain[o]
  BY MarkFailedShape
<1>2. UNCHANGED <<copies, receipt>>
  BY DEF MarkFailed, world
<1>3. \A r \in DOMAIN replies : copies[r] \in Nat
  BY Domains DEF Shape
<1>4. Forward
  BY <1>1, <1>2, <1>3 DEF Forward, Committed
<1>5. Stamped'
  <2>1. \A r \in DOMAIN replies : /\ replies'[r].wa <= copies[r]
                                  /\ Rank(replies'[r].status) >= 1 => replies'[r].wa >= 1
    BY <1>1, Ranks DEF OrderInv, Stamped
  <2>2. \A a \in Accounts : receipt[a] # NoReceipt => replies'[receipt[a].row].wa >= 1
    BY <1>1 DEF OrderInv, Stamped, Shape, ReceiptOK
  <2>. QED
    BY <1>1, <1>2, <2>1, <2>2 DEF Stamped
<1>6. Sent(c)'
  BY <1>1 DEF Sent
<1>7. Order' /\ Visible' /\ Afters'
  <2>1. \A o \in Drainers : drain'[o].batch # {} =>
          /\ drain'[o].batch \subseteq drain[o].batch
          /\ \A q \in drain[o].batch \ drain'[o].batch : Sent(q)'
    BY <1>1, <1>6
  <2>. QED
    BY <1>1, <1>2, <1>4, <1>5, <2>1, OrderStays, AftersStay DEF OrderInv, Visible
<1>8. Reached' /\ InOrder'
  BY <1>1, <1>2, <1>4, <1>5, ReachedStays, InOrderStays DEF OrderInv
<1>. QED
  BY <1>5, <1>7, <1>8 DEF OrderInv

LEMMA ReceiptUpdateOrder ==
  ASSUME Shape, OrderInv, NEW a \in Accounts, ReceiptUpdate(a)
  PROVE  OrderInv'
<1>. PICK c \in DOMAIN replies : c = receipt[a].row /\ receipt[a] # NoReceipt
  BY DEF ReceiptUpdate, Shape, ReceiptOK
<1>1. /\ Shape' /\ SameThreads /\ DOMAIN replies' = DOMAIN replies
      /\ receipt'[a] = NoReceipt /\ \A b \in Accounts \ {a} : receipt'[b] = receipt[b]
      /\ \A r \in DOMAIN replies : replies'[r].wa = replies[r].wa
      /\ \A r \in DOMAIN replies \ {c} : replies'[r] = replies[r]
      /\ replies'[c] = replies[c] \/ replies'[c].status = receipt[a].status
  BY ReceiptUpdateShape
<1>2. UNCHANGED <<copies, drain>> /\ receipt[a].status \in {"delivered", "read"}
  BY DEF ReceiptUpdate, world, Shape, ReceiptOK
<1>3. \A r \in DOMAIN replies : copies[r] \in Nat
  BY Domains DEF Shape
<1>4. Forward
  BY <1>1, <1>2, <1>3 DEF Forward, Committed
<1>5. Stamped'
  <2>1. \A r \in DOMAIN replies : /\ replies'[r].wa <= copies[r]
                                  /\ Rank(replies'[r].status) >= 1 => replies'[r].wa >= 1
    BY <1>1 DEF OrderInv, Stamped
  <2>2. \A b \in Accounts : receipt'[b] # NoReceipt => replies'[receipt'[b].row].wa >= 1
    BY <1>1 DEF OrderInv, Stamped, Shape, ReceiptOK
  <2>. QED
    BY <1>1, <1>2, <2>1, <2>2 DEF Stamped
<1>6. Order' /\ Visible' /\ Afters'
  BY <1>1, <1>2, <1>4, <1>5, OrderStays, AftersStay DEF OrderInv, Visible
<1>7. Reached' /\ InOrder'
  BY <1>1, <1>2, <1>4, <1>5, ReachedStays, InOrderStays DEF OrderInv
<1>. QED
  BY <1>5, <1>6, <1>7 DEF OrderInv

LEMMA ReceiptReadOrder ==
  ASSUME Shape, OrderInv, NEW a \in Accounts, NEW r \in DOMAIN replies, NEW n \in 1..MaxReplies,
         NEW s \in {"delivered", "read"}, ReceiptRead(a, r, n, s)
  PROVE  OrderInv'
<1>s. Shape'
  BY ReceiptReadShape
<1>1. /\ UNCHANGED <<replies, drain, copies>>
      /\ \A b \in Accounts \ {a} : receipt'[b] = receipt[b]
      /\ \/ receipt'[a] = NoReceipt
         \/ /\ receipt'[a] = [status |-> s, row |-> r, seen |-> replies[r].status]
            /\ replies[r].wa = n
  BY DEF ReceiptRead, Shape, ReceiptOK
<1>2. n >= 1
  BY ParametersAssumption
<1>3. \A b \in Accounts : receipt'[b] # NoReceipt => replies[receipt'[b].row].wa >= 1
  BY <1>1, <1>2 DEF OrderInv, Stamped
<1>4. Stamped'
  BY <1>1, <1>3 DEF OrderInv, Stamped
<1>. QED
  BY <1>s, <1>1, <1>4, RestingOrder

LEMMA OrderInvStays == Shape /\ OrderInv /\ [Next]_vars => OrderInv'
<1>. SUFFICES ASSUME Shape, OrderInv, [Next]_vars PROVE OrderInv'
  OBVIOUS
<1>s. Shape'
  BY ShapeStays
<1>r. UNCHANGED <<replies, copies>> /\ (\A a \in Accounts : receipt'[a] \in {receipt[a], NoReceipt}) => Stamped'
  BY RowsRest DEF OrderInv
<1>1. ASSUME NEW t \in Threads, Queue(t) \/ CustomerWrites(t) PROVE OrderInv'
  <2>1. CustomerWrites(t) => OrderInv'
    BY <1>s, <1>r, RestingOrder DEF CustomerWrites, world
  <2>. QED
    BY <1>1, <2>1, QueueOrder
<1>2. ASSUME NEW d \in Drainers, Drain(d) \/ MarkError(d) PROVE OrderInv'
  <2>1. StartDrain(d) \/ Send(d) \/ Settle(d) => OrderInv'
    BY StartDrainOrder, SendOrder, MarkSentOrder, MarkFailedOrder DEF Settle
  <2>2. CancelDrain(d) \/ MarkError(d) => OrderInv'
    <3>1. SUFFICES ASSUME CancelDrain(d) \/ MarkError(d) PROVE OrderInv'
      OBVIOUS
    <3>2. drain'[d] = IdleDrain /\ \A o \in Drainers \ {d} : drain'[o] = drain[o]
      BY <3>1, CancelDrainShape, MarkErrorShape
    <3>3. UNCHANGED <<replies, copies, receipt>>
      BY <3>1 DEF CancelDrain, MarkError, world
    <3>. QED
      BY <1>s, <1>r, <3>2, <3>3, Idle, RestingOrder
  <2>3. AckRead(d) \/ AckTell(d) => OrderInv'
    <3>1. SUFFICES ASSUME AckRead(d) \/ AckTell(d) PROVE OrderInv'
      OBVIOUS
    <3>2. /\ drain'[d].batch = drain[d].batch /\ \A o \in Drainers \ {d} : drain'[o] = drain[o]
          /\ drain[d].at \in {"sent", "acking"}
      BY <3>1, AckReadShape, AckTellShape DEF AckRead, AckTell
    <3>3. UNCHANGED <<replies, copies, receipt>>
      BY <3>1 DEF AckRead, AckTell, world
    <3>. QED
      BY <1>s, <1>r, <3>2, <3>3, RestingOrder
  <2>4. AckRecord(d) \/ AckSkip(d) => OrderInv'
    <3>1. SUFFICES ASSUME AckRecord(d) \/ AckSkip(d) PROVE OrderInv'
      OBVIOUS
    <3>2. /\ drain'[d].at \in {"idle", "next"} /\ drain'[d].batch = drain[d].batch \ {Current(d)}
          /\ \A o \in Drainers \ {d} : drain'[o] = drain[o]
      BY <3>1, AckEndsShape
    <3>3. UNCHANGED <<replies, copies, receipt>> /\ Sent(Current(d))
      BY <3>1 DEF AckRecord, AckSkip, world, OrderInv, Reached, Sent
    <3>. QED
      BY <1>s, <1>r, <3>2, <3>3, RestingOrder
  <2>. QED
    BY <1>2, <2>1, <2>2, <2>3, <2>4 DEF Drain, Acknowledge
<1>3. ASSUME NEW a \in Accounts, Receive(a) \/ DropSession(a) PROVE OrderInv'
  <2>1. ReceiptError(a) => OrderInv'
    <3>1. SUFFICES ASSUME ReceiptError(a) PROVE OrderInv'
      OBVIOUS
    <3>2. receipt'[a] = NoReceipt /\ \A b \in Accounts \ {a} : receipt'[b] = receipt[b]
      BY <3>1, ReceiptErrorShape
    <3>3. UNCHANGED <<replies, copies, drain>>
      BY <3>1 DEF ReceiptError, world
    <3>. QED
      BY <1>s, <1>r, <3>2, <3>3, RestingOrder
  <2>2. DropSession(a) => OrderInv'
    <3>1. SUFFICES ASSUME DropSession(a) PROVE OrderInv'
      OBVIOUS
    <3>2. \A d \in Drainers : drain'[d] = drain[d] \/ drain'[d] = IdleDrain
      BY <3>1, DropSessionShape
    <3>3. UNCHANGED <<replies, copies, receipt>>
      BY <3>1 DEF DropSession, world
    <3>. QED
      BY <1>s, <1>r, <3>2, <3>3, Idle, RestingOrder
  <2>. QED
    BY <1>3, <2>1, <2>2, ReceiptReadOrder, ReceiptUpdateOrder DEF Receive
<1>4. CASE Crash
  <2>1. \A d \in Drainers : drain'[d] = IdleDrain \/ drain'[d] = NoDrainer
    BY <1>4, CrashShape
  <2>2. UNCHANGED <<replies, copies>> /\ \A a \in Accounts : receipt'[a] = NoReceipt
    BY <1>4, CrashShape DEF Crash, world
  <2>3. NoDrainer.batch = {} /\ NoDrainer.at = "none"
    BY DEF NoDrainer
  <2>4. \A d \in Drainers : drain'[d].batch = {} /\ drain'[d].at \in {"none", "idle"}
    BY <2>1, <2>3, Idle
  <2>. QED
    BY <1>s, <1>r, <2>2, <2>4, RestingOrder
<1>5. CASE UNCHANGED vars
  BY <1>s, <1>5, <1>r, RestingOrder DEF vars
<1>6. ASSUME NEW r \in DOMAIN replies, EndQueue(r) PROVE OrderInv'
  BY <1>6, EndQueueOrder
<1>. QED
  BY <1>1, <1>2, <1>3, <1>4, <1>5, <1>6 DEF Next

(* "oldest first so a thread's replies arrive in the order the CS wrote    *)
(* them": through batches, crashes, failed updates and the overlapping     *)
(* drainers of successive sessions, a reply reaches the customer before    *)
(* the replies written after its commit, unless WhatsApp refused it.       *)
THEOREM RepliesStayInOrder == Spec => []InOrder
<1>1. Init => OrderInv
  BY DEF Init, OrderInv, Afters, Order, Visible, Reached, Stamped, InOrder, IdleDrain, NoDrainer
<1>2. OrderInv => InOrder
  BY DEF OrderInv
<1>. QED
  BY <1>1, <1>2, InitShape, ShapeStays, OrderInvStays, PTL DEF Spec

-----------------------------------------------------------------------------
(* What is recorded as read.                                               *)

\* What a drainer is about to record, WhatsApp was told.
Told ==
  \A d \in Drainers : drain[d].at = "acked" =>
     \A i \in drain[d].ack : <<replies[Current(d)].thread, i>> \in told

LEMMA ToldStays ==
  ASSUME Shape, SameThreads, told \subseteq told', Told,
         \A d \in Drainers : drain'[d].at = "acked" => drain'[d] = drain[d]
  PROVE  Told'
<1>. SUFFICES ASSUME NEW d \in Drainers, drain'[d].at = "acked", NEW i \in drain'[d].ack
              PROVE  <<replies'[Current(d)'].thread, i>> \in told'
  BY DEF Told
<1>1. drain'[d] = drain[d] /\ Current(d)' = Current(d)
  BY CurrentStays
<1>2. Current(d) \in DOMAIN replies
  BY <1>1, AtHand DEF Shape
<1>3. replies'[Current(d)].thread = replies[Current(d)].thread
  BY <1>2 DEF SameThreads
<1>4. <<replies[Current(d)].thread, i>> \in told
  BY <1>1 DEF Told
<1>. QED
  BY <1>1, <1>3, <1>4

LEMMA ReadsStay ==
  ASSUME UNCHANGED inbound, told \subseteq told', ReadOnlyIfTold
  PROVE  ReadOnlyIfTold'
BY DEF ReadOnlyIfTold

LEMMA CustomerWritesReads ==
  ASSUME Shape, ReadOnlyIfTold, NEW t \in Threads, CustomerWrites(t)
  PROVE  ReadOnlyIfTold'
<1>1. inbound[t] \in Seq({"delivered", "read"}) /\ "delivered" \in {"delivered", "read"}
  BY DEF Shape, InboundOK
<1>. DEFINE longer == Append(inbound[t], "delivered")
            n == Len(inbound[t])
<1>2. /\ DOMAIN longer = 1..(n + 1) /\ DOMAIN inbound[t] = 1..n /\ n \in Nat
      /\ longer[n + 1] = "delivered" /\ \A i \in DOMAIN inbound[t] : longer[i] = inbound[t][i]
  BY <1>1, Elements, Appended
<1>3. inbound' = [inbound EXCEPT ![t] = longer] /\ UNCHANGED told
  BY DEF CustomerWrites, world
<1>. HIDE DEF longer, n
<1>4. inbound'[t] = longer /\ \A u \in Threads \ {t} : inbound'[u] = inbound[u]
  BY <1>3 DEF Shape, InboundOK
<1>5. \A i \in DOMAIN longer : longer[i] = "read" => i \in DOMAIN inbound[t] /\ inbound[t][i] = "read"
  BY <1>2
<1>. QED
  BY <1>3, <1>4, <1>5 DEF ReadOnlyIfTold

LEMMA AckTellReads ==
  ASSUME Shape, ReadOnlyIfTold, Told, NEW d \in Drainers, AckTell(d)
  PROVE  ReadOnlyIfTold' /\ Told'
<1>1. /\ drain'[d].batch = drain[d].batch /\ drain'[d].ack = drain[d].ack
      /\ \A o \in Drainers \ {d} : drain'[o] = drain[o]
  BY AckTellShape
<1>2. /\ told' = told \cup {<<replies[Current(d)].thread, i>> : i \in drain[d].ack}
      /\ UNCHANGED <<replies, inbound>>
  BY DEF AckTell
<1>3. ASSUME NEW o \in Drainers, drain'[o].at = "acked", NEW i \in drain'[o].ack
      PROVE  <<replies'[Current(o)'].thread, i>> \in told'
  <2>1. Current(o)' = Current(o)
    BY <1>1, CurrentStays
  <2>2. CASE o = d
    BY <1>1, <1>2, <1>3, <2>1, <2>2
  <2>3. CASE o # d
    BY <1>1, <1>2, <1>3, <2>1, <2>3 DEF Told
  <2>. QED
    BY <2>2, <2>3
<1>4. Told'
  BY <1>3 DEF Told
<1>. QED
  BY <1>2, <1>4, ReadsStay

LEMMA AckRecordReads ==
  ASSUME Shape, ReadOnlyIfTold, Told, NEW d \in Drainers, AckRecord(d)
  PROVE  ReadOnlyIfTold'
<1>. PICK t \in Threads : t = replies[Current(d)].thread
  BY AtHand, Domains DEF Shape, AckRecord, Reply
<1>. DEFINE row == [i \in DOMAIN inbound[t] |-> IF i \in drain[d].ack THEN "read" ELSE inbound[t][i]]
<1>1. inbound' = [inbound EXCEPT ![t] = row] /\ UNCHANGED told /\ drain[d].at = "acked"
  BY DEF AckRecord, world
<1>2. inbound'[t] = row /\ \A u \in Threads \ {t} : inbound'[u] = inbound[u]
  BY <1>1 DEF Shape, InboundOK
<1>3. \A i \in drain[d].ack : <<t, i>> \in told
  BY <1>1 DEF Told
<1>. QED
  BY <1>1, <1>2, <1>3 DEF ReadOnlyIfTold

LEMMA ReadsAreTold == Shape /\ ReadOnlyIfTold /\ Told /\ [Next]_vars => ReadOnlyIfTold' /\ Told'
<1>. SUFFICES ASSUME Shape, ReadOnlyIfTold, Told, [Next]_vars PROVE ReadOnlyIfTold' /\ Told'
  OBVIOUS
<1>1. ASSUME NEW t \in Threads, Queue(t) \/ CustomerWrites(t) PROVE ReadOnlyIfTold' /\ Told'
  <2>1. SameThreads /\ UNCHANGED <<drain, told>>
    BY <1>1, QueueShape, NoThreadMoves DEF Queue, CustomerWrites, world
  <2>2. Queue(t) => UNCHANGED inbound
    BY DEF Queue
  <2>. QED
    BY <1>1, <2>1, <2>2, ToldStays, ReadsStay, CustomerWritesReads
<1>2. ASSUME NEW d \in Drainers, Drain(d) \/ MarkError(d) PROVE ReadOnlyIfTold' /\ Told'
  <2>1. StartDrain(d) \/ CancelDrain(d) \/ Send(d) \/ Settle(d) \/ MarkError(d) \/ AckRead(d)
        => ReadOnlyIfTold' /\ Told'
    <3>1. SUFFICES ASSUME StartDrain(d) \/ CancelDrain(d) \/ Send(d) \/ Settle(d) \/ MarkError(d) \/ AckRead(d)
                   PROVE ReadOnlyIfTold' /\ Told'
      OBVIOUS
    <3>2. drain'[d].at # "acked" /\ \A o \in Drainers \ {d} : drain'[o] = drain[o]
      BY <3>1, StartDrainShape, CancelDrainShape, SendShape, MarkSentShape, MarkFailedShape, MarkErrorShape,
         AckReadShape, Idle DEF Settle
    <3>3. SameThreads
      BY <3>1, NoThreadMoves, MarkSentShape, MarkFailedShape
         DEF StartDrain, CancelDrain, Send, Accept, Refuse, Settle, MarkError, AckRead
    <3>4. UNCHANGED <<inbound, told>>
      BY <3>1 DEF StartDrain, CancelDrain, Send, Accept, Refuse, Settle, MarkSent, MarkFailed, MarkError,
                  AckRead, world
    <3>. QED
      BY <3>2, <3>3, <3>4, ToldStays, ReadsStay
  <2>2. AckRecord(d) \/ AckSkip(d) => ReadOnlyIfTold' /\ Told'
    <3>1. SUFFICES ASSUME AckRecord(d) \/ AckSkip(d) PROVE ReadOnlyIfTold' /\ Told'
      OBVIOUS
    <3>2. drain'[d].at # "acked" /\ \A o \in Drainers \ {d} : drain'[o] = drain[o]
      BY <3>1, AckEndsShape
    <3>3. UNCHANGED <<replies, told>> /\ (AckSkip(d) => UNCHANGED inbound)
      BY <3>1 DEF AckRecord, AckSkip, world
    <3>. QED
      BY <3>1, <3>2, <3>3, NoThreadMoves, ToldStays, ReadsStay, AckRecordReads
  <2>. QED
    BY <1>2, <2>1, <2>2, AckTellReads DEF Drain, Acknowledge
<1>3. ASSUME NEW a \in Accounts, Receive(a) \/ DropSession(a) PROVE ReadOnlyIfTold' /\ Told'
  <2>1. Receive(a) => SameThreads /\ UNCHANGED <<drain, inbound, told>>
    BY NoThreadMoves, ReceiptUpdateShape DEF Receive, ReceiptRead, ReceiptUpdate, ReceiptError, world
  <2>2. DropSession(a) => /\ SameThreads /\ UNCHANGED <<inbound, told>>
                          /\ \A d \in Drainers : drain'[d].at = "acked" => drain'[d] = drain[d]
    BY NoThreadMoves, DropSessionShape, Idle DEF DropSession, world
  <2>. QED
    BY <1>3, <2>1, <2>2, ToldStays, ReadsStay
<1>4. CASE Crash
  <2>1. \A d \in Drainers : drain'[d] = IdleDrain \/ drain'[d] = NoDrainer
    BY <1>4, CrashShape
  <2>2. \A d \in Drainers : drain'[d].at # "acked"
    BY <2>1 DEF IdleDrain, NoDrainer
  <2>3. UNCHANGED <<replies, inbound, told>>
    BY <1>4 DEF Crash, world
  <2>. QED
    BY <2>2, <2>3, NoThreadMoves, ToldStays, ReadsStay
<1>5. CASE UNCHANGED vars
  BY <1>5, NoThreadMoves, ToldStays, ReadsStay DEF vars
<1>6. ASSUME NEW r \in DOMAIN replies, EndQueue(r) PROVE ReadOnlyIfTold' /\ Told'
  <2>1. SameThreads /\ UNCHANGED <<drain, told, inbound>>
    BY <1>6, EndQueueShape DEF EndQueue, world
  <2>. QED
    BY <2>1, ToldStays, ReadsStay
<1>. QED
  BY <1>1, <1>2, <1>3, <1>4, <1>5, <1>6 DEF Next

(* The acknowledgement is read, told and recorded in three steps, between  *)
(* which the customer may write: a message is recorded as read only if     *)
(* WhatsApp was told of that very message.                                 *)
THEOREM ReadsWereTold == Spec => []ReadOnlyIfTold
<1>1. Init => ReadOnlyIfTold /\ Told
  BY DEF Init, ReadOnlyIfTold, Told, IdleDrain, NoDrainer
<1>. QED
  BY <1>1, InitShape, ShapeStays, ReadsAreTold, PTL DEF Spec

-----------------------------------------------------------------------------
(* One session per number: who may write a row, and what was sent twice.   *)

Marked == {"sent", "acking", "acked"}
Trying == {"accepted", "refused"}

\* A drainer's rows are queued, but for the one it has marked.
WaitsAt(d) ==
  \A r \in drain[d].batch :
     replies[r].status = "queued" \/ (drain[d].at \in Marked /\ r = Current(d))
Waiting == \A d \in Drainers : WaitsAt(d)
\* WhatsApp has answered for the reply and nothing records it yet.
Tried(r) == \E d \in Drainers : drain[d].at \in Trying /\ Current(d) = r
\* A copy of a queued reply is a lost one, unless its drainer is about to say so.
Counted ==
  \A r \in DOMAIN replies :
     /\ copies[r] <= lost[r] + 1
     /\ replies[r].status \in {"writing", "queued"} /\ ~Tried(r) => copies[r] <= lost[r]
\* A row with an id is beyond the queue.
Known ==
  \A r \in DOMAIN replies : replies[r].wa >= 1 => replies[r].status \in {"sent", "delivered", "read"}
\* What the handler of a receipt has read is still so when it updates.
Seen ==
  \A a \in Accounts : receipt[a] # NoReceipt =>
     /\ replies[receipt[a].row].status = receipt[a].seen
     /\ <<receipt[a].row, replies[receipt[a].row].wa, receipt[a].status>> \in answered
Earned ==
  \A r \in DOMAIN replies : replies[r].status \in {"delivered", "read"} =>
     <<r, replies[r].wa, replies[r].status>> \in answered
OneInv == Waiting /\ Counted /\ Known /\ Seen /\ Earned

LEMMA Apart ==
  ASSUME OneSession, Shape, NEW d \in Drainers, NEW o \in Drainers \ {d}, Working(d),
         NEW r \in drain[o].batch
  PROVE  r # Current(d)
<1>1. d[1] # o[1]
  BY DEF OneSession, Drainers
<1>2. Current(d) \in drain[d].batch
  BY AtHand DEF Shape, Working
<1>. QED
  BY <1>1, <1>2 DEF Shape, DrainOK

LEMMA WaitsRest ==
  ASSUME NEW o \in Drainers, WaitsAt(o), drain'[o].batch \subseteq drain[o].batch,
         \A r \in drain'[o].batch : replies[r].status = "queued" => replies'[r].status = "queued",
         drain[o].at \in Marked => \/ drain'[o].batch = drain[o].batch /\ drain'[o].at \in Marked
                                   \/ Current(o) \notin drain'[o].batch
  PROVE  WaitsAt(o)'
<1>1. drain'[o].batch = drain[o].batch => Current(o)' = Current(o)
  BY CurrentStays
<1>. QED
  BY <1>1 DEF WaitsAt

LEMMA TriedStays ==
  ASSUME \A d \in Drainers : drain[d].at \in Trying => drain'[d] = drain[d]
  PROVE  \A r : Tried(r) => Tried(r)'
<1>. SUFFICES ASSUME NEW r, NEW d \in Drainers, drain[d].at \in Trying, Current(d) = r
              PROVE  Tried(r)'
  BY DEF Tried
<1>1. drain'[d] = drain[d] /\ Current(d)' = Current(d)
  BY CurrentStays
<1>. QED
  BY <1>1 DEF Tried

\* Steps that write no row and count nothing.
LEMMA OneRests ==
  ASSUME Shape, OneInv, UNCHANGED <<replies, copies, lost, answered>>, Waiting',
         \A a \in Accounts : receipt'[a] \in {receipt[a], NoReceipt},
         \A d \in Drainers : drain[d].at \in Trying => drain'[d] = drain[d]
  PROVE  OneInv'
<1>1. Counted'
  BY TriedStays DEF OneInv, Counted
<1>2. Known' /\ Earned'
  BY DEF OneInv, Known, Earned
<1>3. Seen'
  BY DEF OneInv, Seen
<1>. QED
  BY <1>1, <1>2, <1>3 DEF OneInv

LEMMA QueueOne ==
  ASSUME Shape, OneInv, NEW t \in Threads, Queue(t)
  PROVE  OneInv'
<1>1. PICK n \in Nat, row \in Reply :
        /\ row.status = "writing" /\ row.wa = 0
        /\ DOMAIN replies = 1..n /\ DOMAIN replies' = 1..(n + 1)
        /\ replies'[n + 1] = row /\ \A r \in DOMAIN replies : replies'[r] = replies[r]
        /\ copies'[n + 1] = 0 /\ \A r \in DOMAIN replies : copies'[r] = copies[r]
        /\ lost'[n + 1] = 0 /\ \A r \in DOMAIN replies : lost'[r] = lost[r]
  BY QueueAppends
<1>2. UNCHANGED <<drain, receipt, answered>>
  BY DEF Queue
<1>3. Waiting'
  <2>1. ASSUME NEW d \in Drainers PROVE WaitsAt(d)'
    <3>1. drain'[d] = drain[d] /\ \A r \in drain[d].batch : r \in DOMAIN replies
      BY <1>2 DEF Shape, DrainOK
    <3>. QED
      BY <1>1, <3>1, WaitsRest DEF OneInv, Waiting
  <2>. QED
    BY <2>1 DEF Waiting
<1>4. Counted'
  <2>1. \A r : Tried(r) => Tried(r)'
    BY <1>2, TriedStays
  <2>2. ASSUME NEW r \in DOMAIN replies'
        PROVE  /\ copies'[r] <= lost'[r] + 1
               /\ replies'[r].status \in {"writing", "queued"} /\ ~Tried(r)' => copies'[r] <= lost'[r]
    <3>1. CASE r = n + 1
      BY <1>1, <3>1
    <3>2. CASE r # n + 1
      <4>1. r \in DOMAIN replies
        BY <1>1, <3>2
      <4>. QED
        BY <1>1, <2>1, <4>1 DEF OneInv, Counted
    <3>. QED
      BY <3>1, <3>2
  <2>. QED
    BY <2>2 DEF Counted
<1>5. \A r \in DOMAIN replies' : r \in DOMAIN replies \/ replies'[r] = row
  BY <1>1
<1>6. Known' /\ Earned'
  BY <1>1, <1>2, <1>5 DEF OneInv, Known, Earned
<1>7. Seen'
  <2>1. \A a \in Accounts : receipt[a] # NoReceipt => receipt[a].row \in DOMAIN replies
    BY DEF Shape, ReceiptOK
  <2>. QED
    BY <1>1, <1>2, <2>1 DEF OneInv, Seen
<1>. QED
  BY <1>3, <1>4, <1>6, <1>7 DEF OneInv

LEMMA EndQueueOne ==
  ASSUME Shape, OrderInv, OneInv, NEW c \in DOMAIN replies, EndQueue(c)
  PROVE  OneInv'
<1>1. /\ DOMAIN replies' = DOMAIN replies
      /\ replies[c].status = "writing" /\ replies'[c].status \in {"queued", "undone"}
      /\ replies'[c].wa = replies[c].wa
      /\ \A r \in DOMAIN replies \ {c} : replies'[r] = replies[r]
  BY EndQueueShape
<1>2. UNCHANGED <<copies, lost, answered, receipt, drain>>
  BY DEF EndQueue, world
<1>3. Waiting'
  <2>1. ASSUME NEW o \in Drainers PROVE WaitsAt(o)'
    <3>1. \A r \in drain[o].batch : r \in DOMAIN replies
      BY DEF Shape, DrainOK
    <3>. QED
      BY <1>1, <1>2, <3>1, WaitsRest DEF OneInv, Waiting
  <2>. QED
    BY <2>1 DEF Waiting
<1>4. Counted'
  <2>1. \A r : Tried(r) => Tried(r)'
    BY <1>2, TriedStays
  <2>. QED
    BY <1>1, <1>2, <2>1 DEF OneInv, Counted
<1>5. \A a \in Accounts : receipt[a] # NoReceipt => receipt[a].row \in DOMAIN replies \ {c}
  BY <1>1 DEF OrderInv, Stamped, OneInv, Known, Shape, ReceiptOK
<1>6. Known' /\ Seen' /\ Earned'
  BY <1>1, <1>2, <1>5 DEF OneInv, Known, Seen, Earned
<1>. QED
  BY <1>3, <1>4, <1>6 DEF OneInv

LEMMA StartDrainOne ==
  ASSUME Shape, OneInv, NEW d \in Drainers, StartDrain(d)
  PROVE  OneInv'
<1>1. /\ drain'[d].batch = ClaimQueued(d[1]) /\ \A o \in Drainers \ {d} : drain'[o] = drain[o]
  BY StartDrainShape
<1>2. UNCHANGED <<replies, copies, lost, answered, receipt>> /\ d[1] \in Accounts /\ drain[d].at = "idle"
  BY DEF StartDrain, world, Drainers
<1>3. WaitsAt(d)'
  BY <1>1, <1>2, Claimed DEF WaitsAt, Shape
<1>4. \A o \in Drainers \ {d} : WaitsAt(o)'
  BY <1>1, <1>2, WaitsRest DEF OneInv, Waiting, WaitsAt
<1>5. \A o \in Drainers : drain[o].at \in Trying => drain'[o] = drain[o]
  BY <1>1, <1>2 DEF Trying
<1>. QED
  BY <1>2, <1>3, <1>4, <1>5, OneRests DEF Waiting

LEMMA SendOne ==
  ASSUME OneSession, Shape, OneInv, NEW d \in Drainers, Send(d)
  PROVE  OneInv'
<1>. PICK c \in DOMAIN replies : c = Current(d) /\ c \in drain[d].batch /\ Working(d)
  BY AtHand DEF Shape, Send, Accept, Refuse, Working
<1>1. /\ drain[d].at \in {"first", "next"} /\ drain'[d].batch = drain[d].batch
      /\ drain'[d].at \in Trying
      /\ \A o \in Drainers \ {d} : drain'[o] = drain[o]
      /\ \A r \in DOMAIN copies \ {c} : copies'[r] = copies[r]
      /\ copies'[c] \in {copies[c], copies[c] + 1}
  BY SendShape DEF Trying
<1>2. UNCHANGED <<replies, lost, answered, receipt>>
  BY DEF Send, Accept, Refuse
<1>3. DOMAIN copies = DOMAIN replies /\ \A r \in DOMAIN replies : copies[r] \in Nat /\ lost[r] \in Nat
  BY Domains DEF Shape
<1>4. Waiting'
  <2>1. ASSUME NEW o \in Drainers PROVE WaitsAt(o)'
    BY <1>1, <1>2, WaitsRest DEF OneInv, Waiting, Marked
  <2>. QED
    BY <2>1 DEF Waiting
<1>5. Tried(c)'
  BY <1>1, CurrentStays DEF Tried
<1>6. \A r : Tried(r) => Tried(r)'
  BY <1>1, TriedStays DEF Trying
<1>7. replies[c].status = "queued" /\ ~Tried(c)
  <2>1. replies[c].status = "queued"
    BY <1>1 DEF OneInv, Waiting, WaitsAt, Marked
  <2>2. ASSUME NEW o \in Drainers, drain[o].at \in Trying, Current(o) = c PROVE FALSE
    <3>1. o # d /\ Current(o) \in drain[o].batch
      BY <1>1, <2>2, AtHand DEF Trying, Shape
    <3>. QED
      BY <2>2, <3>1, Apart
  <2>. QED
    BY <2>1, <2>2 DEF Tried
<1>8. copies[c] <= lost[c]
  BY <1>7 DEF OneInv, Counted
<1>9. Counted'
  BY <1>1, <1>2, <1>3, <1>5, <1>6, <1>8 DEF OneInv, Counted
<1>10. Known' /\ Seen' /\ Earned'
  BY <1>2 DEF OneInv, Known, Seen, Earned
<1>. QED
  BY <1>4, <1>9, <1>10 DEF OneInv

\* A drainer records what became of the reply it is at.
LEMMA MarkOne ==
  ASSUME OneSession, Shape, OrderInv, OneInv, NEW d \in Drainers, Settle(d)
  PROVE  OneInv' /\ replies[Current(d)].status = "queued"
<1>. PICK c \in DOMAIN replies : c = Current(d) /\ c \in drain[d].batch /\ Working(d)
  BY AtHand DEF Shape, Settle, MarkSent, MarkFailed, Working
<1>1. /\ drain[d].at \in Trying /\ DOMAIN replies' = DOMAIN replies
      /\ \A r \in DOMAIN replies \ {c} : replies'[r] = replies[r]
      /\ \A o \in Drainers \ {d} : drain'[o] = drain[o]
      /\ \/ /\ replies'[c].status = "sent"
            /\ drain'[d].at \in Marked /\ drain'[d].batch = drain[d].batch
         \/ /\ replies'[c].status = "failed" /\ replies'[c].wa = replies[c].wa
            /\ drain'[d].batch = drain[d].batch \ {c}
  <2>1. CASE MarkSent(d)
    BY <2>1, MarkSentShape DEF MarkSent, Trying, Marked
  <2>2. CASE MarkFailed(d)
    BY <2>2, MarkFailedShape DEF MarkFailed, Trying
  <2>. QED
    BY <2>1, <2>2 DEF Settle
<1>2. UNCHANGED <<copies, lost, answered, receipt>>
  BY DEF Settle, MarkSent, MarkFailed, world
<1>3. \A r \in DOMAIN replies : replies[r].wa \in Nat
  BY Domains DEF Shape, Reply
<1>4. replies[c].status = "queued" /\ ~(replies[c].wa >= 1)
  <2>1. replies[c].status = "queued"
    BY <1>1 DEF OneInv, Waiting, WaitsAt, Marked, Trying
  <2>. QED
    BY <2>1 DEF OneInv, Known
<1>5. WaitsAt(d)'
  <2>1. \A r \in drain[d].batch \ {c} : r \in DOMAIN replies /\ replies[r].status = "queued"
    BY <1>1 DEF OneInv, Waiting, WaitsAt, Marked, Trying, Shape, DrainOK
  <2>2. drain'[d].batch = drain[d].batch => Current(d)' = c
    BY CurrentStays
  <2>. QED
    BY <1>1, <2>1, <2>2 DEF WaitsAt
<1>6. \A o \in Drainers \ {d} : WaitsAt(o)'
  <2>1. SUFFICES ASSUME NEW o \in Drainers \ {d} PROVE WaitsAt(o)'
    OBVIOUS
  <2>2. \A r \in drain[o].batch : r # c /\ r \in DOMAIN replies
    BY Apart DEF Shape, DrainOK
  <2>. QED
    BY <1>1, <2>2, WaitsRest DEF OneInv, Waiting
<1>7. Counted'
  <2>1. ASSUME NEW r \in DOMAIN replies \ {c}, Tried(r) PROVE Tried(r)'
    <3>1. PICK o \in Drainers : drain[o].at \in Trying /\ Current(o) = r
      BY <2>1 DEF Tried
    <3>2. drain'[o] = drain[o] /\ Current(o)' = Current(o)
      BY <1>1, <2>1, <3>1, CurrentStays
    <3>. QED
      BY <3>1, <3>2 DEF Tried
  <2>. QED
    BY <1>1, <1>2, <2>1 DEF OneInv, Counted
<1>8. Known'
  BY <1>1, <1>4 DEF OneInv, Known
<1>9. Seen'
  <2>1. ASSUME NEW a \in Accounts, receipt[a] # NoReceipt
        PROVE  receipt[a].row \in DOMAIN replies \ {c}
    BY <1>4, <2>1 DEF OrderInv, Stamped, Shape, ReceiptOK
  <2>. QED
    BY <1>1, <1>2, <2>1 DEF OneInv, Seen
<1>10. Earned'
  BY <1>1, <1>2 DEF OneInv, Earned
<1>. QED
  BY <1>4, <1>5, <1>6, <1>7, <1>8, <1>9, <1>10 DEF OneInv, Waiting

LEMMA MarkErrorOne ==
  ASSUME Shape, OneInv, NEW d \in Drainers, MarkError(d)
  PROVE  OneInv'
<1>. PICK c \in DOMAIN replies : c = Current(d)
  BY AtHand DEF Shape, MarkError
<1>1. /\ drain'[d] = IdleDrain /\ \A o \in Drainers \ {d} : drain'[o] = drain[o]
      /\ lost'[c] = copies[c] /\ \A r \in DOMAIN lost \ {c} : lost'[r] = lost[r]
  BY MarkErrorShape
<1>2. UNCHANGED <<replies, copies, answered, receipt>>
  BY DEF MarkError, world
<1>3. DOMAIN lost = DOMAIN replies /\ \A r \in DOMAIN replies : copies[r] \in Nat /\ lost[r] \in Nat
  BY Domains DEF Shape
<1>4. Waiting'
  <2>1. ASSUME NEW o \in Drainers PROVE WaitsAt(o)'
    BY <1>1, <1>2, Idle, WaitsRest DEF OneInv, Waiting
  <2>. QED
    BY <2>1 DEF Waiting
<1>5. Counted'
  <2>1. ASSUME NEW r \in DOMAIN replies \ {c}, Tried(r) PROVE Tried(r)'
    <3>1. PICK o \in Drainers : drain[o].at \in Trying /\ Current(o) = r
      BY <2>1 DEF Tried
    <3>2. drain'[o] = drain[o] /\ Current(o)' = Current(o)
      BY <1>1, <2>1, <3>1, CurrentStays
    <3>. QED
      BY <3>1, <3>2 DEF Tried
  <2>. QED
    BY <1>1, <1>2, <1>3, <2>1 DEF OneInv, Counted
<1>6. Known' /\ Seen' /\ Earned'
  BY <1>2 DEF OneInv, Known, Seen, Earned
<1>. QED
  BY <1>4, <1>5, <1>6 DEF OneInv

LEMMA CrashOne ==
  ASSUME Shape, OneInv, Crash
  PROVE  OneInv'
<1>1. /\ \A d \in Drainers : drain'[d] \in {IdleDrain, NoDrainer}
      /\ \A a \in Accounts : receipt'[a] = NoReceipt
      /\ \A r \in DOMAIN lost : lost'[r] = IF Tried(r) THEN copies[r] ELSE lost[r]
  BY CrashShape DEF Tried, Trying
<1>2. UNCHANGED <<replies, copies, answered>>
  BY DEF Crash, world
<1>3. DOMAIN lost = DOMAIN replies /\ \A r \in DOMAIN replies : copies[r] \in Nat /\ lost[r] \in Nat
  BY Domains DEF Shape
<1>4. Waiting'
  BY <1>1 DEF Waiting, WaitsAt, IdleDrain, NoDrainer
<1>5. Counted'
  <2>1. ASSUME NEW r \in DOMAIN replies
        PROVE  /\ copies[r] <= lost'[r] + 1
               /\ replies[r].status \in {"writing", "queued"} => copies[r] <= lost'[r]
    <3>1. CASE Tried(r)
      BY <1>1, <1>3, <3>1
    <3>2. CASE ~Tried(r)
      BY <1>1, <1>3, <3>2 DEF OneInv, Counted
    <3>. QED
      BY <3>1, <3>2
  <2>. QED
    BY <1>2, <2>1 DEF Counted
<1>6. Known' /\ Seen' /\ Earned'
  BY <1>1, <1>2 DEF OneInv, Known, Seen, Earned
<1>. QED
  BY <1>4, <1>5, <1>6 DEF OneInv

LEMMA ReceiptReadOne ==
  ASSUME Shape, OneInv, NEW a \in Accounts, NEW r \in DOMAIN replies, NEW n \in 1..MaxReplies,
         NEW s \in {"delivered", "read"}, ReceiptRead(a, r, n, s)
  PROVE  OneInv'
<1>1. /\ UNCHANGED <<replies, drain, copies, lost>>
      /\ \A b \in Accounts \ {a} : receipt'[b] = receipt[b]
      /\ \/ receipt'[a] = receipt[a]
         \/ /\ receipt'[a] = [status |-> s, row |-> r, seen |-> replies[r].status]
            /\ replies[r].wa = n
  BY DEF ReceiptRead, Shape, ReceiptOK
<1>2. answered' = answered \cup {<<r, n, s>>}
  BY DEF ReceiptRead
<1>3. Waiting'
  <2>1. ASSUME NEW o \in Drainers PROVE WaitsAt(o)'
    BY <1>1, WaitsRest DEF OneInv, Waiting
  <2>. QED
    BY <2>1 DEF Waiting
<1>4. Counted'
  BY <1>1, TriedStays DEF OneInv, Counted
<1>5. Known' /\ Earned'
  BY <1>1, <1>2 DEF OneInv, Known, Earned
<1>6. Seen'
  BY <1>1, <1>2 DEF OneInv, Seen
<1>. QED
  BY <1>3, <1>4, <1>5, <1>6 DEF OneInv

LEMMA ReceiptUpdateOne ==
  ASSUME Shape, OrderInv, OneInv, NEW a \in Accounts, ReceiptUpdate(a)
  PROVE  /\ OneInv'
         /\ \/ UNCHANGED replies
            \/ Moves(receipt[a]) /\ replies[receipt[a].row].status = receipt[a].seen
<1>. PICK c \in DOMAIN replies : c = receipt[a].row /\ receipt[a] # NoReceipt
  BY DEF ReceiptUpdate, Shape, ReceiptOK
<1>1. /\ DOMAIN replies' = DOMAIN replies /\ receipt'[a] = NoReceipt
      /\ \A b \in Accounts \ {a} : receipt'[b] = receipt[b]
      /\ \A r \in DOMAIN replies : replies'[r].wa = replies[r].wa
      /\ \A r \in DOMAIN replies \ {c} : replies'[r] = replies[r]
      /\ \/ replies'[c] = replies[c]
         \/ Moves(receipt[a]) /\ replies'[c].status = receipt[a].status
  BY ReceiptUpdateShape
<1>2. /\ UNCHANGED <<copies, drain, lost, answered>> /\ receipt[a].status \in {"delivered", "read"}
      /\ UNCHANGED replies \/ Moves(receipt[a])
  BY DEF ReceiptUpdate, world, Shape, ReceiptOK
<1>3. /\ replies[c].status = receipt[a].seen /\ replies[c].status # "queued"
      /\ <<c, replies[c].wa, receipt[a].status>> \in answered
  BY DEF OrderInv, Stamped, OneInv, Known, Seen
<1>4. \A r \in DOMAIN replies : replies'[r].status = "queued" <=> replies[r].status = "queued"
  BY <1>1, <1>2, <1>3
<1>5. Waiting'
  <2>1. ASSUME NEW o \in Drainers PROVE WaitsAt(o)'
    <3>1. \A r \in drain[o].batch : r \in DOMAIN replies
      BY DEF Shape, DrainOK
    <3>. QED
      BY <1>2, <1>4, <3>1, WaitsRest DEF OneInv, Waiting
  <2>. QED
    BY <2>1 DEF Waiting
<1>6. Counted'
  BY <1>1, <1>2, <1>4, TriedStays DEF OneInv, Counted
<1>7. Known'
  BY <1>1, <1>2 DEF OneInv, Known
<1>8. Seen'
  <2>1. ASSUME NEW b \in Accounts \ {a}, receipt[b] # NoReceipt
        PROVE  receipt[b].row \in DOMAIN replies \ {c}
    BY <2>1 DEF Shape, ReceiptOK
  <2>. QED
    BY <1>1, <1>2, <2>1 DEF OneInv, Seen
<1>9. Earned'
  BY <1>1, <1>2, <1>3 DEF OneInv, Earned
<1>. QED
  BY <1>2, <1>3, <1>5, <1>6, <1>7, <1>8, <1>9 DEF OneInv

LEMMA OneInvStays ==
  ASSUME OneSession, Shape, OrderInv, OneInv, [Next]_vars
  PROVE  OneInv'
<1>r. ASSUME UNCHANGED <<replies, copies, lost, answered>>,
             \A a \in Accounts : receipt'[a] \in {receipt[a], NoReceipt},
             \A d \in Drainers :
                \/ drain'[d] = drain[d]
                \/ /\ drain[d].at \notin Trying /\ drain'[d].batch \subseteq drain[d].batch
                   /\ drain[d].at \in Marked => \/ drain'[d].batch = drain[d].batch /\ drain'[d].at \in Marked
                                                \/ Current(d) \notin drain'[d].batch
      PROVE  OneInv'
  <2>1. ASSUME NEW o \in Drainers PROVE WaitsAt(o)'
    BY <1>r, WaitsRest DEF OneInv, Waiting
  <2>2. \A d \in Drainers : drain[d].at \in Trying => drain'[d] = drain[d]
    BY <1>r
  <2>. QED
    BY <1>r, <2>1, <2>2, OneRests DEF Waiting
<1>1. ASSUME NEW t \in Threads, Queue(t) \/ CustomerWrites(t) PROVE OneInv'
  <2>1. CustomerWrites(t) => UNCHANGED <<replies, copies, lost, answered, receipt, drain>>
    BY DEF CustomerWrites, world
  <2>. QED
    BY <1>r, <1>1, <2>1, QueueOne
<1>2. ASSUME NEW d \in Drainers, Drain(d) \/ MarkError(d) PROVE OneInv'
  <2>1. CancelDrain(d) \/ Acknowledge(d) => OneInv'
    <3>1. SUFFICES ASSUME CancelDrain(d) \/ Acknowledge(d) PROVE OneInv'
      OBVIOUS
    <3>2. UNCHANGED <<replies, copies, lost, answered, receipt>> /\ drain[d].at \notin Trying
      BY <3>1 DEF CancelDrain, Acknowledge, AckRead, AckTell, AckRecord, AckSkip, world, Trying
    <3>3. \A o \in Drainers \ {d} : drain'[o] = drain[o]
      BY <3>1, CancelDrainShape, AckReadShape, AckTellShape, AckEndsShape DEF Acknowledge
    <3>4. CASE CancelDrain(d)
      BY <1>r, <3>2, <3>3, <3>4, CancelDrainShape, Idle
    <3>5. CASE AckRead(d) \/ AckTell(d)
      <4>1. drain'[d].batch = drain[d].batch /\ drain'[d].at \in Marked
        BY <3>5, AckReadShape, AckTellShape DEF Marked
      <4>. QED
        BY <1>r, <3>2, <3>3, <4>1
    <3>6. CASE AckRecord(d) \/ AckSkip(d)
      <4>1. drain'[d].batch = drain[d].batch \ {Current(d)}
        BY <3>6, AckEndsShape
      <4>. QED
        BY <1>r, <3>2, <3>3, <4>1
    <3>. QED
      BY <3>1, <3>4, <3>5, <3>6 DEF Acknowledge
  <2>. QED
    BY <1>2, <2>1, StartDrainOne, SendOne, MarkOne, MarkErrorOne DEF Drain
<1>3. ASSUME NEW a \in Accounts, Receive(a) \/ DropSession(a) PROVE OneInv'
  <2>1. ReceiptError(a) => OneInv'
    <3>1. SUFFICES ASSUME ReceiptError(a) PROVE OneInv'
      OBVIOUS
    <3>2. receipt'[a] = NoReceipt /\ \A b \in Accounts \ {a} : receipt'[b] = receipt[b]
      BY <3>1, ReceiptErrorShape
    <3>3. UNCHANGED <<replies, copies, lost, answered, drain>>
      BY <3>1 DEF ReceiptError, world
    <3>. QED
      BY <1>r, <3>2, <3>3
  <2>2. ~DropSession(a)
    BY DropSessionShape DEF OneSession
  <2>. QED
    BY <1>3, <2>1, <2>2, ReceiptReadOne, ReceiptUpdateOne DEF Receive
<1>4. CASE Crash
  BY <1>4, CrashOne
<1>5. CASE UNCHANGED vars
  BY <1>5, <1>r DEF vars
<1>6. ASSUME NEW r \in DOMAIN replies, EndQueue(r) PROVE OneInv'
  BY <1>6, EndQueueOne
<1>. QED
  BY <1>1, <1>2, <1>3, <1>4, <1>5, <1>6 DEF Next

\* The ticks climb: a settled row was queued, a receipt moves what it has read.
Climbs == \A r \in DOMAIN replies : Rank(replies'[r].status) >= Rank(replies[r].status)

LEMMA StepsClimb ==
  ASSUME OneSession, Shape, OrderInv, OneInv, [Next]_vars
  PROVE  Climbs
<1>1. \A r \in DOMAIN replies : replies[r].status \in Statuses
  BY Domains DEF Shape, Reply
<1>2. (\A r \in DOMAIN replies : replies'[r] = replies[r]) => Climbs
  BY <1>1, Ranks DEF Climbs
<1>3. ASSUME NEW t \in Threads, Queue(t) PROVE Climbs
  <2>1. \A r \in DOMAIN replies : replies'[r] = replies[r]
    BY <1>3, QueueAppends
  <2>. QED
    BY <1>2, <2>1
<1>e. ASSUME NEW c \in DOMAIN replies, EndQueue(c) PROVE Climbs
  BY <1>1, <1>2, <1>e, EndQueueShape, Ranks DEF Climbs
<1>4. ASSUME NEW d \in Drainers, Settle(d) PROVE Climbs
  <2>1. replies[Current(d)].status = "queued" /\ \A r \in DOMAIN replies : r # Current(d) => replies'[r] = replies[r]
    BY <1>4, MarkOne, MarkSentShape, MarkFailedShape DEF Settle
  <2>2. replies'[Current(d)].status \in {"sent", "failed"}
    BY <1>4, MarkSentShape, MarkFailedShape DEF Settle
  <2>. QED
    BY <1>1, <2>1, <2>2, Ranks DEF Climbs
<1>5. ASSUME NEW a \in Accounts, ReceiptUpdate(a) PROVE Climbs
  <2>1. \/ UNCHANGED replies
        \/ Moves(receipt[a]) /\ replies[receipt[a].row].status = receipt[a].seen
    BY <1>5, ReceiptUpdateOne
  <2>2. /\ \A r \in DOMAIN replies \ {receipt[a].row} : replies'[r] = replies[r]
        /\ \/ replies'[receipt[a].row] = replies[receipt[a].row]
           \/ Moves(receipt[a]) /\ replies'[receipt[a].row].status = receipt[a].status
    BY <1>5, ReceiptUpdateShape
  <2>3. receipt[a].status \in Statuses /\ receipt[a].seen \in Statuses
    BY <1>5 DEF ReceiptUpdate, Shape, ReceiptOK, Statuses
  <2>. QED
    BY <1>1, <1>2, <2>1, <2>2, <2>3, Ranks DEF Climbs, Moves
<1>6. ASSUME UNCHANGED replies PROVE Climbs
  BY <1>2, <1>6
<1>7. ASSUME NEW d \in Drainers, Drain(d) \/ MarkError(d) PROVE Climbs
  <2>1. Settle(d) \/ UNCHANGED replies
    BY <1>7 DEF Drain, StartDrain, CancelDrain, Send, Accept, Refuse, Acknowledge, AckRead, AckTell,
                AckRecord, AckSkip, MarkError, world
  <2>. QED
    BY <1>4, <1>6, <2>1
<1>8. ASSUME NEW a \in Accounts, Receive(a) \/ DropSession(a) PROVE Climbs
  <2>1. ReceiptUpdate(a) \/ UNCHANGED replies
    BY <1>8 DEF Receive, ReceiptRead, ReceiptError, DropSession, world
  <2>. QED
    BY <1>5, <1>6, <2>1
<1>9. \/ \E t \in Threads : Queue(t)
      \/ \E r \in DOMAIN replies : EndQueue(r)
      \/ \E d \in Drainers : Drain(d) \/ MarkError(d)
      \/ \E a \in Accounts : Receive(a) \/ DropSession(a)
      \/ UNCHANGED replies
  BY DEF Next, CustomerWrites, Crash, vars, world
<1>. QED
  BY <1>3, <1>e, <1>6, <1>7, <1>8, <1>9

LEMMA OneInvariant == ASSUME OneSession PROVE Spec => [](Shape /\ OrderInv /\ OneInv)
<1>1. Init => OrderInv /\ OneInv
  <2>1. Init => OrderInv
    BY DEF Init, OrderInv, Afters, Order, Visible, Reached, Stamped, InOrder, IdleDrain, NoDrainer
  <2>2. Init => OneInv
    BY DEF Init, OneInv, Waiting, WaitsAt, Counted, Known, Seen, Earned, IdleDrain, NoDrainer
  <2>. QED
    BY <2>1, <2>2
<1>2. Shape /\ OrderInv /\ OneInv /\ [Next]_vars => Shape' /\ OrderInv' /\ OneInv'
  BY ShapeStays, OrderInvStays, OneInvStays
<1>. QED
  BY <1>1, <1>2, InitShape, PTL DEF Spec

(* "a crash after WhatsApp accepts a message but before MarkSent records   *)
(* it will resend": a customer gets a second copy of a reply only for one  *)
(* that was accepted and not recorded.  Two sessions of a number that      *)
(* overlap would break this, and the next two.                             *)
THEOREM NoOtherDuplicates == ASSUME OneSession PROVE Spec => []OneCopyPerUnrecordedSend
<1>1. Shape /\ OneInv => OneCopyPerUnrecordedSend
  BY DEF OneInv, Counted, OneCopyPerUnrecordedSend
<1>. QED
  BY <1>1, OneInvariant, PTL

(* A tick beyond "queued" means that WhatsApp has the reply, and a blue or *)
(* double one that the customer's device said so of a copy we recorded.    *)
THEOREM TicksAreTrue == ASSUME OneSession PROVE Spec => []TicksAreEarned
<1>1. Shape /\ OrderInv /\ OneInv => TicksAreEarned
  <2>. SUFFICES ASSUME Shape, OrderInv, OneInv PROVE TicksAreEarned
    OBVIOUS
  <2>1. \A r \in DOMAIN replies : replies[r].wa \in Nat /\ copies[r] \in Nat
    BY Domains DEF Shape, Reply
  <2>2. \A r \in DOMAIN replies : Rank(replies[r].status) >= 1 => replies[r].wa \in 1..copies[r]
    BY <2>1 DEF OrderInv, Stamped
  <2>. QED
    BY <2>2 DEF OneInv, Earned, TicksAreEarned
<1>. QED
  BY <1>1, OneInvariant, PTL

(* "refuses to walk it back when receipts arrive out of order": no step    *)
(* takes a tick back.                                                      *)
THEOREM TicksOnlyClimb == ASSUME OneSession PROVE Spec => TicksNeverGoBack
<1>1. Shape /\ OrderInv /\ OneInv /\ [Next]_vars => Climbs
  BY StepsClimb
<1>. QED
  BY <1>1, OneInvariant, PTL DEF Spec, TicksNeverGoBack, Climbs
=============================================================================
