-------------------------- MODULE OntStatusProofs --------------------------
(***************************************************************************)
(* Theorems about OntStatus for any number of ONTs, tiers, traps, watches  *)
(* and failures.                                                           *)
(***************************************************************************)
EXTENDS OntStatus, FiniteSetTheorems, TLAPS

\* Whole seconds: less than a second is cut off.
LEMMA WholeIs ==
  ASSUME NEW d \in Int
  PROVE  Whole(d) \in Int /\ Second * Whole(d) <= d /\ d < Second * Whole(d) + Second
BY ParametersAssumption DEF Whole

(* The shape of the state, variable by variable.                           *)
MemoryOK ==
  /\ pc \in [Writers -> {"idle", "page", "status", "now", "log"}]
  /\ verdict \in [Writers -> [ONTs -> Verdicts]]
  /\ left \in [Writers -> SUBSET ONTs]
  /\ seen \in [Writers -> [ONTs -> Nat]]
  /\ at \in [Writers -> 0..clock]
HistoryOK ==
  /\ clock \in Nat /\ events \in [ONTs -> Seq(EventRow)]
  /\ \A w \in Writers, o \in ONTs : seen[w][o] <= Len(events[o])
ChassisOK ==
  /\ phase \in [ONTs -> Phases] /\ been \in [ONTs -> SUBSET Phases]
  /\ traps \subseteq [ont : ONTs, status : {"online", "offline"}]
WatchOK == watch \in [ONTs -> [windows : 0..2, kept : Verdicts]]

\* Who is about to write has something to write, and a time for it.
Ready(w) ==
  /\ pc[w] = "log" => at[w] >= 1
  /\ pc[w] \in {"idle", "page"} => left[w] = {}
  /\ \A o \in left[w] : verdict[w][o] \in Statuses
AllReady == \A w \in Writers : Ready(w)
Shape == MemoryOK /\ HistoryOK /\ ChassisOK /\ WatchOK /\ row \in [ONTs -> Statuses] /\ AllReady

LEMMA ShapeIsType == Shape => TypeOK
BY DEF Shape, MemoryOK, HistoryOK, ChassisOK, WatchOK, TypeOK

LEMMA Sets ==
  /\ "online" \in Statuses /\ "offline" \in Statuses /\ "none" \in Verdicts
  /\ Statuses \subseteq Verdicts /\ "trapd" \in Writers /\ Tiers \subseteq Writers
  /\ Statuses \subseteq Phases
BY ParametersAssumption DEF Statuses, Verdicts, Writers, Phases

(* A call ends.                                                            *)
LEMMA ReturnMoves ==
  ASSUME Shape, NEW w \in Writers, Return(w), UNCHANGED clock
  PROVE  /\ MemoryOK' /\ AllReady'
         /\ \A v \in Writers \ {w} : verdict'[v] = verdict[v] /\ seen'[v] = seen[v]
         /\ verdict'[w] = [o \in ONTs |-> "none"] /\ seen'[w] = [o \in ONTs |-> 0]
<1>1. [o \in ONTs |-> "none"] \in [ONTs -> Verdicts] /\ [o \in ONTs |-> 0] \in [ONTs -> Nat]
  BY Sets
<1>2. /\ pc' = [pc EXCEPT ![w] = "idle"] /\ left' = [left EXCEPT ![w] = {}]
      /\ at' = [at EXCEPT ![w] = 0]
      /\ verdict' = [verdict EXCEPT ![w] = [o \in ONTs |-> "none"]]
      /\ seen' = [seen EXCEPT ![w] = [o \in ONTs |-> 0]]
  BY DEF Return
<1>3. /\ pc' \in [Writers -> {"idle", "page", "status", "now", "log"}]
      /\ left' \in [Writers -> SUBSET ONTs] /\ at' \in [Writers -> 0..clock]
  BY <1>2 DEF Shape, MemoryOK, HistoryOK
<1>4. verdict' \in [Writers -> [ONTs -> Verdicts]] /\ seen' \in [Writers -> [ONTs -> Nat]]
  BY <1>1, <1>2 DEF Shape, MemoryOK
<1>5. AllReady'
  BY <1>2 DEF Shape, AllReady, Ready, MemoryOK
<1>6. /\ \A v \in Writers \ {w} : verdict'[v] = verdict[v] /\ seen'[v] = seen[v]
      /\ verdict'[w] = [o \in ONTs |-> "none"] /\ seen'[w] = [o \in ONTs |-> 0]
  BY <1>2 DEF Shape, MemoryOK
<1>. QED
  BY <1>3, <1>4, <1>5, <1>6 DEF MemoryOK

\* Nothing was added to the history, and nobody has read more of it.
LEMMA HistoryStays ==
  ASSUME Shape, UNCHANGED <<events, clock>>,
         \A w \in Writers, o \in ONTs : seen'[w][o] \in {seen[w][o], 0, Len(events[o])}
  PROVE  HistoryOK'
<1>1. \A o \in ONTs : Len(events[o]) \in Nat
  BY DEF Shape, HistoryOK
<1>2. EventRow' = EventRow
  BY DEF EventRow
<1>. QED
  BY <1>1, <1>2 DEF Shape, HistoryOK

LEMMA ReturnKeepsHistory ==
  ASSUME Shape, NEW w \in Writers, Return(w), UNCHANGED <<events, clock>>
  PROVE  HistoryOK'
<1>1. \A v \in Writers, o \in ONTs : seen'[v][o] \in {seen[v][o], 0}
  BY ReturnMoves
<1>. QED
  BY <1>1, HistoryStays

-----------------------------------------------------------------------------
(* Action by action.                                                       *)

LEMMA FlipShape ==
  ASSUME Shape, NEW o \in ONTs, NEW p \in Phases, NEW heard \in BOOLEAN, Flip(o, p, heard)
  PROVE  Shape'
<1>1. ChassisOK'
  BY DEF Flip, Shape, ChassisOK
<1>2. MemoryOK' /\ AllReady' /\ WatchOK' /\ row' \in [ONTs -> Statuses]
  BY DEF Flip, memory, Shape, MemoryOK, AllReady, Ready, WatchOK
<1>3. HistoryOK'
  BY HistoryStays DEF Flip, memory
<1>. QED
  BY <1>1, <1>2, <1>3 DEF Shape

LEMMA CycleShape ==
  ASSUME Shape, NEW t \in Tiers, Cycle(t), ~Log(t)
  PROVE  Shape'
<1>w. t \in Writers
  BY Sets
<1>h. UNCHANGED <<events, clock, seen, at>> => HistoryOK'
  BY HistoryStays
<1>1. ASSUME NEW ok \in BOOLEAN, NEW reported \in SUBSET ONTs, NEW lit, readChassis(t, ok, reported, lit)
      PROVE  Shape'
  <2>1. \A o \in ONTs : determineOntStatus(o, ok, reported, lit) \in Verdicts
    BY Sets DEF determineOntStatus
  <2>2. MemoryOK'
    BY <1>1, <1>w, <2>1 DEF readChassis, Shape, MemoryOK
  <2>3. AllReady'
    BY <1>1, <1>w DEF readChassis, Shape, AllReady, Ready, MemoryOK
  <2>. QED
    BY <1>1, <1>h, <2>2, <2>3 DEF readChassis, chassis, Shape, ChassisOK, WatchOK
<1>2. CASE EachONTOfOLT(t)
  <2>1. MemoryOK'
    BY <1>2, <1>w DEF EachONTOfOLT, Shape, MemoryOK
  <2>2. AllReady'
    BY <1>2, <1>w DEF EachONTOfOLT, Shape, AllReady, Ready, MemoryOK, Verdicts
  <2>. QED
    BY <1>2, <1>h, <2>1, <2>2 DEF EachONTOfOLT, chassis, Shape, ChassisOK, WatchOK
<1>3. ASSUME NEW o \in ONTs, NEW ok \in BOOLEAN, handleStatusChange(t, o, ok)
      PROVE  Shape'
  <2>1. MemoryOK'
    BY <1>3, <1>w DEF handleStatusChange, Shape, MemoryOK
  <2>2. AllReady'
    BY <1>3, <1>w DEF handleStatusChange, Shape, AllReady, Ready, MemoryOK
  <2>3. row' \in [ONTs -> Statuses]
    BY <1>3, <1>w DEF handleStatusChange, Shape, AllReady, Ready
  <2>. QED
    BY <1>3, <1>h, <2>1, <2>2, <2>3 DEF handleStatusChange, chassis, Shape, ChassisOK, WatchOK
<1>. QED
  BY <1>1, <1>2, <1>3 DEF Cycle

LEMMA TrapShape ==
  ASSUME Shape,
         \/ \E m \in traps, again \in BOOLEAN : TrapArrives(m, again)
         \/ \E o \in ONTs : ApplyTrap(o)
  PROVE  Shape'
<1>h. UNCHANGED <<events, clock, seen, at>> => HistoryOK'
  BY HistoryStays
<1>1. ASSUME NEW m \in traps, NEW again \in BOOLEAN, TrapArrives(m, again)
      PROVE  Shape'
  <2>1. m.ont \in ONTs /\ m.status \in Statuses /\ m.status \in Verdicts
    BY Sets DEF Shape, ChassisOK
  <2>2. /\ traps' \subseteq traps /\ pc["trapd"] = "idle"
        /\ UNCHANGED <<phase, been, row, events, clock, seen, at, watch>>
    BY <1>1 DEF TrapArrives
  <2>3. CASE UNCHANGED <<pc, verdict, left>>
    BY <2>2, <2>3, <1>h DEF Shape, MemoryOK, ChassisOK, WatchOK, AllReady, Ready
  <2>4. CASE /\ pc' = [pc EXCEPT !["trapd"] = "status"]
             /\ verdict' = [verdict EXCEPT !["trapd"][m.ont] = m.status]
             /\ left' = [left EXCEPT !["trapd"] = {m.ont}]
    <3>1. MemoryOK'
      BY <2>1, <2>2, <2>4, Sets DEF Shape, MemoryOK
    <3>2. AllReady'
      BY <2>1, <2>2, <2>4, Sets DEF Shape, MemoryOK, AllReady, Ready
    <3>. QED
      BY <2>2, <3>1, <3>2, <1>h DEF Shape, ChassisOK, WatchOK
  <2>. QED
    BY <1>1, <2>3, <2>4 DEF TrapArrives
<1>2. ASSUME NEW o \in ONTs, ApplyTrap(o)
      PROVE  Shape'
  <2>1. MemoryOK'
    BY <1>2, Sets DEF ApplyTrap, Shape, MemoryOK
  <2>2. AllReady'
    BY <1>2, Sets DEF ApplyTrap, Shape, AllReady, Ready, MemoryOK
  <2>3. row' \in [ONTs -> Statuses]
    BY <1>2, Sets DEF ApplyTrap, Shape, AllReady, Ready
  <2>. QED
    BY <1>2, <1>h, <2>1, <2>2, <2>3 DEF ApplyTrap, chassis, Shape, ChassisOK, WatchOK
<1>. QED
  BY <1>1, <1>2

LEMMA FailShape ==
  ASSUME Shape, NEW w \in Writers, Return(w), UNCHANGED <<chassis, row, events, clock, watch>>
  PROVE  Shape'
BY ReturnMoves, ReturnKeepsHistory DEF Shape, chassis, ChassisOK, WatchOK

LEMMA LogShape ==
  ASSUME Shape, NEW w \in Writers, Log(w)
  PROVE  Shape'
<1>1. CASE latestEventPerONT(w)
  <2> DEFINE n == [o \in ONTs |-> Len(events[o])]
  <2>1. n \in [ONTs -> Nat]
    BY DEF Shape, HistoryOK
  <2>2. CASE Return(w)
    BY <1>1, <2>2, FailShape DEF latestEventPerONT
  <2>3. CASE seen' = [seen EXCEPT ![w] = n] /\ pc' = [pc EXCEPT ![w] = "now"] /\ UNCHANGED <<verdict, left, at>>
    <3>0. pc[w] = "status" /\ UNCHANGED <<chassis, row, events, clock, watch>>
      BY <1>1 DEF latestEventPerONT
    <3>1. MemoryOK'
      BY <2>1, <2>3, <3>0 DEF Shape, MemoryOK
    <3>2. AllReady'
      BY <2>3, <3>0 DEF Shape, MemoryOK, AllReady, Ready
    <3>3. HistoryOK'
      BY <2>3, <3>0, HistoryStays DEF Shape, MemoryOK
    <3>. QED
      BY <3>0, <3>1, <3>2, <3>3 DEF chassis, Shape, ChassisOK, WatchOK
  <2>. QED
    BY <1>1, <2>2, <2>3 DEF latestEventPerONT
<1>2. CASE Now(w)
  <2>0. PICK pause \in 1..MaxPause : clock' = clock + pause
    BY <1>2 DEF Now
  <2>1. /\ at' = [at EXCEPT ![w] = clock'] /\ pc' = [pc EXCEPT ![w] = "log"]
        /\ left' = [left EXCEPT ![w] = {o \in Opened(w) : seen[w][o] > 0}]
        /\ UNCHANGED <<chassis, row, events, verdict, seen, watch>>
    BY <1>2 DEF Now
  <2>2. \A o \in Opened(w) : o \in ONTs /\ verdict[w][o] \in Statuses
    BY DEF Opened, NewsAsOf, Shape, MemoryOK, Verdicts
  <2>3. clock \in Nat /\ clock' \in Nat /\ 1 <= clock' /\ clock <= clock' /\ at' \in [Writers -> 0..clock']
    <3>1. clock \in Nat /\ clock' \in Nat /\ clock < clock'
      BY <2>0, ParametersAssumption DEF Shape, HistoryOK
    <3>2. 0..clock \subseteq 0..clock' /\ clock' \in 0..clock'
      BY <3>1
    <3>. QED
      BY <2>1, <3>1, <3>2 DEF Shape, MemoryOK
  <2>4. MemoryOK'
    BY <2>1, <2>2, <2>3 DEF Shape, MemoryOK
  <2>5. AllReady'
    BY <2>1, <2>2, <2>3 DEF Shape, MemoryOK, AllReady, Ready
  <2>6. EventRow \subseteq EventRow'
    <3>1. 1..clock \subseteq 1..clock'
      BY <2>3
    <3>. QED
      BY <3>1 DEF EventRow
  <2>7. HistoryOK'
    BY <2>1, <2>3, <2>6 DEF Shape, HistoryOK
  <2>. QED
    BY <2>1, <2>4, <2>5, <2>7 DEF chassis, Shape, ChassisOK, WatchOK
<1>3. CASE OpenEvents(w)
  <2>1. /\ events' = [o \in ONTs |-> IF o \in Opened(w) THEN Append(events[o], Event(w, o)) ELSE events[o]]
        /\ Return(w) /\ pc[w] = "log" /\ UNCHANGED <<chassis, row, clock, watch>>
    BY <1>3 DEF OpenEvents
  <2>2. at[w] \in 1..clock /\ clock \in Nat
    BY <2>1 DEF Shape, AllReady, Ready, MemoryOK, HistoryOK
  <2>3. \A o \in ONTs : Event(w, o) \in EventRow
    BY <2>2 DEF Event, EventRow, Kind, Raced, Running
  <2>4. EventRow' = EventRow
    BY <2>1 DEF EventRow
  <2>5. events' \in [ONTs -> Seq(EventRow)] /\ \A o \in ONTs : Len(events'[o]) >= Len(events[o])
    BY <2>1, <2>3 DEF Shape, HistoryOK
  <2>6. MemoryOK' /\ AllReady' /\ \A v \in Writers, o \in ONTs : seen'[v][o] \in {seen[v][o], 0}
    BY <2>1, ReturnMoves
  <2>7. ASSUME NEW v \in Writers, NEW o \in ONTs
        PROVE  seen'[v][o] <= Len(events'[o])
    <3>1. Len(events[o]) \in Nat /\ Len(events'[o]) \in Nat /\ seen[v][o] <= Len(events[o]) /\ seen[v][o] \in Nat
      BY <2>5 DEF Shape, HistoryOK, MemoryOK
    <3>2. Len(events'[o]) >= Len(events[o])
      BY <2>5
    <3>3. seen'[v][o] = seen[v][o] \/ seen'[v][o] = 0
      BY <2>6
    <3>. QED
      BY <3>1, <3>2, <3>3
  <2>8. HistoryOK'
    BY <2>1, <2>4, <2>5, <2>7 DEF Shape, HistoryOK
  <2>. QED
    BY <2>1, <2>6, <2>8 DEF chassis, Shape, ChassisOK, WatchOK
<1>4. ASSUME NEW o \in ONTs, closeEvent(w, o)
      PROVE  Shape'
  <2> DEFINE i == Newest(o, seen[w][o])
             r == [[events[o][i] EXCEPT !.lasted = Whole(at[w] - events[o][i].time)] EXCEPT !.raced = events[o][i].raced \/ Raced(w, o)]
  <2>1. events' = [events EXCEPT ![o] = [events[o] EXCEPT ![i] = r]]
    BY <1>4 DEF closeEvent, Shape, HistoryOK
  <2>2. /\ left' = [left EXCEPT ![w] = @ \ {o}] /\ UNCHANGED <<chassis, row, clock, pc, verdict, seen, at, watch>>
    BY <1>4 DEF closeEvent
  <2>3. at[w] \in 0..clock /\ EventRow' = EventRow
    BY <2>2 DEF Shape, MemoryOK, EventRow
  <2>4. i \in 1..Len(events[o]) => r \in EventRow
    <3>. SUFFICES ASSUME i \in 1..Len(events[o]) PROVE r \in EventRow
      OBVIOUS
    <3>1. events[o][i] \in EventRow
      BY DEF Shape, HistoryOK
    <3>2. Raced(w, o) \in BOOLEAN
      BY DEF Raced
    <3>3. Whole(at[w] - events[o][i].time) \in Int
      <4>1. at[w] \in Int /\ events[o][i].time \in Int
        BY <2>3, <3>1 DEF EventRow, Shape, HistoryOK
      <4>2. at[w] - events[o][i].time \in Int
        BY <4>1
      <4>. QED
        BY <4>2, WholeIs
    <3>. HIDE DEF i
    <3>. QED
      BY <2>3, <3>1, <3>2, <3>3 DEF EventRow
  <2>5. [events[o] EXCEPT ![i] = r] \in Seq(EventRow) /\ Len([events[o] EXCEPT ![i] = r]) = Len(events[o])
    <3>1. events[o] \in Seq(EventRow)
      BY DEF Shape, HistoryOK
    <3>. HIDE DEF i, r
    <3>2. CASE i \in 1..Len(events[o])
      BY <2>4, <3>1, <3>2
    <3>3. CASE i \notin 1..Len(events[o])
      <4>1. DOMAIN events[o] = 1..Len(events[o])
        BY <3>1
      <4>2. events[o] = [x \in 1..Len(events[o]) |-> events[o][x]]
        BY <3>1
      <4>3. [events[o] EXCEPT ![i] = r] = [x \in 1..Len(events[o]) |-> events[o][x]]
        BY <3>3, <4>1
      <4>. QED
        BY <3>1, <4>2, <4>3
    <3>. QED
      BY <3>2, <3>3
  <2>. HIDE DEF i, r
  <2>6. events' \in [ONTs -> Seq(EventRow)] /\ \A x \in ONTs : Len(events'[x]) = Len(events[x])
    BY <2>1, <2>5 DEF Shape, HistoryOK
  <2>7. HistoryOK'
    BY <2>2, <2>3, <2>6 DEF Shape, HistoryOK
  <2>8. MemoryOK' /\ AllReady'
    BY <2>2 DEF Shape, MemoryOK, AllReady, Ready
  <2>. QED
    BY <2>2, <2>7, <2>8 DEF chassis, Shape, ChassisOK, WatchOK
<1>. QED
  BY <1>1, <1>2, <1>3, <1>4 DEF Log

LEMMA WatchShape ==
  ASSUME Shape, NEW o \in ONTs,
         settleONUStatus(o) \/ Look(o) \/ storeSettledONUStatus(o) \/ WatchFails(o)
  PROVE  Shape'
<1>h. UNCHANGED <<events, clock, memory>>
  BY DEF settleONUStatus, Look, storeSettledONUStatus, WatchFails
<1>1. MemoryOK' /\ AllReady'
  BY <1>h DEF memory, Shape, MemoryOK, AllReady, Ready
<1>2. HistoryOK'
  BY <1>h, HistoryStays DEF memory
<1>3. ChassisOK'
  BY DEF settleONUStatus, Look, storeSettledONUStatus, WatchFails, chassis, Shape, ChassisOK
<1>4. NoWatch \in [windows : 0..2, kept : Verdicts]
  BY Sets DEF NoWatch
<1>5. watch[o] \in [windows : 0..2, kept : Verdicts]
  BY DEF Shape, WatchOK
<1>6. CASE settleONUStatus(o)
  BY <1>1, <1>2, <1>3, <1>5, <1>6 DEF settleONUStatus, Shape, WatchOK
<1>7. CASE Look(o)
  BY <1>1, <1>2, <1>3, <1>5, <1>7, Sets DEF Look, Shape, WatchOK
<1>8. CASE storeSettledONUStatus(o)
  <2>1. row' \in [ONTs -> Statuses]
    BY <1>5, <1>8 DEF storeSettledONUStatus, Shape, Verdicts
  <2>2. [NoWatch EXCEPT !.windows = watch[o].windows - 1] \in [windows : 0..2, kept : Verdicts]
    BY <1>4, <1>5, <1>8 DEF storeSettledONUStatus
  <2>3. WatchOK'
    BY <1>4, <1>8, <2>2 DEF storeSettledONUStatus, Shape, WatchOK
  <2>. QED
    BY <1>1, <1>2, <1>3, <2>1, <2>3 DEF Shape
<1>9. CASE WatchFails(o)
  BY <1>1, <1>2, <1>3, <1>4, <1>9 DEF WatchFails, Shape, WatchOK
<1>. QED
  BY <1>6, <1>7, <1>8, <1>9

LEMMA InitShape == Init => Shape
<1>. SUFFICES ASSUME Init PROVE Shape
  OBVIOUS
<1>1. [o \in ONTs |-> "none"] \in [ONTs -> Verdicts] /\ [o \in ONTs |-> 0] \in [ONTs -> Nat]
  BY Sets
<1>2. MemoryOK /\ AllReady
  BY <1>1 DEF Init, MemoryOK, AllReady, Ready
<1>3. HistoryOK
  BY DEF Init, HistoryOK
<1>4. ChassisOK /\ row \in [ONTs -> Statuses]
  BY Sets DEF Init, ChassisOK
<1>5. WatchOK
  BY Sets DEF Init, WatchOK, NoWatch
<1>. QED
  BY <1>2, <1>3, <1>4, <1>5 DEF Shape

LEMMA NextShape == Shape /\ [Next]_vars => Shape'
<1>. SUFFICES ASSUME Shape, [Next]_vars PROVE Shape'
  OBVIOUS
<1>1. CASE UNCHANGED vars
  <2>1. HistoryOK'
    BY <1>1, HistoryStays DEF vars
  <2>. QED
    BY <1>1, <2>1 DEF vars, Shape, MemoryOK, ChassisOK, WatchOK, AllReady, Ready
<1>2. ASSUME NEW w \in Writers, Fails(w)
      PROVE  Shape'
  BY <1>2, FailShape DEF Fails
<1>3. ASSUME NEW t \in Tiers, Cycle(t)
      PROVE  Shape'
  BY <1>3, CycleShape, LogShape, Sets
<1>4. CASE Trapd
  BY <1>4, TrapShape, LogShape, Sets DEF Trapd
<1>. QED
  BY <1>1, <1>2, <1>3, <1>4, FlipShape, TrapShape, WatchShape DEF Next

(* The shape of the state, for any number of writers and ONTs.             *)
THEOREM TypeCorrect == Spec => []TypeOK
BY InitShape, NextShape, ShapeIsType, PTL DEF Spec

-----------------------------------------------------------------------------
(* Evidence.  Whatever anybody has in hand that says down goes back to a   *)
(* moment when the ONU was.                                                *)

BeenDown(o) == been[o] \cap Down # {}
MaySay(o) == been[o] \cup (IF BeenDown(o) THEN {"offline"} ELSE {})
Evidence ==
  /\ \A o \in ONTs : /\ phase[o] \in been[o] /\ "online" \in been[o] /\ row[o] \in MaySay(o)
                     /\ watch[o].kept \in been[o] \cup {"none"}
                     /\ \A i \in 1..Len(events[o]) : events[o][i].type = "offline" => BeenDown(o)
  /\ \A m \in traps : m.status \in MaySay(m.ont)
  /\ \A w \in Writers, o \in ONTs : verdict[w][o] \in MaySay(o) \cup {"none"}
Inv == Shape /\ Evidence

LEMMA DownIsEvidence ==
  ASSUME NEW o \in ONTs, NEW s \in Statuses, s \in MaySay(o), Kind(s) = "offline"
  PROVE  BeenDown(o)
BY DEF Kind, MaySay, BeenDown, Statuses

\* What is said of the chassis stays true of its past.
LEMMA FlipEvidence ==
  ASSUME Inv, NEW o \in ONTs, NEW p \in Phases, NEW heard \in BOOLEAN, Flip(o, p, heard)
  PROVE  Evidence'
<1>1. /\ phase' = [phase EXCEPT ![o] = p] /\ been' = [been EXCEPT ![o] = @ \cup {p}]
      /\ traps' \subseteq traps \cup (IF p = "ranging" THEN {} ELSE
                {[ont |-> o, status |-> IF p = "online" THEN p ELSE "offline"]})
      /\ UNCHANGED <<row, events, verdict, watch>>
  BY DEF Flip, memory
<1>2. \A x \in ONTs : /\ been[x] \subseteq been'[x] /\ phase'[x] \in been'[x]
                      /\ (BeenDown(x) => BeenDown(x)') /\ MaySay(x) \subseteq MaySay(x)'
  BY <1>1 DEF Inv, Shape, ChassisOK, Evidence, BeenDown, MaySay
<1>3. p # "ranging" => (IF p = "online" THEN p ELSE "offline") \in MaySay(o)'
  BY <1>1 DEF Inv, Shape, ChassisOK, BeenDown, MaySay, Phases, Statuses
<1>4. ASSUME NEW m \in traps'
      PROVE  m.status \in MaySay(m.ont)'
  <2>1. CASE m \in traps
    BY <1>2, <2>1 DEF Inv, Evidence, Shape, ChassisOK
  <2>2. CASE m \notin traps
    BY <1>1, <1>3, <2>2
  <2>. QED
    BY <2>1, <2>2
<1>5. \A x \in ONTs : /\ "online" \in been'[x] /\ row'[x] \in MaySay(x)'
                      /\ watch'[x].kept \in been'[x] \cup {"none"}
                      /\ \A i \in 1..Len(events'[x]) : events'[x][i].type = "offline" => BeenDown(x)'
  BY <1>1, <1>2 DEF Inv, Evidence
<1>6. \A w \in Writers, x \in ONTs : verdict'[w][x] \in MaySay(x)' \cup {"none"}
  BY <1>1, <1>2 DEF Inv, Evidence
<1>. QED
  BY <1>2, <1>4, <1>5, <1>6 DEF Evidence

\* A step off the chassis: what it changes is still evidence.
LEMMA StillEvidence ==
  ASSUME Inv, UNCHANGED <<phase, been>>, traps' \subseteq traps,
         \A o \in ONTs : /\ row'[o] \in MaySay(o) /\ watch'[o].kept \in been[o] \cup {"none"}
                         /\ \A i \in 1..Len(events'[o]) : events'[o][i].type = "offline" => BeenDown(o),
         \A w \in Writers, o \in ONTs : verdict'[w][o] \in MaySay(o) \cup {"none"}
  PROVE  Evidence'
<1>1. \A o : (BeenDown(o) <=> BeenDown(o)') /\ MaySay(o) = MaySay(o)'
  BY DEF BeenDown, MaySay
<1>. QED
  BY <1>1 DEF Inv, Evidence

LEMMA CycleEvidence ==
  ASSUME Inv, NEW t \in Tiers, Cycle(t), ~Log(t)
  PROVE  Evidence'
<1>w. t \in Writers
  BY Sets
<1>1. ASSUME NEW ok \in BOOLEAN, NEW reported \in SUBSET ONTs, NEW lit, readChassis(t, ok, reported, lit)
      PROVE  Evidence'
  <2>1. \A o \in ONTs : determineOntStatus(o, ok, reported, lit) \in MaySay(o) \cup {"none"}
    BY DEF determineOntStatus, Inv, Evidence, MaySay
  <2>2. \A w \in Writers, o \in ONTs : verdict'[w][o] \in MaySay(o) \cup {"none"}
    BY <1>1, <2>1 DEF readChassis, Inv, Evidence, Shape, MemoryOK
  <2>. QED
    BY <1>1, <2>2, StillEvidence DEF readChassis, chassis, Inv, Evidence
<1>2. CASE EachONTOfOLT(t)
  BY <1>2, StillEvidence DEF EachONTOfOLT, chassis, Inv, Evidence
<1>3. ASSUME NEW o \in ONTs, NEW ok \in BOOLEAN, handleStatusChange(t, o, ok)
      PROVE  Evidence'
  <2>1. verdict[t][o] \in Statuses /\ "none" \notin Statuses
    BY <1>3, <1>w, ParametersAssumption DEF handleStatusChange, Inv, Shape, AllReady, Ready, Statuses
  <2>2. verdict[t][o] \in MaySay(o)
    BY <1>w, <2>1 DEF Inv, Evidence
  <2>3. \A x \in ONTs : row'[x] \in MaySay(x)
    BY <1>3, <2>2 DEF handleStatusChange, Inv, Evidence, Shape
  <2>. QED
    BY <1>3, <2>3, StillEvidence DEF handleStatusChange, chassis, Inv, Evidence
<1>. QED
  BY <1>1, <1>2, <1>3 DEF Cycle

LEMMA TrapEvidence ==
  ASSUME Inv,
         \/ \E m \in traps, again \in BOOLEAN : TrapArrives(m, again)
         \/ \E o \in ONTs : ApplyTrap(o)
  PROVE  Evidence'
<1>1. ASSUME NEW m \in traps, NEW again \in BOOLEAN, TrapArrives(m, again)
      PROVE  Evidence'
  <2>1. m.ont \in ONTs /\ m.status \in MaySay(m.ont)
    BY DEF Inv, Shape, ChassisOK, Evidence
  <2>2. traps' \subseteq traps /\ UNCHANGED <<phase, been, row, events, watch>>
    BY <1>1 DEF TrapArrives
  <2>3. verdict' = verdict \/ verdict' = [verdict EXCEPT !["trapd"][m.ont] = m.status]
    BY <1>1 DEF TrapArrives
  <2>4. ASSUME NEW w \in Writers, NEW o \in ONTs
        PROVE  verdict'[w][o] \in MaySay(o) \cup {"none"}
    <3>1. verdict \in [Writers -> [ONTs -> Verdicts]] /\ verdict[w][o] \in MaySay(o) \cup {"none"}
      BY DEF Inv, Evidence, Shape, MemoryOK
    <3>2. verdict'[w][o] = verdict[w][o] \/ (o = m.ont /\ verdict'[w][o] = m.status)
      BY <2>3, <3>1
    <3>. QED
      BY <2>1, <3>1, <3>2
  <2>. QED
    BY <2>2, <2>4, StillEvidence DEF Inv, Evidence
<1>2. ASSUME NEW o \in ONTs, ApplyTrap(o)
      PROVE  Evidence'
  <2>1. verdict["trapd"][o] \in Statuses /\ "none" \notin Statuses
    BY <1>2, Sets, ParametersAssumption DEF ApplyTrap, Inv, Shape, AllReady, Ready, Statuses
  <2>2. verdict["trapd"][o] \in MaySay(o)
    BY <2>1, Sets DEF Inv, Evidence
  <2>3. \A x \in ONTs : row'[x] \in MaySay(x)
    BY <1>2, <2>2 DEF ApplyTrap, Inv, Evidence, Shape
  <2>. QED
    BY <1>2, <2>3, StillEvidence DEF ApplyTrap, chassis, Inv, Evidence
<1>. QED
  BY <1>1, <1>2

LEMMA ReturnEvidence ==
  ASSUME Inv, NEW w \in Writers, Return(w), UNCHANGED <<chassis, row, clock, watch>>,
         \A o \in ONTs : \A i \in 1..Len(events'[o]) : events'[o][i].type = "offline" => BeenDown(o)
  PROVE  Evidence'
<1>1. \A v \in Writers, o \in ONTs : verdict'[v][o] \in {verdict[v][o], "none"}
  BY ReturnMoves DEF Inv
<1>. QED
  BY <1>1, StillEvidence DEF chassis, Inv, Evidence

LEMMA LogEvidence ==
  ASSUME Inv, NEW w \in Writers, Log(w)
  PROVE  Evidence'
<1>e. \A o \in ONTs : \A i \in 1..Len(events[o]) : events[o][i].type = "offline" => BeenDown(o)
  BY DEF Inv, Evidence
<1>1. CASE latestEventPerONT(w)
  <2>1. CASE Return(w)
    BY <1>1, <1>e, <2>1, ReturnEvidence DEF latestEventPerONT
  <2>2. CASE UNCHANGED verdict
    BY <1>1, <2>2, StillEvidence DEF latestEventPerONT, chassis, Inv, Evidence
  <2>. QED
    BY <1>1, <2>1, <2>2 DEF latestEventPerONT
<1>2. CASE Now(w)
  BY <1>2, StillEvidence DEF Now, chassis, Inv, Evidence
<1>3. CASE OpenEvents(w)
  <2>1. /\ events' = [o \in ONTs |-> IF o \in Opened(w) THEN Append(events[o], Event(w, o)) ELSE events[o]]
        /\ Return(w) /\ UNCHANGED <<chassis, row, clock, watch>>
    BY <1>3 DEF OpenEvents
  <2>2. ASSUME NEW o \in Opened(w), Event(w, o).type = "offline"
        PROVE  BeenDown(o)
    <3>1. o \in ONTs /\ verdict[w][o] # "none" /\ verdict[w][o] \in Statuses
      BY DEF Opened, NewsAsOf, Inv, Shape, MemoryOK, Verdicts
    <3>2. Kind(verdict[w][o]) = "offline" /\ verdict[w][o] \in MaySay(o)
      BY <2>2, <3>1 DEF Event, Inv, Evidence
    <3>. QED
      BY <3>1, <3>2, DownIsEvidence
  <2>3. ASSUME NEW o \in ONTs, NEW i \in 1..Len(events'[o]), events'[o][i].type = "offline"
        PROVE  BeenDown(o)
    <3>0. events[o] \in Seq(EventRow)
      BY DEF Inv, Shape, HistoryOK
    <3>1. CASE o \in Opened(w)
      <4>1. events'[o] = Append(events[o], Event(w, o))
        BY <2>1, <3>1
      <4>2. CASE i \in 1..Len(events[o])
        <5>1. events'[o][i] = events[o][i]
          BY <3>0, <4>1, <4>2
        <5>. QED
          BY <1>e, <2>3, <4>2, <5>1
      <4>3. CASE i \notin 1..Len(events[o])
        <5>1. i = Len(events[o]) + 1
          BY <3>0, <4>1, <4>3
        <5>2. events'[o][i] = Event(w, o)
          BY <3>0, <4>1, <5>1
        <5>. QED
          BY <2>2, <2>3, <3>1, <5>2
      <4>. QED
        BY <4>2, <4>3
    <3>2. CASE o \notin Opened(w)
      BY <1>e, <2>1, <2>3, <3>2
    <3>. QED
      BY <3>1, <3>2
  <2>. QED
    BY <2>1, <2>3, ReturnEvidence
<1>4. ASSUME NEW o \in ONTs, closeEvent(w, o)
      PROVE  Evidence'
  <2> DEFINE i == Newest(o, seen[w][o])
             r == [[events[o][i] EXCEPT !.lasted = Whole(at[w] - events[o][i].time)] EXCEPT !.raced = events[o][i].raced \/ Raced(w, o)]
  <2>1. events' = [events EXCEPT ![o] = [events[o] EXCEPT ![i] = r]]
    BY <1>4 DEF closeEvent, Inv, Shape, HistoryOK
  <2>2. events \in [ONTs -> Seq(EventRow)]
    BY DEF Inv, Shape, HistoryOK
  <2>3. i \in 1..Len(events[o]) => r.type = events[o][i].type
    <3>. SUFFICES ASSUME i \in 1..Len(events[o]) PROVE r.type = events[o][i].type
      OBVIOUS
    <3>1. events[o][i] \in EventRow
      BY <2>2
    <3>. HIDE DEF i
    <3>. QED
      BY <3>1 DEF EventRow
  <2>. HIDE DEF i, r
  <2>4. ASSUME NEW x \in ONTs
        PROVE  Len(events'[x]) = Len(events[x]) /\ \A j \in 1..Len(events[x]) : events'[x][j].type = events[x][j].type
    <3>1. CASE x = o
      <4>1. events'[x] = [events[o] EXCEPT ![i] = r] /\ DOMAIN events[o] = 1..Len(events[o]) /\ Len(events[o]) \in Nat
        BY <2>1, <2>2, <3>1
      <4>2. DOMAIN events'[x] = 1..Len(events[o]) /\ \A j \in 1..Len(events[o]) : events'[x][j] = IF j = i THEN r ELSE events[o][j]
        BY <4>1
      <4>3. Len(events'[x]) = Len(events[o])
        BY <4>1, <4>2
      <4>. QED
        BY <2>3, <3>1, <4>2, <4>3
    <3>2. CASE x # o
      BY <2>1, <2>2, <3>2
    <3>. QED
      BY <3>1, <3>2
  <2>5. \A x \in ONTs : \A j \in 1..Len(events'[x]) : events'[x][j].type = "offline" => BeenDown(x)
    BY <1>e, <2>4
  <2>6. UNCHANGED <<chassis, row, verdict, watch>>
    BY <1>4 DEF closeEvent
  <2>. QED
    BY <2>5, <2>6, StillEvidence DEF chassis, Inv, Evidence
<1>. QED
  BY <1>1, <1>2, <1>3, <1>4 DEF Log

LEMMA WatchEvidence ==
  ASSUME Inv, NEW o \in ONTs,
         settleONUStatus(o) \/ Look(o) \/ storeSettledONUStatus(o) \/ WatchFails(o)
  PROVE  Evidence'
<1>h. UNCHANGED <<chassis, events, verdict>>
  BY DEF settleONUStatus, Look, storeSettledONUStatus, WatchFails, memory
<1>t. watch \in [ONTs -> [windows : 0..2, kept : Verdicts]]
  BY DEF Inv, Shape, WatchOK
<1>1. \A x \in ONTs : watch'[x].kept \in {watch[x].kept, phase[x], "none"}
  BY <1>t DEF settleONUStatus, Look, storeSettledONUStatus, WatchFails, NoWatch
<1>2. \A x \in ONTs : row'[x] = row[x] \/ (row'[x] = watch[x].kept /\ watch[x].kept # "none")
  BY DEF settleONUStatus, Look, storeSettledONUStatus, WatchFails, Inv, Shape
<1>3. \A x \in ONTs : row'[x] \in MaySay(x) /\ watch'[x].kept \in been[x] \cup {"none"}
  BY <1>1, <1>2 DEF Inv, Evidence, MaySay
<1>. QED
  BY <1>h, <1>3, StillEvidence DEF chassis, Inv, Evidence

(* No outage is made up: by any number of tiers, traps and watches, their  *)
(* walks and statements failing wherever they like.                        *)
THEOREM NoOutageIsMadeUp == Spec => []OutagesHappened
<1>1. Init => Inv
  <2>. SUFFICES ASSUME Init PROVE Inv
    OBVIOUS
  <2>1. Evidence
    BY DEF Init, Evidence, MaySay, NoWatch
  <2>. QED
    BY <2>1, InitShape DEF Inv
<1>2. Inv /\ [Next]_vars => Inv'
  <2>. SUFFICES ASSUME Inv, [Next]_vars PROVE Inv'
    OBVIOUS
  <2>1. Shape'
    BY NextShape DEF Inv
  <2>2. CASE UNCHANGED vars
    BY <2>1, <2>2, StillEvidence DEF vars, Inv, Evidence
  <2>3. ASSUME NEW w \in Writers, Fails(w)
        PROVE  Evidence'
    <3>1. \A o \in ONTs : \A i \in 1..Len(events'[o]) : events'[o][i].type = "offline" => BeenDown(o)
      BY <2>3 DEF Fails, Inv, Evidence
    <3>. QED
      BY <2>3, <3>1, ReturnEvidence DEF Fails
  <2>4. ASSUME NEW t \in Tiers, Cycle(t)
        PROVE  Evidence'
    BY <2>4, CycleEvidence, LogEvidence, Sets
  <2>5. Log("trapd") => Evidence'
    BY LogEvidence, Sets
  <2>t. /\ \A m \in traps, again \in BOOLEAN : TrapArrives(m, again) => Evidence'
        /\ \A o \in ONTs : ApplyTrap(o) => Evidence'
    BY TrapEvidence
  <2>w. \A o \in ONTs : settleONUStatus(o) \/ Look(o) \/ storeSettledONUStatus(o) \/ WatchFails(o) => Evidence'
    BY WatchEvidence
  <2>f. \A o \in ONTs, p \in Phases, heard \in BOOLEAN : Flip(o, p, heard) => Evidence'
    BY FlipEvidence
  <2>6. CASE Next
    <3>1. \/ \E o \in ONTs, p \in Phases, heard \in BOOLEAN : Flip(o, p, heard)
          \/ \E t \in Tiers : Cycle(t)
          \/ \E m \in traps, again \in BOOLEAN : TrapArrives(m, again)
          \/ Log("trapd") \/ \E o \in ONTs : ApplyTrap(o)
          \/ \E w \in Writers : Fails(w)
          \/ \E o \in ONTs : settleONUStatus(o) \/ Look(o) \/ storeSettledONUStatus(o) \/ WatchFails(o)
      BY <2>6 DEF Next, Trapd
    <3>2. (\E o \in ONTs, p \in Phases, heard \in BOOLEAN : Flip(o, p, heard)) => Evidence'
      BY <2>f
    <3>3. (\E m \in traps, again \in BOOLEAN : TrapArrives(m, again)) => Evidence'
      BY <2>t
    <3>4. (\E o \in ONTs : ApplyTrap(o)) => Evidence'
      BY <2>t
    <3>5. (\E o \in ONTs : settleONUStatus(o) \/ Look(o) \/ storeSettledONUStatus(o) \/ WatchFails(o)) => Evidence'
      BY <2>w
    <3>. QED
      BY <2>1, <2>3, <2>4, <2>5, <3>1, <3>2, <3>3, <3>4, <3>5 DEF Inv
  <2>. QED
    BY <2>2, <2>6
<1>3. Inv => OutagesHappened
  BY DEF Inv, Evidence, OutagesHappened, MaySay, BeenDown
<1>. QED
  BY <1>1, <1>2, <1>3, PTL DEF Spec

-----------------------------------------------------------------------------
(* Induction, in the form of a least counterexample: the sums that         *)
(* availability is made of, and the newest of some events, need it.        *)

Before == {ss \in Nat \X Nat : ss[1] < ss[2]}

LEMMA BeforeIsWellFounded == IsWellFoundedOn(Before, Nat)
<1>1. Before = OpToRel(<, Nat)
  BY Zenon DEF Before, OpToRel
<1>. QED
  BY <1>1, NatLessThanWellFounded, Zenon

LEMMA Least ==
  ASSUME NEW T \in SUBSET Nat, T # {}
  PROVE  \E n \in T : \A k \in T : n <= k
<1>1. PICK n \in T : \A k \in T : <<k, n>> \notin Before
  BY BeforeIsWellFounded, WFMin
<1>2. ASSUME NEW k \in T PROVE n <= k
  <2>1. k \in Nat /\ n \in Nat /\ <<k, n>> \notin Before
    BY <1>1
  <2>2. <<k, n>>[1] = k /\ <<k, n>>[2] = n /\ <<k, n>> \in Nat \X Nat
    BY <2>1
  <2>3. ~ (k < n)
    BY <2>1, <2>2 DEF Before
  <2>. QED
    BY <2>1, <2>3
<1>. QED
  BY <1>2

LEMMA UpTo ==
  ASSUME NEW P \in SUBSET Nat, 0 \in P, \A n \in P : n + 1 \in P
  PROVE  P = Nat
<1>1. SUFFICES ASSUME Nat \ P # {} PROVE FALSE
  OBVIOUS
<1>2. PICK n \in Nat \ P : \A k \in Nat \ P : n <= k
  BY <1>1, Least
<1>3. n # 0 /\ n - 1 \in Nat /\ n - 1 \in P
  BY <1>2
<1>4. (n - 1) + 1 = n
  OBVIOUS
<1>. QED
  BY <1>2, <1>3, <1>4

\* A property of the subsets of a finite set that holds of each one when it
\* holds of those with an element less.
LEMMA Subsets ==
  ASSUME NEW S, IsFiniteSet(S), NEW P \in SUBSET SUBSET S,
         \A T \in SUBSET S : (\A x \in T : T \ {x} \in P) => T \in P
  PROVE  P = SUBSET S
<1>1. SUFFICES ASSUME (SUBSET S) \ P # {} PROVE FALSE
  OBVIOUS
<1>2. \A T \in SUBSET S : IsFiniteSet(T) /\ Cardinality(T) \in Nat
  BY FS_Subset, FS_CardinalityType
<1>. DEFINE B == {Cardinality(T) : T \in (SUBSET S) \ P}
<1>3. B \in SUBSET Nat /\ B # {}
  BY <1>1, <1>2
<1>4. PICK n \in B : \A k \in B : n <= k
  BY <1>3, Least
<1>5. PICK T \in (SUBSET S) \ P : n = Cardinality(T)
  BY <1>4
<1>6. ASSUME NEW x \in T PROVE T \ {x} \in P
  <2>1. IsFiniteSet(T) /\ T \ {x} \in SUBSET S
    BY <1>2
  <2>2. Cardinality(T \ {x}) = Cardinality(T) - 1 /\ Cardinality(T) \in Nat
    BY <1>2, <2>1, FS_RemoveElement
  <2>3. T \ {x} \notin P => Cardinality(T \ {x}) \in B
    BY <2>1
  <2>. QED
    BY <1>4, <1>5, <2>2, <2>3
<1>. QED
  BY <1>5, <1>6

-----------------------------------------------------------------------------
(* Sums over finite sets of positions.  A sum is what its recursive        *)
(* definition says: the term of one element of the set, any that is        *)
(* chosen, and the sum over the rest.                                      *)

Some(s) == CHOOSE x \in s : TRUE
IsSum(it, g, S) == it = [s \in SUBSET S |-> IF s = {} THEN 0 ELSE g[Some(s)] + it[s \ {Some(s)}]]

LEMMA SomeIs == ASSUME NEW s, s # {} PROVE Some(s) \in s
BY DEF Some

\* There is a function that does what the definition says.
LEMMA SumExists ==
  ASSUME NEW S, IsFiniteSet(S), NEW g
  PROVE  \E it : IsSum(it, g, S)
<1>. DEFINE Small(n) == {s \in SUBSET S : Cardinality(s) <= n}
            Good == {n \in Nat : \E h : h = [s \in Small(n) |-> IF s = {} THEN 0 ELSE g[Some(s)] + h[s \ {Some(s)}]]}
<1>1. \A T \in SUBSET S : IsFiniteSet(T) /\ Cardinality(T) \in Nat
  BY FS_Subset, FS_CardinalityType
<1>2. 0 \in Good
  <2>. DEFINE h == [s \in Small(0) |-> 0]
  <2>1. \A s \in Small(0) : s = {}
    BY <1>1, FS_EmptySet
  <2>2. h = [s \in Small(0) |-> IF s = {} THEN 0 ELSE g[Some(s)] + h[s \ {Some(s)}]]
    BY <2>1
  <2>. QED
    BY <2>2
<1>3. ASSUME NEW n \in Good PROVE n + 1 \in Good
  <2>. PICK h : h = [s \in Small(n) |-> IF s = {} THEN 0 ELSE g[Some(s)] + h[s \ {Some(s)}]]
    OBVIOUS
  <2>. DEFINE k == [s \in Small(n + 1) |-> IF s = {} THEN 0 ELSE g[Some(s)] + h[s \ {Some(s)}]]
  <2>0. n \in Nat /\ n + 1 \in Nat
    OBVIOUS
  <2>1. ASSUME NEW s \in Small(n) PROVE s \in Small(n + 1) /\ k[s] = h[s]
    <3>1. s \in Small(n + 1)
      BY <1>1, <2>0
    <3>2. h[s] = IF s = {} THEN 0 ELSE g[Some(s)] + h[s \ {Some(s)}]
      OBVIOUS
    <3>3. k[s] = IF s = {} THEN 0 ELSE g[Some(s)] + h[s \ {Some(s)}]
      BY <3>1
    <3>. QED
      BY <3>1, <3>2, <3>3
  <2>2. ASSUME NEW s \in Small(n + 1), s # {} PROVE s \ {Some(s)} \in Small(n)
    <3>1. IsFiniteSet(s) /\ Some(s) \in s /\ Cardinality(s) \in Nat /\ Cardinality(s) <= n + 1 /\ s \ {Some(s)} \in SUBSET S
      BY <1>1, <2>2, SomeIs
    <3>2. Cardinality(s \ {Some(s)}) = Cardinality(s) - 1
      BY <3>1, FS_RemoveElement
    <3>. QED
      BY <3>1, <3>2
  <2>3. \A s \in Small(n + 1) : s # {} => h[s \ {Some(s)}] = k[s \ {Some(s)}]
    BY <2>1, <2>2
  <2>. HIDE DEF Small
  <2>4. k = [s \in Small(n + 1) |-> IF s = {} THEN 0 ELSE g[Some(s)] + k[s \ {Some(s)}]]
    BY <2>3
  <2>5. \E f : f = [s \in Small(n + 1) |-> IF s = {} THEN 0 ELSE g[Some(s)] + f[s \ {Some(s)}]]
    <3>. HIDE DEF k
    <3>. QED
      BY <2>4
  <2>. QED
    BY <2>0, <2>5
<1>4. Good = Nat
  BY <1>2, <1>3, UpTo
<1>5. Cardinality(S) \in Good
  BY <1>1, <1>4
<1>6. Small(Cardinality(S)) = SUBSET S
  BY <1>1, FS_Subset
<1>. QED
  BY <1>5, <1>6 DEF IsSum

LEMMA SumIsInt ==
  ASSUME NEW S, IsFiniteSet(S), NEW g \in [S -> Int], NEW it, IsSum(it, g, S)
  PROVE  /\ it[{}] = 0
         /\ \A T \in SUBSET S : it[T] \in Int
         /\ \A T \in SUBSET S : T # {} => it[T] = g[Some(T)] + it[T \ {Some(T)}]
<1>1. \A T \in SUBSET S : it[T] = IF T = {} THEN 0 ELSE g[Some(T)] + it[T \ {Some(T)}]
  BY DEF IsSum
<1>2. it[{}] = 0
  BY <1>1
<1>. DEFINE P == {T \in SUBSET S : it[T] \in Int}
<1>3. ASSUME NEW T \in SUBSET S, \A x \in T : T \ {x} \in P
      PROVE  T \in P
  <2>1. CASE T = {}
    BY <1>2, <2>1
  <2>2. CASE T # {}
    <3>. DEFINE x == Some(T)
    <3>1. x \in T /\ it[T] = g[x] + it[T \ {x}]
      BY <1>1, <2>2, SomeIs
    <3>. HIDE DEF x
    <3>2. g[x] \in Int /\ it[T \ {x}] \in Int
      BY <1>3, <3>1
    <3>. QED
      BY <3>1, <3>2
  <2>. QED
    BY <2>1, <2>2
<1>4. P \in SUBSET SUBSET S
  OBVIOUS
<1>5. P = SUBSET S
  <2>. HIDE DEF P
  <2>. QED
    BY <1>3, <1>4, Subsets
<1>. QED
  BY <1>1, <1>2, <1>5

\* It does not matter which element is taken out.
LEMMA SumTakes ==
  ASSUME NEW S, IsFiniteSet(S), NEW g \in [S -> Int], NEW it, IsSum(it, g, S)
  PROVE  \A T \in SUBSET S : \A x \in T : it[T] = g[x] + it[T \ {x}]
<1>. DEFINE P == {T \in SUBSET S : \A x \in T : it[T] = g[x] + it[T \ {x}]}
<1>1. \A T \in SUBSET S : it[T] \in Int
  BY SumIsInt
<1>2. ASSUME NEW T \in SUBSET S, \A x \in T : T \ {x} \in P, NEW x \in T
      PROVE  it[T] = g[x] + it[T \ {x}]
  <2>. DEFINE y == Some(T)
  <2>1. y \in T /\ it[T] = g[y] + it[T \ {y}]
    BY SumIsInt, SomeIs
  <2>. HIDE DEF y
  <2>2. CASE x = y
    BY <2>1, <2>2
  <2>3. CASE x # y
    <3>1. it[T \ {x}] = g[y] + it[(T \ {x}) \ {y}]
      BY <1>2, <2>1, <2>3
    <3>2. it[T \ {y}] = g[x] + it[(T \ {y}) \ {x}]
      BY <1>2, <2>1, <2>3
    <3>3. (T \ {x}) \ {y} = (T \ {y}) \ {x} /\ (T \ {y}) \ {x} \in SUBSET S /\ T \ {x} \in SUBSET S
      OBVIOUS
    <3>4. it[(T \ {y}) \ {x}] \in Int /\ it[T \ {x}] \in Int /\ g[x] \in Int /\ g[y] \in Int
      BY <1>1, <2>1, <3>3
    <3>. QED
      BY <2>1, <3>1, <3>2, <3>3, <3>4
  <2>. QED
    BY <2>2, <2>3
<1>3. \A T \in SUBSET S : (\A x \in T : T \ {x} \in P) => T \in P
  BY <1>2
<1>4. P \in SUBSET SUBSET S
  OBVIOUS
<1>5. P = SUBSET S
  <2>. HIDE DEF P
  <2>. QED
    BY <1>3, <1>4, Subsets
<1>. QED
  BY <1>5

\* Two sums of the same terms agree wherever both are defined.
LEMMA SumsAgree ==
  ASSUME NEW S, IsFiniteSet(S), NEW g \in [S -> Int], NEW it, IsSum(it, g, S),
         NEW K \in SUBSET S, NEW ik, IsSum(ik, g, K)
  PROVE  \A T \in SUBSET K : ik[T] = it[T]
<1>. DEFINE P == {T \in SUBSET K : ik[T] = it[T]}
<1>1. ASSUME NEW T \in SUBSET K, \A x \in T : T \ {x} \in P
      PROVE  T \in P
  <2>1. ik[T] = IF T = {} THEN 0 ELSE g[Some(T)] + ik[T \ {Some(T)}]
    BY DEF IsSum
  <2>2. it[T] = IF T = {} THEN 0 ELSE g[Some(T)] + it[T \ {Some(T)}]
    BY DEF IsSum
  <2>3. T # {} => Some(T) \in T
    BY SomeIs
  <2>. QED
    BY <1>1, <2>1, <2>2, <2>3
<1>2. P \in SUBSET SUBSET K /\ IsFiniteSet(K)
  BY FS_Subset
<1>3. P = SUBSET K
  <2>. HIDE DEF P
  <2>. QED
    BY <1>1, <1>2, Subsets
<1>. QED
  BY <1>3

\* The sum over two disjoint sets is the sum of their sums.
LEMMA SumOfParts ==
  ASSUME NEW S, IsFiniteSet(S), NEW g \in [S -> Int], NEW it, IsSum(it, g, S),
         NEW A \in SUBSET S, NEW B \in SUBSET S, A \cap B = {}
  PROVE  it[A \cup B] = it[A] + it[B]
<1>. DEFINE P == {T \in SUBSET A : it[T \cup B] = it[T] + it[B]}
<1>1. it[{}] = 0 /\ \A T \in SUBSET S : it[T] \in Int
  BY SumIsInt
<1>t. ASSUME NEW T \in SUBSET S, NEW x \in T PROVE it[T] = g[x] + it[T \ {x}]
  BY SumTakes
<1>2. ASSUME NEW T \in SUBSET A, \A x \in T : T \ {x} \in P
      PROVE  T \in P
  <2>1. CASE T = {}
    <3>1. T \cup B = B
      BY <2>1
    <3>. QED
      BY <1>1, <2>1, <3>1
  <2>2. CASE T # {}
    <3>1. PICK x \in T : TRUE
      BY <2>2
    <3>2. x \in S /\ x \notin B /\ T \in SUBSET S /\ T \cup B \in SUBSET S /\ T \ {x} \in SUBSET S
      OBVIOUS
    <3>3. (T \cup B) \ {x} = (T \ {x}) \cup B
      BY <3>2
    <3>4. it[T \cup B] = g[x] + it[(T \ {x}) \cup B]
      BY <1>t, <3>2, <3>3
    <3>5. it[T] = g[x] + it[T \ {x}]
      BY <1>t, <3>2
    <3>6. it[(T \ {x}) \cup B] = it[T \ {x}] + it[B]
      BY <1>2
    <3>7. it[T \ {x}] \in Int /\ it[B] \in Int /\ g[x] \in Int
      BY <1>1, <3>2
    <3>. QED
      BY <3>4, <3>5, <3>6, <3>7
  <2>. QED
    BY <2>1, <2>2
<1>3. P \in SUBSET SUBSET A /\ IsFiniteSet(A)
  BY FS_Subset
<1>4. P = SUBSET A
  <2>. HIDE DEF P
  <2>. QED
    BY <1>2, <1>3, Subsets
<1>. QED
  BY <1>4

\* Each position lasts until the next later one, the last of them until e.
Successor(E, t, i, j) == j \in E /\ t[j] > t[i] /\ \A k \in E : t[k] > t[i] => t[j] <= t[k]

LEMMA Telescope ==
  ASSUME NEW E, IsFiniteSet(E), NEW t \in [E -> Nat], NEW e \in Nat, \A i \in E : t[i] <= e,
         \A i, j \in E : t[i] = t[j] => i = j,
         NEW g \in [E -> Int],
         \A i, j \in E : Successor(E, t, i, j) => g[i] = t[j] - t[i],
         \A i \in E : (\A k \in E : t[k] <= t[i]) => g[i] = e - t[i],
         NEW it, IsSum(it, g, E)
  PROVE  \A u \in E : it[{i \in E : t[i] >= t[u]}] = e - t[u]
<1>. DEFINE U(u) == {i \in E : t[i] >= t[u]}
            Bad == {u \in E : it[U(u)] # e - t[u]}
            D == {e - t[u] : u \in Bad}
<1>1. SUFFICES ASSUME Bad # {} PROVE FALSE
  OBVIOUS
<1>2. D \in SUBSET Nat /\ D # {}
  <2>1. ASSUME NEW u \in E PROVE e - t[u] \in Nat
    <3>1. t[u] \in Nat /\ t[u] <= e
      OBVIOUS
    <3>. QED
      BY <3>1
  <2>2. D \in SUBSET Nat
    BY <2>1
  <2>3. PICK u \in Bad : TRUE
    BY <1>1
  <2>4. e - t[u] \in D
    BY <2>3
  <2>. QED
    BY <2>2, <2>4
<1>3. PICK n \in D : \A m \in D : n <= m
  <2>. HIDE DEF D
  <2>. QED
    BY <1>2, Least
<1>4. PICK u \in Bad : n = e - t[u]
  BY <1>3
<1>5. it[{}] = 0
  BY SumIsInt
<1>t. ASSUME NEW T \in SUBSET E, NEW x \in T PROVE it[T] = g[x] + it[T \ {x}]
  <2>. HIDE DEF U, Bad, D
  <2>. QED
    BY SumTakes
<1>6. u \in E /\ u \in U(u) /\ U(u) \in SUBSET E /\ t[u] \in Nat
  BY <1>4
<1>7. it[U(u)] = g[u] + it[U(u) \ {u}]
  <2>. DEFINE W == U(u)
  <2>1. W \in SUBSET E /\ u \in W
    BY <1>6
  <2>. HIDE DEF W
  <2>2. it[W] = g[u] + it[W \ {u}]
    BY <1>t, <2>1
  <2>. QED
    BY <2>2 DEF W
<1>8. CASE \A k \in E : t[k] <= t[u]
  <2>1. U(u) \ {u} = {}
    BY <1>6, <1>8
  <2>2. it[U(u)] = e - t[u] + 0
    BY <1>5, <1>6, <1>7, <1>8, <2>1
  <2>. QED
    BY <1>4, <1>6, <2>2
<1>9. CASE \E k \in E : ~ (t[k] <= t[u])
  <2>. DEFINE L == {t[k] : k \in {k \in E : t[k] > t[u]}}
  <2>1. L \in SUBSET Nat /\ L # {}
    <3>1. \A k \in E : t[k] \in Nat
      OBVIOUS
    <3>2. L \in SUBSET Nat
      BY <3>1
    <3>3. PICK k \in E : t[k] > t[u]
      BY <1>6, <1>9, <3>1
    <3>4. t[k] \in L
      BY <3>3
    <3>. QED
      BY <3>2, <3>4
  <2>2. PICK l \in L : \A m \in L : l <= m
    <3>. HIDE DEF L
    <3>. QED
      BY <2>1, Least
  <2>3. PICK j \in E : t[j] > t[u] /\ l = t[j]
    BY <2>2
  <2>4. Successor(E, t, u, j)
    BY <2>2, <2>3 DEF Successor
  <2>5. U(u) \ {u} = U(j)
    <3>1. ASSUME NEW i \in E PROVE (t[i] >= t[u] /\ i # u) <=> t[i] >= t[j]
      <4>1. t[i] \in Nat /\ t[j] \in Nat /\ t[u] \in Nat /\ (t[i] > t[u] => t[j] <= t[i])
        BY <1>6, <2>4 DEF Successor
      <4>2. t[i] = t[u] <=> i = u
        BY <1>6
      <4>. QED
        BY <2>3, <4>1, <4>2
    <3>. QED
      BY <3>1
  <2>6. j \notin Bad
    <3>1. e - t[j] < e - t[u] /\ t[j] \in Nat
      BY <1>6, <2>3
    <3>2. ASSUME j \in Bad PROVE FALSE
      <4>1. e - t[j] \in D
        BY <3>2
      <4>2. n <= e - t[j]
        BY <1>3, <4>1
      <4>. QED
        BY <1>4, <3>1, <4>2
    <3>. QED
      BY <3>2
  <2>7. it[U(j)] = e - t[j]
    BY <2>6
  <2>8. it[U(u)] = (t[j] - t[u]) + (e - t[j])
    BY <1>6, <1>7, <2>4, <2>5, <2>7
  <2>. QED
    BY <1>4, <1>6, <2>8
<1>. QED
  BY <1>8, <1>9

-----------------------------------------------------------------------------
(* The history.  No two events of an ONT carry the same time, and none the *)
(* time of a call that has yet to open its own: what such a call has read  *)
(* is older.  What it has closed ends at that time.                        *)

Rows(o) == 1..Len(events[o])
Stamped(w) ==
  /\ \A o \in ONTs : \A i \in Rows(o) :
       events[o][i].time # at[w] /\ (i <= seen[w][o] => events[o][i].time < at[w])
  /\ \A v \in Writers \ {w} : pc[v] = "log" => at[v] # at[w]
  /\ \A o \in left[w] : seen[w][o] > 0
ClosedBy(w) ==
  \A o \in Opened(w) \ left[w] :
    LET e == events[o][Newest(o, seen[w][o])]
    IN seen[w][o] > 0 /\ ~e.raced => e.lasted = Whole(at[w] - e.time)
Logging(w) == pc[w] = "log" => Stamped(w) /\ ClosedBy(w)
OneTimeEach == \A o \in ONTs : \A i, j \in Rows(o) : events[o][i].time = events[o][j].time => i = j

\* DurationsMeet, of two rows of an ONT.
Meet(o, i, j) ==
  /\ events[o][i].time < events[o][j].time
  /\ \A k \in Rows(o) : events[o][k].time <= events[o][i].time \/ events[o][k].time >= events[o][j].time
  /\ ~events[o][i].raced /\ ~events[o][j].raced
  => /\ events[o][i].lasted = Whole(events[o][j].time - events[o][i].time)
     /\ events[o][i].type # events[o][j].type
AllMeet == \A o \in ONTs : \A i, j \in Rows(o) : Meet(o, i, j)
History == Shape /\ OneTimeEach /\ AllMeet /\ \A w \in Writers : Logging(w)

LEMMA RowsAre ==
  ASSUME Shape, NEW o \in ONTs
  PROVE  /\ Len(events[o]) \in Nat
         /\ \A i \in Rows(o) : /\ i \in Nat /\ i >= 1 /\ events[o][i] \in EventRow
                               /\ events[o][i].time \in Nat /\ events[o][i].time <= clock
<1>1. events[o] \in Seq(EventRow) /\ clock \in Nat
  BY DEF Shape, HistoryOK
<1>2. Len(events[o]) \in Nat /\ \A i \in Rows(o) : events[o][i] \in EventRow
  BY <1>1 DEF Rows
<1>3. \A e \in EventRow : e.time \in Nat /\ e.time <= clock
  BY <1>1 DEF EventRow
<1>. QED
  BY <1>2, <1>3 DEF Rows

LEMMA NewestIs ==
  ASSUME Shape, NEW o \in ONTs, NEW n \in Nat, n > 0, n <= Len(events[o])
  PROVE  /\ Newest(o, n) \in 1..n /\ Newest(o, n) \in Rows(o)
         /\ \A j \in 1..n : events[o][j].time <= events[o][Newest(o, n)].time
<1>. DEFINE D == {clock - events[o][i].time : i \in 1..n}
<1>1. clock \in Nat /\ \A i \in 1..n : i \in Rows(o) /\ events[o][i].time \in Nat /\ events[o][i].time <= clock
  BY RowsAre DEF Rows, Shape, HistoryOK
<1>2. D \in SUBSET Nat
  BY <1>1
<1>3. clock - events[o][1].time \in D
  OBVIOUS
<1>4. PICK d \in D : \A k \in D : d <= k
  <2>. HIDE DEF D
  <2>. QED
    BY <1>2, <1>3, Least
<1>5. PICK i \in 1..n : d = clock - events[o][i].time
  BY <1>4
<1>6. ASSUME NEW j \in 1..n PROVE events[o][j].time <= events[o][i].time
  <2>1. clock - events[o][j].time \in D
    OBVIOUS
  <2>2. d <= clock - events[o][j].time
    BY <1>4, <2>1
  <2>3. events[o][j].time \in Nat /\ events[o][i].time \in Nat /\ clock \in Nat
    BY <1>1
  <2>. HIDE DEF D
  <2>. QED
    BY <1>5, <2>2, <2>3
<1>7. \E k \in 1..n : \A j \in 1..n : events[o][j].time <= events[o][k].time
  BY <1>6
<1>8. Newest(o, n) \in 1..n /\ \A j \in 1..n : events[o][j].time <= events[o][Newest(o, n)].time
  BY <1>7 DEF Newest
<1>. QED
  BY <1>1, <1>8

\* The newest of the first rows is the same as long as their times are.
LEMMA NewestStays ==
  ASSUME NEW o \in ONTs, NEW n \in Nat, \A i \in 1..n : events'[o][i].time = events[o][i].time
  PROVE  Newest(o, n)' = Newest(o, n)
<1>1. \A i \in 1..n : (\A j \in 1..n : events[o][j].time <= events[o][i].time)
                      <=> (\A j \in 1..n : events'[o][j].time <= events'[o][i].time)
  OBVIOUS
<1>. QED
  BY <1>1 DEF Newest

-----------------------------------------------------------------------------
(* What the writes do to the history.                                      *)

LEMMA CloseDoes ==
  ASSUME Shape, NEW w \in Writers, Logging(w), NEW o \in ONTs, closeEvent(w, o)
  PROVE  LET i == Newest(o, seen[w][o])
         IN /\ i \in 1..seen[w][o] /\ i \in Rows(o)
            /\ events'[o][i].lasted = Whole(at[w] - events[o][i].time) /\ events'[o][i].raced = (events[o][i].raced \/ Raced(w, o))
            /\ \A x \in ONTs : Len(events'[x]) = Len(events[x]) /\ \A k \in Rows(x) :
                 /\ events'[x][k].time = events[x][k].time /\ events'[x][k].type = events[x][k].type
                 /\ x # o \/ k # i => events'[x][k] = events[x][k]
<1>. DEFINE i == Newest(o, seen[w][o])
            r == [[events[o][i] EXCEPT !.lasted = Whole(at[w] - events[o][i].time)] EXCEPT !.raced = events[o][i].raced \/ Raced(w, o)]
<1>1. events' = [events EXCEPT ![o] = [events[o] EXCEPT ![i] = r]]
  BY DEF closeEvent, Shape, HistoryOK
<1>2. seen[w][o] \in Nat /\ seen[w][o] > 0 /\ seen[w][o] <= Len(events[o])
  BY DEF closeEvent, Logging, Stamped, Shape, MemoryOK, HistoryOK
<1>3. i \in 1..seen[w][o] /\ i \in Rows(o)
  BY <1>2, NewestIs
<1>4. events[o][i] \in EventRow
  BY <1>3, RowsAre
<1>5. /\ r.lasted = Whole(at[w] - events[o][i].time) /\ r.raced = (events[o][i].raced \/ Raced(w, o))
      /\ r.time = events[o][i].time /\ r.type = events[o][i].type
  <2>. HIDE DEF i
  <2>. QED
    BY <1>4 DEF EventRow
<1>. HIDE DEF i, r
<1>6. \A x \in ONTs : events[x] \in Seq(EventRow)
  BY DEF Shape, HistoryOK
<1>7. ASSUME NEW x \in ONTs, NEW k \in Rows(x)
      PROVE  events'[x][k] = IF x = o /\ k = i THEN r ELSE events[x][k]
  BY <1>1, <1>3, <1>6, <1>7 DEF Rows, Shape, HistoryOK
<1>8. ASSUME NEW x \in ONTs PROVE Len(events'[x]) = Len(events[x])
  BY <1>1, <1>6 DEF Shape, HistoryOK
<1>9. events'[o][i].lasted = Whole(at[w] - events[o][i].time) /\ events'[o][i].raced = (events[o][i].raced \/ Raced(w, o))
  BY <1>3, <1>5, <1>7
<1>10. \A x \in ONTs : \A k \in Rows(x) :
         /\ events'[x][k].time = events[x][k].time /\ events'[x][k].type = events[x][k].type
         /\ x # o \/ k # i => events'[x][k] = events[x][k]
  BY <1>5, <1>7
<1>. QED
  BY <1>3, <1>8, <1>9, <1>10 DEF i

LEMMA OpenDoes ==
  ASSUME Shape, NEW w \in Writers, OpenEvents(w), NEW x \in ONTs
  PROVE  /\ x \notin Opened(w) => events'[x] = events[x]
         /\ x \in Opened(w) => /\ Len(events'[x]) = Len(events[x]) + 1
                               /\ events'[x][Len(events[x]) + 1] = Event(w, x)
                               /\ \A k \in Rows(x) : events'[x][k] = events[x][k]
<1>1. events'[x] = IF x \in Opened(w) THEN Append(events[x], Event(w, x)) ELSE events[x]
  BY DEF OpenEvents
<1>2. events[x] \in Seq(EventRow)
  BY DEF Shape, HistoryOK
<1>3. at[w] \in 1..clock /\ clock \in Nat
  BY DEF OpenEvents, Shape, AllReady, Ready, MemoryOK, HistoryOK
<1>4. Event(w, x) \in EventRow
  BY <1>3 DEF Event, EventRow, Kind, Raced, Running
<1>. QED
  BY <1>1, <1>2, <1>4 DEF Rows

\* What a call opens depends on nothing but the times and types it has read.
LEMMA OpenedStays ==
  ASSUME Shape, NEW v \in Writers, seen'[v] = seen[v], verdict'[v] = verdict[v],
         \A x \in ONTs : \A k \in Rows(x) :
           events'[x][k].time = events[x][k].time /\ events'[x][k].type = events[x][k].type
  PROVE  /\ \A x \in ONTs : Newest(x, seen[v][x])' = Newest(x, seen[v][x])
         /\ Opened(v)' = Opened(v)
<1>1. ASSUME NEW x \in ONTs
      PROVE  /\ Newest(x, seen[v][x])' = Newest(x, seen[v][x]) 
             /\ seen[v][x] > 0 => events'[x][Newest(x, seen[v][x])].type = events[x][Newest(x, seen[v][x])].type
  <2>1. seen[v][x] \in Nat /\ seen[v][x] <= Len(events[x]) /\ Len(events[x]) \in Nat
    BY RowsAre DEF Shape, MemoryOK, HistoryOK
  <2>2. \A k \in 1..seen[v][x] : k \in Rows(x)
    BY <2>1 DEF Rows
  <2>3. \A n \in Nat : n = seen[v][x] => Newest(x, n)' = Newest(x, n)
    BY <2>2, NewestStays
  <2>4. seen[v][x] > 0 => Newest(x, seen[v][x]) \in Rows(x)
    BY <2>1, NewestIs
  <2>. QED
    BY <2>1, <2>3, <2>4
<1>. QED
  BY <1>1 DEF Opened, NewsAsOf

-----------------------------------------------------------------------------
(* Step by step.                                                           *)

\* Nobody writes the history, and nobody who is logging moves.
LEMMA HistoryKept ==
  ASSUME History, Shape', UNCHANGED events,
         \A v \in Writers : pc'[v] = "log" => /\ pc[v] = "log" /\ at'[v] = at[v] /\ left'[v] = left[v]
                                              /\ seen'[v] = seen[v] /\ verdict'[v] = verdict[v]
  PROVE  History'
<1>1. OneTimeEach' /\ AllMeet'
  BY DEF History, OneTimeEach, AllMeet, Meet, Rows
<1>2. ASSUME NEW w \in Writers, pc'[w] = "log"
      PROVE  Stamped(w)' /\ ClosedBy(w)'
  <2>1. /\ pc[w] = "log" /\ at'[w] = at[w] /\ left'[w] = left[w] /\ seen'[w] = seen[w] /\ verdict'[w] = verdict[w]
        /\ Stamped(w) /\ ClosedBy(w)
    BY <1>2 DEF History, Logging
  <2>2. Stamped(w)'
    BY <2>1 DEF Stamped, Rows
  <2>3. /\ \A x \in ONTs : Newest(x, seen[w][x])' = Newest(x, seen[w][x])
        /\ Opened(w)' = Opened(w) /\ Opened(w) \subseteq ONTs
    BY <2>1, OpenedStays DEF History, Opened, NewsAsOf
  <2>4. ClosedBy(w)'
    BY <2>1, <2>3 DEF ClosedBy
  <2>. QED
    BY <2>2, <2>4
<1>. QED
  BY <1>1, <1>2 DEF History, Logging

LEMMA ReturnHistory ==
  ASSUME History, Shape', NEW w \in Writers, Return(w), UNCHANGED events
  PROVE  History'
<1>1. /\ pc' = [pc EXCEPT ![w] = "idle"] /\ pc'[w] = "idle"
      /\ \A v \in Writers \ {w} : /\ pc'[v] = pc[v] /\ at'[v] = at[v] /\ left'[v] = left[v]
                                  /\ seen'[v] = seen[v] /\ verdict'[v] = verdict[v]
  BY DEF Return, History, Shape, MemoryOK
<1>2. \A v \in Writers : pc'[v] = "log" => v # w
  BY <1>1
<1>. QED
  BY <1>1, <1>2, HistoryKept

LEMMA NowHistory ==
  ASSUME History, Shape', NEW w \in Writers, Now(w)
  PROVE  History'
<1>0. clock \in Nat /\ clock' \in Nat /\ clock < clock'
  <2>1. PICK pause \in 1..MaxPause : clock' = clock + pause
    BY DEF Now
  <2>. QED
    BY <2>1, ParametersAssumption DEF History, Shape, HistoryOK
<1>1. /\ pc[w] = "now" /\ at'[w] = clock' /\ clock \in Nat
      /\ left'[w] = {o \in Opened(w) : seen[w][o] > 0} /\ UNCHANGED <<events, verdict, seen>>
      /\ \A v \in Writers \ {w} : pc'[v] = pc[v] /\ at'[v] = at[v] /\ left'[v] = left[v]
  BY DEF Now, History, Shape, MemoryOK, HistoryOK
<1>2. OneTimeEach' /\ AllMeet'
  BY <1>1 DEF History, OneTimeEach, AllMeet, Meet, Rows
<1>3. \A v \in Writers : at[v] \in Int /\ at[v] <= clock
  BY <1>1 DEF History, Shape, MemoryOK
<1>4. \A o \in ONTs : \A i \in Rows(o) : events[o][i].time \in Nat /\ events[o][i].time <= clock
  BY RowsAre DEF History
<1>5. Logging(w)'
  <2>1. \A o \in ONTs : \A i \in Rows(o) : events[o][i].time < clock'
    BY <1>0, <1>4
  <2>2. \A v \in Writers \ {w} : at[v] # clock'
    BY <1>0, <1>3
  <2>3. Stamped(w)'
    BY <1>1, <2>1, <2>2, <1>4 DEF Stamped, Rows
  <2>4. Opened(w)' = Opened(w)
    BY <1>1 DEF Opened, NewsAsOf, Newest
  <2>5. ClosedBy(w)'
    BY <1>1, <2>4 DEF ClosedBy
  <2>. QED
    BY <2>3, <2>5 DEF Logging
<1>6. ASSUME NEW v \in Writers \ {w} PROVE Logging(v)'
  <2>1. CASE pc[v] = "log"
    <3>1. Stamped(v) /\ ClosedBy(v)
      BY <2>1 DEF History, Logging
    <3>2. at[v] # clock'
      BY <1>0, <1>3
    <3>3. Stamped(v)'
      BY <1>1, <3>1, <3>2 DEF Stamped, Rows
    <3>4. /\ \A x \in ONTs : Newest(x, seen[v][x])' = Newest(x, seen[v][x])
          /\ Opened(v)' = Opened(v) /\ Opened(v) \subseteq ONTs
      BY <1>1, OpenedStays DEF History, Opened, NewsAsOf
    <3>5. ClosedBy(v)'
      BY <1>1, <3>1, <3>4 DEF ClosedBy
    <3>. QED
      BY <3>3, <3>5 DEF Logging
  <2>. QED
    BY <1>1, <2>1 DEF Logging
<1>. QED
  BY <1>2, <1>5, <1>6 DEF History

LEMMA CloseHistory ==
  ASSUME History, Shape', NEW w \in Writers, NEW o \in ONTs, closeEvent(w, o)
  PROVE  History'
<1>. DEFINE i == Newest(o, seen[w][o])
<1>1. /\ pc[w] = "log" /\ left' = [left EXCEPT ![w] = @ \ {o}] /\ UNCHANGED <<clock, pc, verdict, seen, at>>
      /\ left'[w] = left[w] \ {o} /\ \A v \in Writers \ {w} : left'[v] = left[v]
  BY DEF closeEvent, History, Shape, MemoryOK
<1>2. /\ i \in 1..seen[w][o] /\ i \in Rows(o)
      /\ events'[o][i].lasted = Whole(at[w] - events[o][i].time) /\ events'[o][i].raced = (events[o][i].raced \/ Raced(w, o))
      /\ \A x \in ONTs : Len(events'[x]) = Len(events[x]) /\ \A k \in Rows(x) :
           /\ events'[x][k].time = events[x][k].time /\ events'[x][k].type = events[x][k].type
           /\ x # o \/ k # i => events'[x][k] = events[x][k]
  BY CloseDoes DEF History
<1>3. \A j \in 1..seen[w][o] : events[o][j].time <= events[o][i].time
  <2>1. seen[w][o] \in Nat /\ seen[w][o] <= Len(events[o])
    BY DEF History, Shape, MemoryOK, HistoryOK
  <2>2. seen[w][o] > 0
    BY <1>2, <2>1
  <2>. QED
    BY <2>1, <2>2, NewestIs DEF History
<1>. HIDE DEF i
<1>4. \A x \in ONTs : Rows(x)' = Rows(x)
  BY <1>2 DEF Rows
<1>5. OneTimeEach'
  <2>. SUFFICES ASSUME NEW x \in ONTs, NEW a \in Rows(x), NEW b \in Rows(x), events'[x][a].time = events'[x][b].time
                PROVE  a = b
    BY <1>4 DEF OneTimeEach
  <2>. QED
    BY <1>2 DEF History, OneTimeEach
<1>6. ASSUME NEW x \in ONTs, NEW a \in Rows(x), NEW b \in Rows(x)
      PROVE  Meet(x, a, b)'
  <2>1. Meet(x, a, b)
    BY DEF History, AllMeet
  <2>2. CASE x # o \/ a # i
    <3>1. events'[x][a] = events[x][a]
      BY <1>2, <2>2
    <3>2. events'[x][b].time = events[x][b].time /\ events'[x][b].type = events[x][b].type
          /\ (events[x][b].raced => events'[x][b].raced)
      BY <1>2
    <3>. QED
      BY <1>2, <1>4, <2>1, <3>1, <3>2 DEF Meet
  <2>3. CASE x = o /\ a = i
    <3>. SUFFICES ASSUME events[o][i].time < events[o][b].time, ~Raced(w, o)
                  PROVE  FALSE
      BY <1>2, <2>3 DEF Meet
    <3>1. b \in 1..seen[w][o]
      BY <2>3 DEF Raced, Rows
    <3>2. events[o][b].time <= events[o][i].time /\ events[o][b].time \in Nat /\ events[o][i].time \in Nat
      BY <1>2, <1>3, <2>3, <3>1, RowsAre DEF History
    <3>. QED
      BY <3>2
  <2>. QED
    BY <2>2, <2>3
<1>7. AllMeet'
  BY <1>4, <1>6 DEF AllMeet
<1>8. ASSUME NEW v \in Writers, pc[v] = "log"
      PROVE  Stamped(v)' /\ ClosedBy(v)'
  <2>1. Stamped(v) /\ ClosedBy(v)
    BY <1>8 DEF History, Logging
  <2>2. Stamped(v)'
    <3>1. ASSUME NEW x \in ONTs, NEW a \in Rows(x)
          PROVE  events'[x][a].time # at[v] /\ (a <= seen[v][x] => events'[x][a].time < at[v])
      BY <1>2, <2>1 DEF Stamped
    <3>2. \A x \in left'[v] : x \in left[v]
      BY <1>1
    <3>. QED
      BY <1>1, <1>4, <2>1, <3>1, <3>2 DEF Stamped
  <2>3. /\ \A x \in ONTs : Newest(x, seen[v][x])' = Newest(x, seen[v][x])
        /\ Opened(v)' = Opened(v)
    BY <1>1, <1>2, OpenedStays DEF History
  <2>4. ASSUME NEW x \in Opened(v)' \ left'[v], seen'[v][x] > 0,
               ~ events'[x][Newest(x, seen[v][x])'].raced
        PROVE  events'[x][Newest(x, seen[v][x])'].lasted
                 = Whole(at'[v] - events'[x][Newest(x, seen[v][x])'].time)
    <3>. DEFINE k == Newest(x, seen[v][x])
    <3>1. x \in ONTs /\ x \in Opened(v) /\ x \notin left'[v]
      BY <2>3 DEF Opened, NewsAsOf
    <3>0. seen[v][x] \in Nat /\ seen[v][x] > 0 /\ seen[v][x] <= Len(events[x])
      BY <1>1, <2>4, <3>1 DEF History, Shape, MemoryOK, HistoryOK
    <3>2. k \in Rows(x)
      BY <3>0, <3>1, NewestIs DEF History
    <3>5. Newest(x, seen[v][x])' = k /\ at'[v] = at[v]
      BY <1>1, <2>3, <3>1
    <3>6. ~ events'[x][k].raced
      BY <2>4, <3>5
    <3>. HIDE DEF k
    <3>. SUFFICES events'[x][k].lasted = Whole(at[v] - events'[x][k].time)
      BY <3>5
    <3>3. CASE x # o \/ k # i
      <4>1. events'[x][k] = events[x][k]
        BY <1>2, <3>1, <3>2, <3>3
      <4>2. x \notin left[v]
        <5>1. CASE v = w
          <6>1. x = o => k = i
            BY <5>1 DEF i, k
          <6>. QED
            BY <1>1, <3>1, <3>3, <5>1, <6>1
        <5>. QED
          BY <1>1, <3>1, <5>1
      <4>. QED
        BY <2>1, <3>0, <3>1, <3>6, <4>1, <4>2 DEF ClosedBy, k
    <3>4. CASE x = o /\ k = i
      <4>1. CASE v = w
        BY <1>2, <3>4, <4>1
      <4>2. CASE v # w
        <5>1. Raced(w, o)
          BY <1>8, <3>1, <3>4, <4>2 DEF Raced
        <5>. QED
          BY <1>2, <3>4, <3>6, <5>1
      <4>. QED
        BY <4>1, <4>2
    <3>. QED
      BY <3>3, <3>4
  <2>5. ClosedBy(v)'
    BY <2>4 DEF ClosedBy
  <2>. QED
    BY <2>2, <2>5
<1>. QED
  BY <1>1, <1>5, <1>7, <1>8 DEF History, Logging

LEMMA OpenHistory ==
  ASSUME History, Shape', NEW w \in Writers, OpenEvents(w)
  PROVE  History'
<1>1. /\ pc[w] = "log" /\ left[w] = {} /\ pc'[w] = "idle"
      /\ \A v \in Writers \ {w} : /\ pc'[v] = pc[v] /\ at'[v] = at[v] /\ left'[v] = left[v]
                                  /\ seen'[v] = seen[v] /\ verdict'[v] = verdict[v]
  BY DEF OpenEvents, Return, History, Shape, MemoryOK
<1>2. Stamped(w) /\ ClosedBy(w) /\ at[w] \in Nat
  BY <1>1 DEF History, Logging, Shape, MemoryOK, HistoryOK
<1>3. ASSUME NEW x \in ONTs
      PROVE  /\ Len(events[x]) \in Nat
             /\ x \notin Opened(w) => events'[x] = events[x] /\ Rows(x)' = Rows(x)
             /\ x \in Opened(w) => /\ Rows(x)' = Rows(x) \cup {Len(events[x]) + 1}
                                   /\ events'[x][Len(events[x]) + 1] = Event(w, x)
             /\ Rows(x) \subseteq Rows(x)' /\ \A k \in Rows(x) : events'[x][k] = events[x][k]
  BY OpenDoes, RowsAre DEF History, Rows
<1>4. ASSUME NEW x \in ONTs, NEW a \in Rows(x)'
      PROVE  \/ a \in Rows(x) /\ events'[x][a] = events[x][a] /\ events[x][a].time \in Nat
             \/ a \notin Rows(x) /\ a = Len(events[x]) + 1 /\ x \in Opened(w) /\ events'[x][a] = Event(w, x)
  <2>1. a \in Rows(x) => events'[x][a] = events[x][a] /\ events[x][a].time \in Nat
    BY <1>3, RowsAre DEF History
  <2>2. a \notin Rows(x) => a = Len(events[x]) + 1 /\ x \in Opened(w) /\ events'[x][a] = Event(w, x)
    BY <1>3
  <2>. QED
    BY <2>1, <2>2
<1>5. \A x : Event(w, x).time = at[w] /\ Event(w, x).type = Kind(verdict[w][x]) /\ Event(w, x).raced = Raced(w, x)
  BY DEF Event
<1>6. OneTimeEach'
  <2>. SUFFICES ASSUME NEW x \in ONTs, NEW a \in Rows(x)', NEW b \in Rows(x)',
                       events'[x][a].time = events'[x][b].time
                PROVE  a = b
    BY DEF OneTimeEach
  <2>1. \A k \in Rows(x) : events[x][k].time # at[w]
    BY <1>2 DEF Stamped
  <2>2. CASE a \in Rows(x) /\ b \in Rows(x)
    BY <1>3, <2>2 DEF History, OneTimeEach
  <2>3. CASE a \notin Rows(x) \/ b \notin Rows(x)
    BY <1>4, <1>5, <2>1, <2>3
  <2>. QED
    BY <2>2, <2>3
<1>7. ASSUME NEW x \in Opened(w), ~Raced(w, x)
      PROVE  /\ seen[w][x] = Len(events[x])
             /\ \A k \in Rows(x) : events[x][k].time < at[w]
  <2>1. seen[w][x] = Len(events[x]) /\ x \in ONTs
    BY <1>7 DEF Raced, Opened, NewsAsOf
  <2>2. \A k \in Rows(x) : k <= seen[w][x]
    BY <2>1, <1>3 DEF Rows
  <2>. QED
    BY <1>2, <2>1, <2>2 DEF Stamped
<1>8. ASSUME NEW x \in ONTs, NEW a \in Rows(x)', NEW b \in Rows(x)'
      PROVE  Meet(x, a, b)'
  <2>1. CASE a \in Rows(x) /\ b \in Rows(x)
    <3>1. Meet(x, a, b) /\ events'[x][a] = events[x][a] /\ events'[x][b] = events[x][b]
      BY <1>3, <2>1 DEF History, AllMeet
    <3>. QED
      BY <1>3, <3>1 DEF Meet
  <2>2. CASE a \notin Rows(x)
    <3>. SUFFICES ASSUME events'[x][a].time < events'[x][b].time, ~ events'[x][a].raced
                  PROVE  FALSE
      BY DEF Meet
    <3>1. x \in Opened(w) /\ events'[x][a].time = at[w] /\ ~Raced(w, x)
      BY <1>4, <1>5, <2>2
    <3>2. b \in Rows(x) => events[x][b].time < at[w] /\ events'[x][b] = events[x][b] /\ events[x][b].time \in Nat
      BY <1>4, <1>7, <3>1
    <3>3. b \notin Rows(x) => events'[x][b].time = at[w]
      BY <1>4, <1>5
    <3>. QED
      BY <1>2, <3>1, <3>2, <3>3
  <2>3. CASE a \in Rows(x) /\ b \notin Rows(x)
    <3>. SUFFICES ASSUME \A k \in Rows(x)' : events'[x][k].time <= events'[x][a].time \/ events'[x][k].time >= events'[x][b].time,
                         ~ events'[x][a].raced, ~ events'[x][b].raced
                  PROVE  /\ events'[x][a].lasted = Whole(events'[x][b].time - events'[x][a].time)
                         /\ events'[x][a].type # events'[x][b].type
      BY DEF Meet
    <3>. DEFINE last == Newest(x, seen[w][x])
    <3>1. /\ x \in Opened(w) /\ ~Raced(w, x) /\ events'[x][b].time = at[w]
          /\ events'[x][b].type = Kind(verdict[w][x]) /\ events'[x][a] = events[x][a]
      BY <1>3, <1>4, <1>5, <2>3
    <3>2. seen[w][x] = Len(events[x]) /\ seen[w][x] \in Nat /\ seen[w][x] > 0
      BY <1>3, <1>7, <2>3, <3>1 DEF Rows
    <3>3. last \in Rows(x) /\ \A j \in Rows(x) : events[x][j].time <= events[x][last].time
      BY <3>2, NewestIs DEF History, Rows
    <3>. HIDE DEF last
    <3>4. \A k \in Rows(x) : events[x][k].time <= events[x][a].time
      <4>. SUFFICES ASSUME NEW k \in Rows(x) PROVE events[x][k].time <= events[x][a].time
        OBVIOUS
      <4>1. events'[x][k].time <= events'[x][a].time \/ events'[x][k].time >= events'[x][b].time
        BY <1>3
      <4>2. events[x][k].time < at[w] /\ events'[x][k] = events[x][k] /\ events[x][k].time \in Nat
        BY <1>3, <1>7, <3>1, RowsAre DEF History
      <4>. QED
        BY <1>2, <3>1, <4>1, <4>2
    <3>5. a = last
      <4>1. events[x][a].time <= events[x][last].time /\ events[x][last].time <= events[x][a].time
        BY <2>3, <3>3, <3>4
      <4>2. events[x][a].time \in Nat /\ events[x][last].time \in Nat
        BY <2>3, <3>3, RowsAre DEF History
      <4>3. events[x][a].time = events[x][last].time
        BY <4>1, <4>2
      <4>. QED
        BY <2>3, <3>3, <4>3 DEF History, OneTimeEach
    <3>6. events[x][last].lasted = Whole(at[w] - events[x][last].time)
      BY <1>1, <1>2, <3>1, <3>2, <3>5 DEF ClosedBy, last
    <3>7. events[x][last].type # Kind(verdict[w][x])
      BY <3>1, <3>2 DEF Opened, NewsAsOf, last
    <3>. QED
      BY <3>1, <3>5, <3>6, <3>7
  <2>. QED
    BY <2>1, <2>2, <2>3
<1>9. ASSUME NEW v \in Writers \ {w}, pc[v] = "log"
      PROVE  Stamped(v)' /\ ClosedBy(v)'
  <2>1. Stamped(v) /\ ClosedBy(v) /\ at[v] # at[w]
    BY <1>1, <1>2, <1>9 DEF History, Logging, Stamped
  <2>2. \A x \in ONTs : seen[v][x] \in Nat /\ seen[v][x] <= Len(events[x])
    BY DEF History, Shape, MemoryOK, HistoryOK
  <2>3. ASSUME NEW x \in ONTs, NEW a \in Rows(x)'
        PROVE  events'[x][a].time # at[v] /\ (a <= seen[v][x] => events'[x][a].time < at[v])
    <3>1. CASE a \in Rows(x)
      BY <1>3, <2>1, <3>1 DEF Stamped
    <3>2. CASE a \notin Rows(x)
      <4>1. a = Len(events[x]) + 1 /\ events'[x][a].time = at[w]
        BY <1>4, <1>5, <3>2
      <4>2. ~ (a <= seen[v][x])
        BY <1>3, <2>2, <4>1
      <4>. QED
        BY <2>1, <4>1, <4>2
    <3>. QED
      BY <3>1, <3>2
  <2>4. Stamped(v)'
    BY <1>1, <2>1, <2>3 DEF Stamped
  <2>5. /\ \A x \in ONTs : Newest(x, seen[v][x])' = Newest(x, seen[v][x])
        /\ Opened(v)' = Opened(v) /\ Opened(v) \subseteq ONTs
    BY <1>1, <1>3, OpenedStays DEF History, Opened, NewsAsOf
  <2>6. ASSUME NEW x \in Opened(v)' \ left'[v], seen'[v][x] > 0,
               ~ events'[x][Newest(x, seen[v][x])'].raced
        PROVE  events'[x][Newest(x, seen[v][x])'].lasted
                 = Whole(at'[v] - events'[x][Newest(x, seen[v][x])'].time)
    <3>. DEFINE k == Newest(x, seen[v][x])
    <3>1. x \in Opened(v) \ left[v] /\ x \in ONTs /\ Newest(x, seen[v][x])' = k /\ seen[v][x] > 0
      BY <1>1, <2>5, <2>6
    <3>2. k \in Rows(x)
      BY <2>2, <3>1, NewestIs DEF History
    <3>3. events'[x][k] = events[x][k]
      BY <1>3, <3>1, <3>2
    <3>4. events[x][k].raced \/ events[x][k].lasted = Whole(at[v] - events[x][k].time)
      BY <2>1, <3>1 DEF ClosedBy
    <3>. HIDE DEF k
    <3>. QED
      BY <1>1, <2>6, <3>1, <3>3, <3>4
  <2>7. ClosedBy(v)'
    BY <2>6 DEF ClosedBy
  <2>. QED
    BY <2>4, <2>7
<1>10. AllMeet'
  BY <1>8 DEF AllMeet
<1>11. \A v \in Writers : Logging(v)'
  BY <1>1, <1>9 DEF Logging
<1>. QED
  BY <1>6, <1>10, <1>11 DEF History

LEMMA LogHistory ==
  ASSUME History, Shape', NEW w \in Writers, Log(w)
  PROVE  History'
<1>1. CASE latestEventPerONT(w)
  <2>1. CASE Return(w)
    BY <1>1, <2>1, ReturnHistory DEF latestEventPerONT
  <2>2. CASE pc' = [pc EXCEPT ![w] = "now"] /\ \E n : seen' = [seen EXCEPT ![w] = n] /\ UNCHANGED <<verdict, left, at>>
    <3>1. UNCHANGED events /\ \A v \in Writers : pc'[v] = "log" => v # w /\ pc[v] = "log"
      BY <1>1, <2>2 DEF latestEventPerONT, History, Shape, MemoryOK
    <3>2. \A v \in Writers \ {w} : seen'[v] = seen[v] /\ verdict'[v] = verdict[v] /\ left'[v] = left[v] /\ at'[v] = at[v]
      BY <2>2 DEF History, Shape, MemoryOK
    <3>. QED
      BY <3>1, <3>2, HistoryKept
  <2>. QED
    BY <1>1, <2>1, <2>2 DEF latestEventPerONT
<1>. QED
  BY <1>1, NowHistory, OpenHistory, CloseHistory DEF Log

LEMMA NextHistory == History /\ [Next]_vars => History'
<1>. SUFFICES ASSUME History, [Next]_vars PROVE History'
  OBVIOUS
<1>0. Shape'
  BY NextShape DEF History
<1>1. \A w \in Writers : Log(w) => History'
  BY <1>0, LogHistory
<1>2. ASSUME NEW w \in Writers, Fails(w) PROVE History'
  BY <1>0, <1>2, ReturnHistory DEF Fails
<1>3. CASE UNCHANGED vars
  BY <1>0, <1>3, HistoryKept DEF vars
<1>4. ASSUME NEW t \in Tiers, Cycle(t), ~Log(t) PROVE History'
  <2>1. /\ UNCHANGED <<events, seen, at>> /\ pc[t] # "log" /\ pc'[t] # "log"
        /\ \A v \in Writers \ {t} : pc'[v] = pc[v] /\ left'[v] = left[v] /\ verdict'[v] = verdict[v]
    BY <1>4, Sets DEF Cycle, readChassis, EachONTOfOLT, handleStatusChange, History, Shape, MemoryOK
  <2>. QED
    BY <1>0, <2>1, HistoryKept
<1>5. ASSUME Trapd \/ \E m \in traps, again \in BOOLEAN : TrapArrives(m, again), ~Log("trapd") PROVE History'
  <2>1. /\ UNCHANGED <<events, seen, at>> /\ pc["trapd"] # "log" /\ pc'["trapd"] # "log"
        /\ \A v \in Writers \ {"trapd"} : pc'[v] = pc[v] /\ left'[v] = left[v] /\ verdict'[v] = verdict[v]
    BY <1>5, Sets DEF Trapd, TrapArrives, ApplyTrap, History, Shape, MemoryOK
  <2>. QED
    BY <1>0, <2>1, HistoryKept
<1>6. CASE \/ \E o \in ONTs, p \in Phases, heard \in BOOLEAN : Flip(o, p, heard)
           \/ \E o \in ONTs : settleONUStatus(o) \/ Look(o) \/ storeSettledONUStatus(o) \/ WatchFails(o)
  <2>1. UNCHANGED <<events, memory>>
    BY <1>6 DEF Flip, settleONUStatus, Look, storeSettledONUStatus, WatchFails
  <2>. QED
    BY <1>0, <2>1, HistoryKept DEF memory
<1>. QED
  BY <1>1, <1>2, <1>3, <1>4, <1>5, <1>6, Sets DEF Next

LEMMA AlwaysHistory == Spec => []History
<1>1. Init => History
  <2>. SUFFICES ASSUME Init PROVE History
    OBVIOUS
  <2>1. \A o \in ONTs : Rows(o) = {}
    BY DEF Init, Rows
  <2>2. \A w \in Writers : pc[w] # "log"
    BY DEF Init
  <2>. QED
    BY <2>1, <2>2, InitShape DEF History, OneTimeEach, AllMeet, Logging
<1>. QED
  BY <1>1, NextHistory, PTL DEF Spec

(* Where no two calls overlapped in an ONT's history its durations meet:   *)
(* for any number of tiers, ONTs, failures and events.                     *)
THEOREM DurationsAlwaysMeet == Spec => []DurationsMeet
<1>1. History => DurationsMeet
  BY DEF History, AllMeet, Meet, Rows, DurationsMeet
<1>. QED
  BY <1>1, AlwaysHistory, PTL

-----------------------------------------------------------------------------
(* Availability.  Each event of the window lasts until the next one of it, *)
(* so from the first of them on the stretches are the whole window; what   *)
(* is counted is each stretch in whole seconds, and each cut loses less    *)
(* than a second.                                                          *)

Stretch(o, E, i, e) == End(o, E, i, e) - events[o][i].time
Total(o, E, e, K) == MapThenSumSet(LAMBDA i : Lasts(o, E, i, e), K)

\* What the model adds up is a sum in this sense.
LEMMA SumIs ==
  ASSUME NEW o, NEW e, NEW E, IsFiniteSet(E), NEW g, g = [i \in E |-> Lasts(o, E, i, e)],
         NEW it, IsSum(it, g, E), g \in [E -> Int], NEW K \in SUBSET E
  PROVE  Total(o, E, e, K) = it[K]
<1>. DEFINE F(f) == [s \in SUBSET K |->
                       IF s = {} THEN 0
                       ELSE Lasts(o, E, CHOOSE x \in s : TRUE, e) + f[s \ {CHOOSE x \in s : TRUE}]]
            s0 == CHOOSE f : f = F(f)
<1>1. ASSUME NEW f
      PROVE  F(f) = [s \in SUBSET K |-> IF s = {} THEN 0 ELSE g[Some(s)] + f[s \ {Some(s)}]]
  <2>1. ASSUME NEW s \in SUBSET K, s # {}
        PROVE  Lasts(o, E, CHOOSE x \in s : TRUE, e) = g[Some(s)]
    <3>1. Some(s) \in E
      BY <2>1, SomeIs
    <3>. QED
      BY <3>1 DEF Some
  <2>. QED
    BY <2>1 DEF Some
<1>2. \E f : f = F(f)
  <2>1. IsFiniteSet(K)
    BY FS_Subset
  <2>2. PICK f : IsSum(f, g, K)
    BY <2>1, SumExists
  <2>3. f = F(f)
    BY <1>1, <2>2 DEF IsSum
  <2>. QED
    BY <2>3
<1>3. s0 = F(s0)
  BY <1>2
<1>4. IsSum(s0, g, K)
  BY <1>1, <1>3 DEF IsSum
<1>5. Total(o, E, e, K) = s0[K]
  BY DEF Total, MapThenSumSet, MapThenFoldSet
<1>. HIDE DEF s0
<1>6. s0[K] = it[K]
  BY <1>4, SumsAgree
<1>. QED
  BY <1>5, <1>6

\* What the code says of the next event, in the terms of Telescope.
LEMMA StretchIs ==
  ASSUME NEW o, NEW e \in Nat, NEW E, \A i \in E : events[o][i].time \in Nat /\ events[o][i].time <= e,
         NEW i \in E
  PROVE  /\ Stretch(o, E, i, e) \in Int
         /\ \A j \in E : Successor(E, [k \in E |-> events[o][k].time], i, j)
                         => Stretch(o, E, i, e) = events[o][j].time - events[o][i].time
         /\ (\A k \in E : events[o][k].time <= events[o][i].time) => Stretch(o, E, i, e) = e - events[o][i].time
<1>. DEFINE later == {events[o][j].time : j \in {k \in E : events[o][k].time > events[o][i].time}}
            ends == {e} \cup later
<1>1. Stretch(o, E, i, e) = Min(ends) - events[o][i].time
  BY DEF Stretch, End
<1>2. ends \in SUBSET Nat /\ ends # {}
  OBVIOUS
<1>3. \E n \in ends : \A k \in ends : n <= k
  <2>. HIDE DEF ends
  <2>. QED
    BY <1>2, Least
<1>4. Min(ends) \in ends /\ \A k \in ends : Min(ends) <= k
  BY <1>3 DEF Min
<1>5. ASSUME NEW j \in E, Successor(E, [k \in E |-> events[o][k].time], i, j)
      PROVE  Min(ends) = events[o][j].time
  <2>1. events[o][j].time \in ends /\ \A k \in ends : events[o][j].time <= k
    BY <1>5 DEF Successor
  <2>2. Min(ends) <= events[o][j].time /\ events[o][j].time <= Min(ends)
    BY <1>4, <2>1
  <2>3. Min(ends) \in Nat /\ events[o][j].time \in Nat
    BY <1>2, <1>4
  <2>. QED
    BY <2>2, <2>3
<1>6. ASSUME \A k \in E : events[o][k].time <= events[o][i].time
      PROVE  Min(ends) = e
  BY <1>4, <1>6
<1>7. Min(ends) \in Nat
  BY <1>2, <1>4
<1>. HIDE DEF ends
<1>. QED
  BY <1>1, <1>5, <1>6, <1>7

\* What of a sum is needed to compare it with another.
Adds(it, g, S) ==
  /\ it[{}] = 0 /\ \A T \in SUBSET S : it[T] \in Int
  /\ \A T \in SUBSET S : \A x \in T : it[T] = g[x] + it[T \ {x}]

LEMMA SumAdds ==
  ASSUME NEW S, IsFiniteSet(S), NEW g \in [S -> Int], NEW it, IsSum(it, g, S)
  PROVE  Adds(it, g, S)
<1>1. it[{}] = 0 /\ \A T \in SUBSET S : it[T] \in Int
  BY SumIsInt
<1>2. ASSUME NEW T \in SUBSET S, NEW x \in T PROVE it[T] = g[x] + it[T \ {x}]
  BY SumTakes
<1>. QED
  BY <1>1, <1>2 DEF Adds

\* Cut to whole seconds each, so many terms lose less than as many seconds.
LEMMA CutSums ==
  ASSUME NEW S, IsFiniteSet(S), NEW g \in [S -> Int], NEW it, Adds(it, g, S),
         NEW h \in [S -> Int], \A x \in S : h[x] = Whole(g[x]), NEW ih, Adds(ih, h, S)
  PROVE  \A T \in SUBSET S :
           /\ Second * ih[T] <= it[T]
           /\ it[T] <= Second * ih[T] + (Second - 1) * Cardinality(T)
<1>. DEFINE P == {T \in SUBSET S : /\ Second * ih[T] <= it[T]
                                   /\ it[T] <= Second * ih[T] + (Second - 1) * Cardinality(T)}
<1>1. it[{}] = 0 /\ ih[{}] = 0 /\ \A T \in SUBSET S : it[T] \in Int /\ ih[T] \in Int
  BY DEF Adds
<1>2. \A T \in SUBSET S : \A x \in T : it[T] = g[x] + it[T \ {x}] /\ ih[T] = h[x] + ih[T \ {x}]
  BY DEF Adds
<1>3. ASSUME NEW T \in SUBSET S, \A x \in T : T \ {x} \in P
      PROVE  T \in P
  <2>1. CASE T = {}
    <3>1. Cardinality(T) = 0 /\ it[T] = 0 /\ ih[T] = 0
      BY <1>1, <2>1, FS_EmptySet
    <3>. QED
      BY <3>1, ParametersAssumption
  <2>2. CASE T # {}
    <3>1. PICK x \in T : TRUE
      BY <2>2
    <3>. DEFINE R == T \ {x}
    <3>2. R \in SUBSET S /\ R \in P /\ x \in S
      BY <1>3
    <3>3. Cardinality(R) = Cardinality(T) - 1 /\ Cardinality(T) \in Nat
      BY <3>1, FS_Subset, FS_RemoveElement, FS_CardinalityType
    <3>4. it[T] = g[x] + it[R] /\ ih[T] = h[x] + ih[R]
      BY <1>2
    <3>5. g[x] \in Int /\ h[x] \in Int /\ Second * h[x] <= g[x] /\ g[x] < Second * h[x] + Second
      BY <3>2, WholeIs
    <3>6. it[R] \in Int /\ ih[R] \in Int
      BY <1>1, <3>2
    <3>7. Second * ih[R] <= it[R] /\ it[R] <= Second * ih[R] + (Second - 1) * Cardinality(R)
      BY <3>2
    <3>. HIDE DEF R, P
    <3>8. Second * ih[T] = Second * h[x] + Second * ih[R] /\ Second * ih[R] \in Int /\ Second * h[x] \in Int
      BY <3>4, <3>5, <3>6, ParametersAssumption
    <3>9. (Second - 1) * Cardinality(T) = (Second - 1) * Cardinality(R) + (Second - 1)
          /\ (Second - 1) * Cardinality(R) \in Int /\ Second \in Int
      <4>1. \A a, n \in Int : a * n = a * (n - 1) + a /\ a * (n - 1) \in Int
        OBVIOUS
      <4>2. Second - 1 \in Int /\ Second \in Int /\ Cardinality(T) \in Int
        BY <3>3, ParametersAssumption
      <4>. QED
        BY <3>3, <4>1, <4>2
    <3>10. Second * ih[T] <= it[T]
      BY <3>4, <3>5, <3>6, <3>7, <3>8
    <3>11. it[T] <= Second * ih[T] + (Second - 1) * Cardinality(T)
      BY <3>4, <3>5, <3>6, <3>7, <3>8, <3>9
    <3>. QED
      BY <3>10, <3>11 DEF P
  <2>. QED
    BY <2>1, <2>2
<1>4. P \in SUBSET SUBSET S
  OBVIOUS
<1>5. P = SUBSET S
  <2>. HIDE DEF P
  <2>. QED
    BY <1>3, <1>4, Subsets
<1>. QED
  BY <1>5

\* What so many cuts make of a total: it is short by at most one for each cut
\* but one, the total's own.
LEMMA CutTotal ==
  ASSUME NEW whole \in Int, NEW counted \in Int, NEW n \in Nat,
         Second * counted <= whole, whole <= Second * counted + (Second - 1) * (n + 1)
  PROVE  0 <= Whole(whole) - counted /\ Whole(whole) - counted <= n
<1>. DEFINE total == Whole(whole)
<1>1. total \in Int /\ Second * total <= whole /\ whole < Second * total + Second
  BY WholeIs
<1>. HIDE DEF total
<1>2. Second \in Int /\ Second >= 1
  BY ParametersAssumption
<1>3. \A a, b \in Int : Second * a < Second * b => a < b
  BY <1>2
<1>4. Second * (total + 1) = Second * total + Second /\ Second * total \in Int
  BY <1>1, <1>2
<1>5. Second * (counted + (n + 1)) = Second * counted + Second * (n + 1) /\ Second * counted \in Int /\ Second * (n + 1) \in Int
  BY <1>2
<1>6. (Second - 1) * (n + 1) < Second * (n + 1) /\ (Second - 1) * (n + 1) \in Int
  BY <1>2
<1>7. Second * counted < Second * (total + 1)
  <2>. DEFINE a == Second * counted
              b == Second * total
  <2>1. a \in Int /\ b \in Int /\ a <= whole /\ whole < b + Second
    BY <1>1, <1>4, <1>5
  <2>. HIDE DEF a, b
  <2>2. a < b + Second
    BY <1>2, <2>1
  <2>. QED
    BY <1>4, <2>2 DEF a, b
<1>8. Second * total < Second * (counted + (n + 1))
  BY <1>1, <1>4, <1>5, <1>6
<1>9. counted < total + 1 /\ total < counted + (n + 1)
  BY <1>1, <1>3, <1>7, <1>8
<1>. QED
  BY <1>1, <1>9 DEF total

LEMMA AddsUp ==
  ASSUME History, NEW o \in ONTs, NEW s \in Nat, NEW e \in Nat, s < e
  PROVE  LET lost == Whole(e - s) - (Seconds(o, s, e, "online") + Seconds(o, s, e, "offline"))
         IN 0 <= lost /\ lost <= Cardinality(InRange(o, s, e))
<1>. DEFINE E == InRange(o, s, e)
            Of(kind) == {i \in E : events[o][i].type = kind}
            t == [i \in E |-> events[o][i].time]
            g == [i \in E |-> Stretch(o, E, i, e)]
            h == [i \in E |-> Lasts(o, E, i, e)]
            f == First(o, E)
            counted == Seconds(o, s, e, "online") + Seconds(o, s, e, "offline")
<1>1. e - s \in Int
  OBVIOUS
<1>2. CASE E = {}
  <2>1. Seconds(o, s, e, "online") = IF Kind(row[o]) = "online" THEN Whole(e - s) ELSE 0
    BY <1>2 DEF Seconds
  <2>2. Seconds(o, s, e, "offline") = IF Kind(row[o]) = "offline" THEN Whole(e - s) ELSE 0
    BY <1>2 DEF Seconds
  <2>3. Kind(row[o]) \in {"online", "offline"} /\ "online" # "offline"
    BY DEF Kind
  <2>4. Whole(e - s) \in Int /\ Cardinality(E) = 0
    BY <1>1, <1>2, WholeIs, FS_EmptySet
  <2>. QED
    BY <2>1, <2>2, <2>3, <2>4
<1>3. CASE E # {}
  <2>1. ASSUME NEW i \in E
        PROVE  /\ i \in Rows(o) /\ events[o][i].time \in Nat /\ s <= events[o][i].time /\ events[o][i].time <= e
               /\ events[o][i].type \in {"online", "offline"}
    <3>1. i \in Rows(o) /\ s <= events[o][i].time /\ events[o][i].time <= e
      BY DEF InRange, Rows
    <3>2. events[o][i] \in EventRow /\ events[o][i].time \in Nat
      BY <3>1, RowsAre DEF History
    <3>. QED
      BY <3>1, <3>2 DEF EventRow
  <2>2. IsFiniteSet(E) /\ Cardinality(E) \in Nat
    <3>1. E \subseteq 1..Len(events[o]) /\ Len(events[o]) \in Nat
      BY RowsAre DEF InRange, History
    <3>2. \A n \in Nat : IsFiniteSet(1..n)
      BY FS_Interval
    <3>. QED
      BY <3>1, <3>2, FS_Subset, FS_CardinalityType
  <2>3. \A i, j \in E : events[o][i].time = events[o][j].time => i = j
    BY <2>1 DEF History, OneTimeEach
  <2>. HIDE DEF E
  <2>4. /\ g \in [E -> Int] /\ t \in [E -> Nat]
        /\ \A i, j \in E : Successor(E, t, i, j) => g[i] = t[j] - t[i]
        /\ \A i \in E : (\A k \in E : t[k] <= t[i]) => g[i] = e - t[i]
    <3>1. \A i \in E : events[o][i].time \in Nat /\ events[o][i].time <= e
      BY <2>1
    <3>2. ASSUME NEW i \in E
          PROVE  /\ Stretch(o, E, i, e) \in Int
                 /\ \A j \in E : Successor(E, t, i, j) => Stretch(o, E, i, e) = events[o][j].time - events[o][i].time
                 /\ (\A k \in E : events[o][k].time <= events[o][i].time) => Stretch(o, E, i, e) = e - events[o][i].time
      BY <3>1, StretchIs
    <3>3. g \in [E -> Int] /\ t \in [E -> Nat]
      BY <3>1, <3>2
    <3>4. \A i, j \in E : Successor(E, t, i, j) => g[i] = t[j] - t[i]
      <4>. SUFFICES ASSUME NEW i \in E, NEW j \in E, Successor(E, t, i, j)
                    PROVE  g[i] = t[j] - t[i]
        OBVIOUS
      <4>1. Stretch(o, E, i, e) = events[o][j].time - events[o][i].time
        BY <3>2
      <4>. QED
        BY <4>1
    <3>5. \A i \in E : (\A k \in E : t[k] <= t[i]) => g[i] = e - t[i]
      BY <3>2
    <3>. QED
      BY <3>3, <3>4, <3>5
  <2>5. h \in [E -> Int] /\ \A i \in E : h[i] = Whole(g[i])
    <3>1. \A i \in E : Stretch(o, E, i, e) \in Int
      BY <2>4
    <3>2. \A i \in E : Lasts(o, E, i, e) = Whole(Stretch(o, E, i, e))
      BY DEF Lasts, Stretch
    <3>. QED
      BY <3>1, <3>2, WholeIs
  <2>6. PICK it : IsSum(it, g, E)
    BY <2>2, SumExists
  <2>7. PICK ih : IsSum(ih, h, E)
    BY <2>2, SumExists
  <2>8. f \in E /\ \A j \in E : events[o][f].time <= events[o][j].time
    <3>. DEFINE D == {events[o][i].time : i \in E}
    <3>1. D \in SUBSET Nat /\ D # {}
      BY <1>3, <2>1
    <3>2. PICK d \in D : \A k \in D : d <= k
      <4>. HIDE DEF D
      <4>. QED
        BY <3>1, Least
    <3>3. PICK i \in E : d = events[o][i].time
      BY <3>2
    <3>4. \E i0 \in E : \A j \in E : events[o][i0].time <= events[o][j].time
      BY <3>2, <3>3
    <3>. QED
      BY <3>4 DEF First
  <2>9. it[E] = e - events[o][f].time
    <3>1. it[{i \in E : t[i] >= t[f]}] = e - t[f]
      <4>1. (\A i \in E : t[i] <= e) /\ (\A i, j \in E : t[i] = t[j] => i = j)
        BY <2>1, <2>3
      <4>. HIDE DEF t, g, f
      <4>2. \A u \in E : it[{i \in E : t[i] >= t[u]}] = e - t[u]
        BY <2>2, <2>4, <2>6, <4>1, Telescope
      <4>. QED
        BY <2>8, <4>2
    <3>2. {i \in E : t[i] >= t[f]} = E
      <4>1. ASSUME NEW i \in E PROVE t[i] >= t[f]
        <5>1. t[i] = events[o][i].time /\ t[f] = events[o][f].time /\ t[i] \in Nat /\ t[f] \in Nat
          BY <2>1, <2>8
        <5>. QED
          BY <2>8, <5>1
      <4>. QED
        BY <4>1
    <3>. QED
      BY <2>8, <3>1, <3>2
  <2>10. ASSUME NEW kind \in {"online", "offline"}
         PROVE  Seconds(o, s, e, kind)
                  = ih[Of(kind)] + (IF events[o][f].type = kind THEN Whole(events[o][f].time - s) ELSE 0)
    <3>1. Total(o, E, e, Of(kind)) = ih[Of(kind)]
      <4>1. Of(kind) \in SUBSET E /\ h = [i \in E |-> Lasts(o, E, i, e)]
        OBVIOUS
      <4>. HIDE DEF Of, h
      <4>. QED
        BY <2>2, <2>5, <2>7, <4>1, SumIs
    <3>. QED
      BY <1>3, <3>1 DEF Seconds, Total, E
  <2>11. ih[E] = ih[Of("online")] + ih[Of("offline")]
    <3>1. Of("online") \cup Of("offline") = E /\ Of("online") \cap Of("offline") = {}
      BY <2>1
    <3>2. Of("online") \in SUBSET E /\ Of("offline") \in SUBSET E
      OBVIOUS
    <3>. HIDE DEF Of, h
    <3>. QED
      BY <2>2, <2>5, <2>7, <3>1, <3>2, SumOfParts
  <2>12. ih[E] \in Int /\ \A kind \in {"online", "offline"} : ih[Of(kind)] \in Int
    <3>1. \A T \in SUBSET E : ih[T] \in Int
      <4>. HIDE DEF h
      <4>. QED
        BY <2>2, <2>5, <2>7, SumIsInt
    <3>. QED
      BY <3>1
  <2>13. Second * ih[E] <= it[E] /\ it[E] <= Second * ih[E] + (Second - 1) * Cardinality(E)
    <3>. HIDE DEF g, h
    <3>1. Adds(it, g, E)
      BY <2>2, <2>4, <2>6, SumAdds
    <3>2. Adds(ih, h, E)
      BY <2>2, <2>5, <2>7, SumAdds
    <3>. QED
      BY <2>2, <2>4, <2>5, <3>1, <3>2, CutSums
  <2>14. /\ events[o][f].time \in Nat /\ events[o][f].type \in {"online", "offline"}
         /\ events[o][f].time - s \in Int
    BY <2>1, <2>8
  <2>. DEFINE before == Whole(events[o][f].time - s)
              n == Cardinality(E)
  <2>15. /\ before \in Int /\ Second * before <= events[o][f].time - s
         /\ events[o][f].time - s < Second * before + Second
    BY <2>14, WholeIs
  <2>. HIDE DEF Of, f, before
  <2>16. counted = ih[E] + before
    BY <2>10, <2>11, <2>12, <2>14, <2>15 DEF before
  <2>. HIDE DEF counted, n
  <2>17. /\ counted \in Int /\ Second * counted = Second * ih[E] + Second * before
         /\ Second * ih[E] \in Int /\ Second * before \in Int /\ Second \in Int
    BY <2>12, <2>15, <2>16, ParametersAssumption
  <2>18. /\ (Second - 1) * (n + 1) = (Second - 1) * n + (Second - 1)
         /\ (Second - 1) * n \in Int /\ n \in Nat
    <3>1. \A a, b \in Int : a * (b + 1) = a * b + a /\ a * b \in Int
      OBVIOUS
    <3>2. Second - 1 \in Int /\ n \in Nat
      BY <2>2, <2>17 DEF n
    <3>. QED
      BY <3>1, <3>2
  <2>19. e - s = it[E] + (events[o][f].time - s)
    BY <2>9, <2>14
  <2>20. it[E] \in Int /\ it[E] <= Second * ih[E] + (Second - 1) * n
    BY <2>9, <2>13, <2>14 DEF n
  <2>21. Second * counted <= e - s
    BY <2>13, <2>14, <2>15, <2>17, <2>19, <2>20
  <2>22. e - s <= Second * counted + (Second - 1) * (n + 1)
    BY <2>14, <2>15, <2>17, <2>18, <2>19, <2>20
  <2>23. 0 <= Whole(e - s) - counted /\ Whole(e - s) - counted <= n
    BY <1>1, <2>17, <2>18, <2>21, <2>22, CutTotal
  <2>. QED
    BY <2>23 DEF counted, n, E
<1>. QED
  BY <1>2, <1>3

(* Availability places every second of the window once, to less than one   *)
(* for each event: for any history, however its calls raced, and a window  *)
(* of any length.                                                          *)
THEOREM AvailabilityAlwaysAddsUp == Spec => []AvailabilityAddsUp
<1>1. History => AvailabilityAddsUp
  <2>. SUFFICES ASSUME History, NEW o \in ONTs, NEW s \in 0..(clock + Second), NEW e \in 0..(clock + Second), s < e
                PROVE  LET lost == Whole(e - s) - (Seconds(o, s, e, "online") + Seconds(o, s, e, "offline"))
                       IN 0 <= lost /\ lost <= Cardinality(InRange(o, s, e))
    BY DEF AvailabilityAddsUp
  <2>1. s \in Nat /\ e \in Nat
    BY ParametersAssumption DEF History, Shape, HistoryOK
  <2>. QED
    BY <2>1, AddsUp
<1>. QED
  BY <1>1, AlwaysHistory, PTL
=============================================================================
