-------------------------- MODULE DiscoveryProofs --------------------------
(***************************************************************************)
(* Theorems about Discovery for any chassis, any number of workers and any *)
(* durations that keep to what they are meant for.                         *)
(***************************************************************************)
EXTENDS Discovery, TLAPS

(* One run moves on.                                                       *)
RunRecord == [step : Steps, walk : SUBSET Pairs, missed : SUBSET Places, look : SUBSET Pairs, quiet : Nat]
OthersStay(r) == \A q \in Runs \ {r} : run'[q] = run[q]

LEMMA ToMoves ==
  ASSUME TypeOK, NEW r \in Runs, NEW step \in Steps, To(r, step)
  PROVE  /\ run' \in [Runs -> RunRecord] /\ OthersStay(r)
         /\ run'[r].step = step /\ run'[r].walk = run[r].walk /\ run'[r].quiet = 0
<1>1. run[r] \in RunRecord
  BY DEF TypeOK, RunRecord
<1>2. run' = [run EXCEPT ![r] = [[[@ EXCEPT !.step = step] EXCEPT !.missed = {}] EXCEPT !.quiet = 0]]
  BY DEF To, TypeOK
<1>3. [[[run[r] EXCEPT !.step = step] EXCEPT !.missed = {}] EXCEPT !.quiet = 0] \in RunRecord
  BY <1>1 DEF RunRecord
<1>. QED
  BY <1>1, <1>2, <1>3 DEF TypeOK, OthersStay, RunRecord

LEMMA StopMoves ==
  ASSUME TypeOK, NEW r \in Runs, Stop(r)
  PROVE  /\ run' \in [Runs -> RunRecord] /\ OthersStay(r)
         /\ run'[r].step = "idle" /\ run'[r].walk = {} /\ run'[r].quiet = 0
<1>1. Idle \in RunRecord
  BY DEF Idle, At, RunRecord, Steps
<1>. QED
  BY <1>1 DEF TypeOK, Stop, OthersStay, Idle, At, RunRecord

-----------------------------------------------------------------------------
(* The shape of the state, action by action.                               *)

Shaped(row) == row \in Row /\ (row.pending => row.serial \in Serials)
OntsType == DOMAIN onts \subseteq Places /\ \A p \in DOMAIN onts : Shaped(onts[p])
ClaimType == claim \in [phase : {"idle", "discovering", "polling", "completed"},
                        beat : 0 .. Stale, poll : 0 .. MinInterval]
RunType ==
  /\ run \in [Runs -> RunRecord]
  /\ \A r \in Runs : run[r].step \in {"idle", "claim", "claimed", "walk"} => run[r].walk = {}
ChassisType == chassis \in [Places -> Serials \cup {None}]

LEMMA TypeParts ==
  TypeOK <=> ChassisType /\ OntsType /\ ClaimType /\ RunType
BY DEF TypeOK, ChassisType, OntsType, Shaped, ClaimType, RunType, RunRecord

LEMMA TypePartsNext ==
  ASSUME ChassisType', OntsType', ClaimType', RunType'
  PROVE  TypeOK'
BY DEF TypeOK, ChassisType, OntsType, Shaped, ClaimType, RunType, RunRecord

LEMMA ChassisTypeStays == ASSUME TypeOK, chassis' = chassis PROVE ChassisType'
BY DEF TypeOK, ChassisType

LEMMA RunTypeStays == ASSUME TypeOK, run' = run PROVE RunType'
BY DEF TypeOK, RunType, RunRecord

LEMMA OntsTypeStays == ASSUME TypeOK, onts' = onts PROVE OntsType'
BY DEF TypeOK, OntsType, Shaped

LEMMA ClaimTypeStays == ASSUME TypeOK, claim' = claim PROVE ClaimType'
BY DEF TypeOK, ClaimType

(* A run's step keeps the runs' types if it empties the walk it ends with. *)
LEMMA RunTypeKept ==
  ASSUME TypeOK, NEW r \in Runs, OthersStay(r), run' \in [Runs -> RunRecord],
         run'[r].step \in {"idle", "claim", "claimed", "walk"} => run'[r].walk = {}
  PROVE  RunType'
BY DEF RunType, OthersStay, TypeOK

LEMMA ProgressType ==
  ASSUME TypeOK, NEW phase \in {"idle", "discovering", "polling", "completed"},
         updateDiscoveryProgress(phase)
  PROVE  ClaimType' /\ claim'.phase = phase /\ claim'.beat = 0
<1>1. claim' = [[claim EXCEPT !.phase = phase] EXCEPT !.beat = 0]
  BY DEF updateDiscoveryProgress, TypeOK
<1>2. claim \in [phase : {"idle", "discovering", "polling", "completed"},
                 beat : 0 .. Stale, poll : 0 .. MinInterval]
  BY DEF TypeOK
<1>3. 0 \in 0 .. Stale
  BY ParametersAssumption
<1>. QED
  BY <1>1, <1>2, <1>3 DEF ClaimType

LEMMA NewRowType ==
  ASSUME TypeOK, NEW p \in Places, NEW s \in Serials \cup {Blank}, NEW pending \in BOOLEAN
  PROVE  /\ DOMAIN NewRow(p, s, pending) = DOMAIN onts \cup {p}
         /\ NewRow(p, s, pending)[p]
              = [serial |-> s, age |-> 0, own |-> pending \/ Stands(p, s), pending |-> pending]
         /\ NewRow(p, s, pending)[p] \in Row
         /\ \A q \in DOMAIN onts \ {p} : NewRow(p, s, pending)[q] = onts[q]
<1>1. [serial |-> s, age |-> 0, own |-> pending \/ Stands(p, s), pending |-> pending] \in Row
  BY ParametersAssumption DEF Row, Stands
<1>. QED
  BY <1>1 DEF NewRow

LEMMA NewRowOntsType ==
  ASSUME TypeOK, NEW p \in Places, NEW s \in Serials \cup {Blank}, NEW pending \in BOOLEAN,
         pending => s \in Serials, onts' = NewRow(p, s, pending)
  PROVE  OntsType'
<1>1. ASSUME NEW q \in DOMAIN onts' PROVE q \in Places /\ Shaped(onts'[q])
  <2>1. CASE q = p
    <3>1. onts'[p] \in Row
      BY NewRowType
    <3>2. onts'[p] = [serial |-> s, age |-> 0, own |-> pending \/ Stands(p, s), pending |-> pending]
      BY NewRowType
    <3>3. (onts'[p].pending <=> pending) /\ onts'[p].serial = s
      BY <3>2
    <3>. QED
      BY <2>1, <3>1, <3>3 DEF Shaped
  <2>2. CASE q # p
    <3>1. q \in DOMAIN onts \ {p}
      BY <1>1, <2>2 DEF NewRow
    <3>2. onts'[q] = onts[q]
      BY <2>2, <3>1 DEF NewRow
    <3>. QED
      BY <3>1, <3>2 DEF TypeOK, Shaped
  <2>. QED
    BY <2>1, <2>2
<1>. QED
  BY <1>1 DEF OntsType

LEMMA InsertType ==
  ASSUME TypeOK, NEW y \in Pairs, onts' = Insert(y[1], y[2])
  PROVE  OntsType'
<1>1. CASE Refused(y[1], y[2])
  BY <1>1, OntsTypeStays DEF Insert
<1>2. CASE ~Refused(y[1], y[2])
  <2>1. onts' = NewRow(y[1], y[2], FALSE)
    BY <1>2 DEF Insert
  <2>2. y[1] \in Places /\ y[2] \in Serials \cup {Blank}
    BY DEF Pairs
  <2>. QED
    BY <2>1, <2>2, NewRowOntsType
<1>. QED
  BY <1>1, <1>2

(* A walk names places of the chassis, each with its serial or none.       *)
LEMMA WalkType ==
  ASSUME TypeOK, NEW named \in SUBSET Occupied
  PROVE  /\ named \subseteq Places /\ Occupied \ named \subseteq Places
         /\ named \X {Blank} \subseteq Pairs
         /\ \A nameless : Read(named, nameless) \subseteq Pairs
BY DEF Occupied, TypeOK, Pairs, Read

(* A look takes one ONU off the walk, and at most puts it in hand.         *)
LEMMA LookMoves ==
  ASSUME TypeOK, NEW r \in Runs, NEW x \in run[r].walk, NEW s \in Serials \cup {Blank}
  PROVE  /\ Looked(r, x, s) \in RunRecord
         /\ Looked(r, x, s).step = run[r].step /\ Looked(r, x, s).quiet = run[r].quiet
<1>1. run[r] \in RunRecord /\ x \in Pairs
  BY DEF TypeOK, RunRecord
<1>2. DEFINE seen == IF Refused(x[1], s) THEN {} ELSE {<<x[1], s>>}
<1>3. seen \subseteq Pairs
  BY <1>1 DEF Pairs
<1>4. Looked(r, x, s) = [[run[r] EXCEPT !.walk = run[r].walk \ {x}] EXCEPT !.look = seen]
  BY <1>1 DEF Looked, RunRecord
<1>. HIDE DEF seen
<1>. QED
  BY <1>1, <1>3, <1>4 DEF RunRecord

LEMMA InitType == Init => TypeOK
BY ParametersAssumption DEF Init, TypeOK, Idle, At, Runs, Steps, Pairs

LEMMA ChassisStepType ==
  ASSUME TypeOK, NEW p \in Places,
         Leave(p) \/ Attach(p) \/ \E s \in Serials : Appear(p, s) \/ Reserve(p, s)
  PROVE  TypeOK'
<1>1. CASE Leave(p)
  <2>1. OntsType'
    <3>1. ASSUME NEW q \in DOMAIN onts PROVE Shaped([onts[q] EXCEPT !.own = FALSE])
      BY DEF TypeOK, Shaped, Row
    <3>2. \A q \in DOMAIN onts : onts'[q] = onts[q] \/ onts'[q] = [onts[q] EXCEPT !.own = FALSE]
      BY <1>1 DEF Leave
    <3>3. DOMAIN onts' = DOMAIN onts
      BY <1>1 DEF Leave
    <3>4. \A q \in DOMAIN onts : Shaped(onts[q])
      BY DEF TypeOK, Shaped
    <3>. QED
      BY <3>1, <3>2, <3>3, <3>4 DEF OntsType, TypeOK
  <2>2. ChassisType'
    BY <1>1 DEF Leave, TypeOK, ChassisType
  <2>. QED
    BY <1>1, <2>1, <2>2, TypePartsNext, RunTypeStays, ClaimTypeStays DEF Leave
<1>2. CASE Attach(p)
  <2>1. PICK taken \in BOOLEAN :
          /\ chassis' = IF taken THEN [chassis EXCEPT ![p] = onts[p].serial] ELSE chassis
          /\ onts' = [onts EXCEPT ![p] = [[@ EXCEPT !.pending = FALSE] EXCEPT !.own = taken]]
    BY <1>2 DEF Attach
  <2>2. onts[p] \in Row
    BY <1>2 DEF Attach, TypeOK
  <2>3. [[onts[p] EXCEPT !.pending = FALSE] EXCEPT !.own = taken] \in Row
    BY <2>2 DEF Row
  <2>4. OntsType'
    BY <2>1, <2>3 DEF TypeOK, OntsType, Shaped
  <2>5. ChassisType'
    BY <1>2, <2>1, <2>2 DEF Attach, TypeOK, ChassisType, Row
  <2>. QED
    BY <1>2, <2>4, <2>5, TypePartsNext, RunTypeStays, ClaimTypeStays DEF Attach
<1>3. ASSUME NEW s \in Serials, Appear(p, s) PROVE TypeOK'
  <2>1. ChassisType'
    BY <1>3 DEF Appear, TypeOK, ChassisType
  <2>. QED
    BY <1>3, <2>1, TypePartsNext, OntsTypeStays, RunTypeStays, ClaimTypeStays DEF Appear
<1>4. ASSUME NEW s \in Serials, Reserve(p, s) PROVE TypeOK'
  <2>1. OntsType'
    BY <1>4, NewRowOntsType DEF Reserve
  <2>. QED
    BY <1>4, <2>1, TypePartsNext, ChassisTypeStays, RunTypeStays, ClaimTypeStays
       DEF Reserve
<1>. QED
  BY <1>1, <1>2, <1>3, <1>4

LEMMA TickType == TypeOK /\ Tick => TypeOK'
<1>. SUFFICES ASSUME TypeOK, Tick PROVE TypeOK'
  OBVIOUS
<1>1. OntsType'
  <2>1. ASSUME NEW p \in DOMAIN onts
        PROVE  Shaped([onts[p] EXCEPT !.age = Older(@, Grace)])
    <3>1. onts[p] \in Row /\ (onts[p].pending => onts[p].serial \in Serials)
      BY DEF TypeOK
    <3>2. Older(onts[p].age, Grace) \in 0 .. Grace
      BY <3>1, ParametersAssumption DEF Older, Row
    <3>. QED
      BY <3>1, <3>2 DEF Shaped, Row
  <2>2. /\ DOMAIN onts' = DOMAIN onts
        /\ \A p \in DOMAIN onts : onts'[p] = [onts[p] EXCEPT !.age = Older(@, Grace)]
    BY DEF Tick
  <2>. QED
    BY <2>1, <2>2 DEF OntsType, TypeOK
<1>2. ClaimType'
  <2>1. \A limit \in Nat : \A age \in 0 .. limit : Older(age, limit) \in 0 .. limit
    BY DEF Older
  <2>2. /\ claim' = [[claim EXCEPT !.beat = Older(@, Stale)] EXCEPT !.poll = Older(@, MinInterval)]
        /\ claim.beat \in 0 .. Stale /\ claim.poll \in 0 .. MinInterval
    BY DEF Tick, TypeOK
  <2>3. Older(claim.beat, Stale) \in 0 .. Stale /\ Older(claim.poll, MinInterval) \in 0 .. MinInterval
    BY <2>1, <2>2, ParametersAssumption
  <2>. QED
    BY <2>2, <2>3 DEF TypeOK, ClaimType
<1>3. RunType'
  <2>1. ASSUME NEW r \in Runs
        PROVE  /\ run'[r] \in RunRecord
               /\ run'[r].step = run[r].step /\ run'[r].walk = run[r].walk
    <3>1. run[r] \in RunRecord
      BY DEF TypeOK, RunRecord
    <3>2. [run[r] EXCEPT !.quiet = @ + 1] \in RunRecord
      BY <3>1 DEF RunRecord
    <3>3. run'[r] = run[r] \/ run'[r] = [run[r] EXCEPT !.quiet = @ + 1]
      BY DEF Tick
    <3>. QED
      BY <3>1, <3>2, <3>3 DEF RunRecord
  <2>2. run' = [r \in Runs |-> run'[r]]
    BY DEF Tick
  <2>. QED
    BY <2>1, <2>2 DEF RunType, TypeOK
<1>. QED
  BY <1>1, <1>2, <1>3, TypePartsNext, ChassisTypeStays, OntsTypeStays, ClaimTypeStays DEF Tick, ChassisType

LEMMA SyncType ==
  ASSUME TypeOK, NEW w \in Workers, Sync(w)
  PROVE  TypeOK'
<1>r. w \in Runs
  BY DEF Runs
<1>1. ASSUME NEW named \in SUBSET Occupied, NEW nameless \in SUBSET named,
             discoverONTsForSync(w, named, nameless)
      PROVE  TypeOK'
  <2>. DEFINE walk == Read(named, nameless)
  <2>1. run' = [run EXCEPT ![w] = [step |-> "walked", walk |-> walk, missed |-> Occupied \ named,
                                   look |-> {}, quiet |-> 0]]
    BY <1>1 DEF discoverONTsForSync, At
  <2>2. walk \subseteq Pairs /\ Occupied \ named \subseteq Places
    BY WalkType
  <2>. HIDE DEF walk
  <2>3. RunType'
    BY <1>r, <2>1, <2>2 DEF TypeOK, RunType, RunRecord, Steps
  <2>. QED
    BY <1>1, <2>3, TypePartsNext, ChassisTypeStays, OntsTypeStays, ClaimTypeStays
       DEF discoverONTsForSync
<1>2. CASE PruneMissingFromDiscovery(w)
  <2>1. RunType'
    BY <1>2, <1>r, ToMoves, RunTypeKept DEF PruneMissingFromDiscovery, Steps
  <2>2. OntsType'
    BY <1>2 DEF PruneMissingFromDiscovery, TypeOK, OntsType, Shaped
  <2>. QED
    BY <1>2, <2>1, <2>2, TypePartsNext, ChassisTypeStays, ClaimTypeStays DEF PruneMissingFromDiscovery
<1>3. ASSUME NEW x \in run[w].walk, Register(w, x) PROVE TypeOK'
  <2>1. x[2] \in Serials \cup {Blank}
    BY <1>3, <1>r DEF TypeOK, Pairs
  <2>2. Looked(w, x, x[2]) \in RunRecord /\ Looked(w, x, x[2]).step = "register"
    BY <1>3, <1>r, <2>1, LookMoves DEF Register
  <2>3. RunType'
    BY <1>3, <1>r, <2>2 DEF Register, TypeOK, RunType, RunRecord
  <2>. QED
    BY <1>3, <2>3, TypePartsNext, ChassisTypeStays, OntsTypeStays, ClaimTypeStays DEF Register
<1>5. CASE Create(w)
  <2>1. OntsType'
    BY <1>5, <1>r, InsertType DEF Create, TypeOK
  <2>2. RunType'
    BY <1>5, <1>r DEF Create, TypeOK, RunType, RunRecord
  <2>. QED
    BY <1>5, <2>1, <2>2, TypePartsNext, ChassisTypeStays, ClaimTypeStays DEF Create
<1>4. CASE SyncDone(w)
  <2>1. RunType'
    BY <1>4, <1>r, ToMoves, RunTypeKept DEF SyncDone, Steps
  <2>. QED
    BY <1>4, <2>1, TypePartsNext, ChassisTypeStays, OntsTypeStays, ClaimTypeStays DEF SyncDone, ChassisType, OntsType, ClaimType
<1>. QED
  BY <1>1, <1>2, <1>3, <1>4, <1>5 DEF Sync

LEMMA AutoType ==
  ASSUME TypeOK, NEW r \in Runs, AutoDiscover(r) \/ StandDown(r) \/ Dies(r)
  PROVE  TypeOK'
<1>1. CASE TryClaimDiscovery(r)
  <2>1. RunType'
    <3>1. \/ To(r, "claimed") /\ run[r].walk = {}
          \/ Stop(r)
      BY <1>1 DEF TryClaimDiscovery, TypeOK
    <3>. QED
      BY <3>1, ToMoves, StopMoves, RunTypeKept DEF Steps, Holding
  <2>2. ClaimType'
    <3>1. CASE claim' = claim
      BY <3>1, ClaimTypeStays
    <3>2. CASE updateDiscoveryProgress("discovering")
      BY <3>2, ProgressType
    <3>. QED
      BY <1>1, <3>1, <3>2 DEF TryClaimDiscovery, updateDiscoveryProgress
  <2>. QED
    BY <1>1, <2>1, <2>2, TypePartsNext, ChassisTypeStays, OntsTypeStays, ClaimTypeStays DEF TryClaimDiscovery, ChassisType, OntsType
<1>2. CASE StandDown(r)
  BY <1>2, StopMoves, RunTypeKept, ProgressType, TypePartsNext, ChassisTypeStays, OntsTypeStays, ClaimTypeStays
     DEF StandDown, ChassisType, OntsType
<1>3. CASE beginDiscovery(r)
  <2>1. To(r, "walk") /\ run[r].walk = {}
    BY <1>3 DEF beginDiscovery, TypeOK
  <2>2. RunType'
    BY <2>1, ToMoves, RunTypeKept DEF Steps, Holding
  <2>. QED
    BY <1>3, <2>2, ProgressType, TypePartsNext, ChassisTypeStays, OntsTypeStays, ClaimTypeStays DEF beginDiscovery, ChassisType, OntsType
<1>4. ASSUME NEW named \in SUBSET Occupied, walkONTPositions(r, named) PROVE TypeOK'
  <2>1. RunType'
    <3>1. CASE run' = [run EXCEPT ![r].step = "metrics"]
      BY <3>1 DEF TypeOK, RunType, RunRecord, Steps, Holding
    <3>2. CASE run' = [run EXCEPT ![r] = At("metrics", named \X {Blank}, {})]
      <4>. DEFINE walk == named \X {Blank}
      <4>1. run' = [run EXCEPT ![r] = [step |-> "metrics", walk |-> walk, missed |-> {}, look |-> {}, quiet |-> 0]]
        BY <3>2 DEF At
      <4>2. walk \subseteq Pairs
        BY WalkType
      <4>. HIDE DEF walk
      <4>. QED
        BY <4>1, <4>2 DEF TypeOK, RunType, RunRecord, Steps, Holding
    <3>. QED
      BY <1>4, <3>1, <3>2 DEF walkONTPositions
  <2>2. ClaimType'
    BY <1>4, ProgressType, ClaimTypeStays DEF walkONTPositions
  <2>. QED
    BY <1>4, <2>1, <2>2, TypePartsNext, ChassisTypeStays, OntsTypeStays DEF walkONTPositions
<1>5. ASSUME NEW more \in SUBSET Occupied, readONTMetrics(r, more) PROVE TypeOK'
  <2>1. RunType'
    <3>. DEFINE walk == run[r].walk \cup (more \X {Blank})
    <3>1. run' = [run EXCEPT ![r] = [step |-> "store", walk |-> walk, missed |-> {}, look |-> {}, quiet |-> 0]]
      BY <1>5 DEF readONTMetrics, At
    <3>2. walk \subseteq Pairs
      BY WalkType DEF TypeOK
    <3>. HIDE DEF walk
    <3>. QED
      BY <3>1, <3>2 DEF TypeOK, RunType, RunRecord, Steps, Holding
  <2>. QED
    BY <1>5, <2>1, ProgressType, TypePartsNext, ChassisTypeStays, OntsTypeStays DEF readONTMetrics
<1>6. ASSUME NEW x \in run[r].walk, NEW nameless \in BOOLEAN, registerDiscoveredONTs(r, x, nameless)
      PROVE  TypeOK'
  <2>. DEFINE s == IF nameless \/ chassis[x[1]] = None THEN Blank ELSE chassis[x[1]]
  <2>1. s \in Serials \cup {Blank}
    BY <1>6 DEF TypeOK, Pairs
  <2>2. \/ updateDiscoveryProgress(claim.phase) /\ run' = [run EXCEPT ![r] = [Looked(r, x, s) EXCEPT !.quiet = 0]]
        \/ claim' = claim /\ run' = [run EXCEPT ![r] = Looked(r, x, s)]
    BY <1>6 DEF registerDiscoveredONTs
  <2>. HIDE DEF s
  <2>3. Looked(r, x, s) \in RunRecord /\ Looked(r, x, s).step = "store"
    BY <1>6, <2>1, LookMoves DEF registerDiscoveredONTs
  <2>4. /\ [Looked(r, x, s) EXCEPT !.quiet = 0] \in RunRecord
        /\ [Looked(r, x, s) EXCEPT !.quiet = 0].step = "store"
    BY <2>3 DEF RunRecord
  <2>5. RunType'
    BY <2>2, <2>3, <2>4 DEF TypeOK, RunType, RunRecord
  <2>6. ClaimType'
    BY <2>2, ProgressType, ClaimTypeStays DEF TypeOK
  <2>. QED
    BY <1>6, <2>5, <2>6, TypePartsNext, ChassisTypeStays, OntsTypeStays DEF registerDiscoveredONTs
<1>9. CASE CreateDiscovered(r)
  <2>1. OntsType'
    BY <1>9, InsertType DEF CreateDiscovered, TypeOK
  <2>2. run[r] \in RunRecord /\ run[r].step = "store"
    BY <1>9 DEF CreateDiscovered, TypeOK, RunRecord
  <2>3. run' = [run EXCEPT ![r] = [[run[r] EXCEPT !.look = {}] EXCEPT !.quiet = 0]]
    BY <1>9, <2>2 DEF CreateDiscovered, TypeOK, RunRecord
  <2>4. /\ [[run[r] EXCEPT !.look = {}] EXCEPT !.quiet = 0] \in RunRecord
        /\ [[run[r] EXCEPT !.look = {}] EXCEPT !.quiet = 0].step = "store"
    BY <2>2 DEF RunRecord
  <2>5. RunType'
    BY <2>3, <2>4 DEF TypeOK, RunType, RunRecord
  <2>6. ClaimType'
    BY <1>9, ProgressType DEF CreateDiscovered, TypeOK
  <2>. QED
    BY <1>9, <2>1, <2>5, <2>6, TypePartsNext, ChassisTypeStays DEF CreateDiscovered
<1>7. CASE AutoDiscovered(r)
  <2>1. ClaimType'
    BY <1>7, ParametersAssumption DEF AutoDiscovered, ClaimType
  <2>. QED
    BY <1>7, <2>1, StopMoves, RunTypeKept, TypePartsNext, ChassisTypeStays, OntsTypeStays, ClaimTypeStays
       DEF AutoDiscovered, ChassisType, OntsType
<1>8. CASE Dies(r)
  BY <1>8, StopMoves, RunTypeKept, TypePartsNext, ChassisTypeStays, OntsTypeStays, ClaimTypeStays
     DEF Dies, ChassisType, OntsType, ClaimType
<1>. QED
  BY <1>1, <1>2, <1>3, <1>4, <1>5, <1>6, <1>7, <1>8, <1>9 DEF AutoDiscover

LEMMA NextType == TypeOK /\ [Next]_vars => TypeOK'
<1>. SUFFICES ASSUME TypeOK, [Next]_vars PROVE TypeOK'
  OBVIOUS
<1>1. CASE UNCHANGED vars
  BY <1>1 DEF vars, TypeOK
<1>. QED
  BY <1>1, ChassisStepType, TickType, SyncType, AutoType DEF Next

(* The shape of the state, whatever the durations.                         *)
THEOREM TypeCorrect == Spec => []TypeOK
BY InitType, NextType, PTL DEF Spec

-----------------------------------------------------------------------------
(* The claim.  Who holds it has given it a heartbeat no longer ago than    *)
(* its own last progress, so it cannot look abandoned.                     *)

ClaimIsAlive ==
  \A r \in Runs : run[r].step \in Holding =>
    /\ claim.phase \in {"discovering", "polling"}
    /\ claim.beat <= run[r].quiet /\ run[r].quiet <= MaxQuiet
ClaimInv == TypeOK /\ ClaimIsAlive /\ OneRun

LEMMA HolderIsAlone ==
  ASSUME ClaimInv, NEW r \in Runs, run[r].step \in Holding
  PROVE  \A q \in Runs \ {r} : run[q].step \notin Holding
BY DEF ClaimInv, OneRun

LEMMA FreeMeansNobody ==
  ASSUME ClaimInv, QuietWithinClaim, Free
  PROVE  \A q \in Runs : run[q].step \notin Holding
<1>. SUFFICES ASSUME NEW q \in Runs, run[q].step \in Holding PROVE FALSE
  OBVIOUS
<1>1. claim.beat <= run[q].quiet /\ run[q].quiet <= MaxQuiet /\ claim.phase \in {"discovering", "polling"}
  BY DEF ClaimInv, ClaimIsAlive
<1>2. claim.beat \in Nat /\ run[q].quiet \in Nat
  BY ParametersAssumption DEF ClaimInv, TypeOK
<1>3. claim.beat = Stale
  BY <1>1 DEF Free
<1>. QED
  BY <1>1, <1>2, <1>3, ParametersAssumption DEF QuietWithinClaim

(* The only run that can hold the claim goes on with it or lets it go.     *)
LEMMA HolderMoves ==
  ASSUME NEW r \in Runs, OthersStay(r),
         \A q \in Runs \ {r} : run[q].step \notin Holding,
         run'[r].step \in Holding =>
           /\ claim'.phase \in {"discovering", "polling"}
           /\ claim'.beat <= run'[r].quiet /\ run'[r].quiet <= MaxQuiet
  PROVE  ClaimIsAlive' /\ OneRun'
BY DEF OthersStay, ClaimIsAlive, OneRun

(* A run without the claim leaves it alone.                                *)
LEMMA AsideMoves ==
  ASSUME ClaimInv, NEW r \in Runs, OthersStay(r), claim' = claim, run'[r].step \notin Holding
  PROVE  ClaimIsAlive' /\ OneRun'
BY DEF ClaimInv, OthersStay, ClaimIsAlive, OneRun

LEMMA TickKeepsClaim ==
  ASSUME ClaimInv, Tick
  PROVE  ClaimIsAlive' /\ OneRun'
<1>1. \A r \in Runs : run'[r].step = run[r].step
  BY DEF Tick, ClaimInv, TypeOK
<1>2. ASSUME NEW r \in Runs, run[r].step \in Holding
      PROVE  /\ claim'.phase \in {"discovering", "polling"}
             /\ claim'.beat <= run'[r].quiet /\ run'[r].quiet <= MaxQuiet
  <2>1. run'[r].quiet = run[r].quiet + 1 /\ run[r].quiet < MaxQuiet
    BY <1>2 DEF Tick, ClaimInv, TypeOK
  <2>2. claim'.phase = claim.phase /\ claim'.beat = Older(claim.beat, Stale)
    BY DEF Tick, ClaimInv, TypeOK
  <2>3. claim.beat \in Nat /\ claim.beat <= Stale /\ run[r].quiet \in Nat
    BY ParametersAssumption DEF ClaimInv, TypeOK
  <2>4. claim.beat <= run[r].quiet /\ claim.phase \in {"discovering", "polling"}
    BY <1>2 DEF ClaimInv, ClaimIsAlive
  <2>5. Older(claim.beat, Stale) <= claim.beat + 1
    BY <2>3, ParametersAssumption DEF Older
  <2>6. Older(claim.beat, Stale) \in Nat
    BY <2>3, ParametersAssumption DEF Older
  <2>. QED
    BY <2>1, <2>2, <2>3, <2>4, <2>5, <2>6, ParametersAssumption
<1>. QED
  BY <1>1, <1>2 DEF ClaimIsAlive, ClaimInv, OneRun

LEMMA SyncKeepsClaim ==
  ASSUME ClaimInv, NEW w \in Workers, Sync(w)
  PROVE  ClaimIsAlive' /\ OneRun'
<1>r. w \in Runs
  BY DEF Runs
<1>t. TypeOK
  BY DEF ClaimInv
<1>1. claim' = claim
  BY DEF Sync, discoverONTsForSync, PruneMissingFromDiscovery, Register, Create, SyncDone
<1>2. OthersStay(w) /\ run'[w].step \in {"walked", "register", "claim"}
  <2>1. ASSUME NEW named, NEW nameless, discoverONTsForSync(w, named, nameless)
        PROVE  OthersStay(w) /\ run'[w].step = "walked"
    BY <2>1, <1>r, <1>t DEF discoverONTsForSync, OthersStay, TypeOK, At
  <2>2. CASE PruneMissingFromDiscovery(w)
    BY <2>2, <1>r, <1>t, ToMoves DEF PruneMissingFromDiscovery, Steps
  <2>3. ASSUME NEW x \in run[w].walk, Register(w, x)
        PROVE  OthersStay(w) /\ run'[w].step = "register"
    BY <2>3, <1>r, <1>t DEF Register, Looked, OthersStay, TypeOK
  <2>4. CASE SyncDone(w)
    BY <2>4, <1>r, <1>t, ToMoves DEF SyncDone, Steps
  <2>5. CASE Create(w)
    BY <2>5, <1>r, <1>t DEF Create, OthersStay, TypeOK
  <2>. QED
    BY <2>1, <2>2, <2>3, <2>4, <2>5 DEF Sync
<1>. QED
  BY <1>r, <1>1, <1>2, AsideMoves DEF Holding

LEMMA AutoKeepsClaim ==
  ASSUME ClaimInv, QuietWithinClaim, NEW r \in Runs, AutoDiscover(r) \/ StandDown(r) \/ Dies(r)
  PROVE  ClaimIsAlive' /\ OneRun'
<1>t. TypeOK
  BY DEF ClaimInv
<1>n. 0 <= MaxQuiet
  BY ParametersAssumption
<1>1. CASE TryClaimDiscovery(r)
  <2>1. CASE Free /\ claim.poll = MinInterval
    <3>1. claim'.phase = "discovering" /\ claim'.beat = 0 /\ To(r, "claimed")
      BY <1>1, <2>1, <1>t DEF TryClaimDiscovery, TypeOK
    <3>2. OthersStay(r) /\ run'[r].quiet = 0
      BY <3>1, <1>t, ToMoves DEF Steps, Holding
    <3>. QED
      BY <2>1, <3>1, <3>2, <1>n, FreeMeansNobody, HolderMoves
  <2>2. CASE ~(Free /\ claim.poll = MinInterval)
    <3>1. claim' = claim /\ Stop(r)
      BY <1>1, <2>2 DEF TryClaimDiscovery
    <3>. QED
      BY <3>1, <1>t, StopMoves, AsideMoves DEF Holding
  <2>. QED
    BY <2>1, <2>2
<1>2. CASE Dies(r)
  BY <1>2, <1>t, StopMoves, AsideMoves DEF Dies, Holding
<1>3. ASSUME run[r].step \in Holding, OthersStay(r), run'[r].quiet = 0, claim'.beat = 0,
             claim'.phase \in {"discovering", "polling"}
      PROVE  ClaimIsAlive' /\ OneRun'
  BY <1>3, <1>n, HolderIsAlone, HolderMoves
<1>4. ASSUME run[r].step \in Holding, Stop(r) PROVE ClaimIsAlive' /\ OneRun'
  <2>1. OthersStay(r) /\ run'[r].step \notin Holding
    BY <1>4, <1>t, StopMoves DEF Holding
  <2>. QED
    BY <1>4, <2>1, HolderIsAlone, HolderMoves
<1>5. CASE StandDown(r)
  BY <1>4, <1>5 DEF StandDown, Holding
<1>6. CASE AutoDiscovered(r)
  BY <1>4, <1>6 DEF AutoDiscovered, Holding
<1>7. CASE beginDiscovery(r)
  <2>1. OthersStay(r) /\ run'[r].quiet = 0
    BY <1>7, <1>t, ToMoves DEF beginDiscovery, Steps, Holding
  <2>2. claim'.beat = 0 /\ claim'.phase = "discovering"
    BY <1>7, <1>t, ProgressType DEF beginDiscovery
  <2>. QED
    BY <1>3, <1>7, <2>1, <2>2 DEF beginDiscovery, Holding
<1>8. ASSUME NEW more, readONTMetrics(r, more) PROVE ClaimIsAlive' /\ OneRun'
  <2>1. OthersStay(r) /\ run'[r].quiet = 0
    BY <1>8, <1>t DEF readONTMetrics, OthersStay, TypeOK, At
  <2>2. claim'.beat = 0 /\ claim'.phase = "polling"
    BY <1>8, <1>t, ProgressType DEF readONTMetrics
  <2>. QED
    BY <1>3, <1>8, <2>1, <2>2 DEF readONTMetrics, Holding
<1>9. ASSUME run[r].step \in Holding, OthersStay(r), claim' = claim, run'[r].quiet = run[r].quiet
      PROVE  ClaimIsAlive' /\ OneRun'
  <2>1. /\ claim.phase \in {"discovering", "polling"}
        /\ claim.beat <= run[r].quiet /\ run[r].quiet <= MaxQuiet
    BY <1>9 DEF ClaimInv, ClaimIsAlive
  <2>. QED
    BY <1>9, <2>1, HolderIsAlone, HolderMoves
<1>10. ASSUME NEW named, walkONTPositions(r, named) PROVE ClaimIsAlive' /\ OneRun'
  <2>1. run[r].step \in Holding
    BY <1>10 DEF walkONTPositions, Holding
  <2>2. CASE named = {}
    <3>1. claim' = claim /\ run' = [run EXCEPT ![r].step = "metrics"]
      BY <1>10, <2>2 DEF walkONTPositions
    <3>2. OthersStay(r) /\ run'[r].quiet = run[r].quiet
      BY <3>1, <1>t DEF OthersStay, TypeOK
    <3>. QED
      BY <1>9, <2>1, <3>1, <3>2
  <2>3. CASE named # {}
    <3>1. /\ updateDiscoveryProgress("discovering")
          /\ run' = [run EXCEPT ![r] = At("metrics", named \X {Blank}, {})]
      BY <1>10, <2>3 DEF walkONTPositions
    <3>2. OthersStay(r) /\ run'[r].quiet = 0
      BY <3>1, <1>t DEF OthersStay, TypeOK, At
    <3>3. claim'.beat = 0 /\ claim'.phase = "discovering"
      BY <3>1, <1>t, ProgressType
    <3>. QED
      BY <1>3, <2>1, <3>2, <3>3
  <2>. QED
    BY <2>2, <2>3
<1>11. ASSUME run[r].step \in Holding, OthersStay(r), run'[r].quiet = 0, updateDiscoveryProgress(claim.phase)
       PROVE  ClaimIsAlive' /\ OneRun'
  <2>1. claim.phase \in {"discovering", "polling"}
    BY <1>11 DEF ClaimInv, ClaimIsAlive
  <2>2. claim'.beat = 0 /\ claim'.phase \in {"discovering", "polling"}
    BY <1>11, <1>t, <2>1, ProgressType
  <2>. QED
    BY <1>3, <1>11, <2>2
<1>12. ASSUME NEW x \in run[r].walk, NEW nameless \in BOOLEAN, registerDiscoveredONTs(r, x, nameless)
       PROVE  ClaimIsAlive' /\ OneRun'
  <2>. DEFINE s == IF nameless \/ chassis[x[1]] = None THEN Blank ELSE chassis[x[1]]
  <2>1. s \in Serials \cup {Blank}
    BY <1>12, <1>t DEF TypeOK, Pairs
  <2>2. \/ updateDiscoveryProgress(claim.phase) /\ run' = [run EXCEPT ![r] = [Looked(r, x, s) EXCEPT !.quiet = 0]]
        \/ claim' = claim /\ run' = [run EXCEPT ![r] = Looked(r, x, s)]
    BY <1>12 DEF registerDiscoveredONTs
  <2>3. run[r].step \in Holding
    BY <1>12 DEF registerDiscoveredONTs, Holding
  <2>. HIDE DEF s
  <2>4. Looked(r, x, s) \in RunRecord /\ Looked(r, x, s).quiet = run[r].quiet
    BY <1>12, <1>t, <2>1, LookMoves
  <2>5. CASE updateDiscoveryProgress(claim.phase) /\ run' = [run EXCEPT ![r] = [Looked(r, x, s) EXCEPT !.quiet = 0]]
    <3>1. OthersStay(r) /\ run'[r].quiet = 0
      BY <2>4, <2>5, <1>t DEF OthersStay, TypeOK, RunRecord
    <3>. QED
      BY <1>11, <2>3, <2>5, <3>1
  <2>6. CASE claim' = claim /\ run' = [run EXCEPT ![r] = Looked(r, x, s)]
    <3>1. OthersStay(r) /\ run'[r].quiet = run[r].quiet
      BY <2>4, <2>6, <1>t DEF OthersStay, TypeOK
    <3>. QED
      BY <1>9, <2>3, <2>6, <3>1
  <2>. QED
    BY <2>2, <2>5, <2>6
<1>13. CASE CreateDiscovered(r)
  <2>1. run[r].step \in Holding /\ updateDiscoveryProgress(claim.phase)
    BY <1>13 DEF CreateDiscovered, Holding
  <2>2. run' = [run EXCEPT ![r] = [[run[r] EXCEPT !.look = {}] EXCEPT !.quiet = 0]]
    BY <1>13, <1>t DEF CreateDiscovered, TypeOK
  <2>3. OthersStay(r) /\ run'[r].quiet = 0
    BY <2>2, <1>t DEF OthersStay, TypeOK
  <2>. QED
    BY <1>11, <2>1, <2>3
<1>. QED
  BY <1>1, <1>2, <1>5, <1>6, <1>7, <1>8, <1>10, <1>12, <1>13 DEF AutoDiscover

LEMMA NextClaim == ClaimInv /\ QuietWithinClaim /\ [Next]_vars => ClaimInv'
<1>. SUFFICES ASSUME ClaimInv, QuietWithinClaim, [Next]_vars PROVE ClaimInv'
  OBVIOUS
<1>1. TypeOK'
  BY NextType DEF ClaimInv
<1>2. CASE run' = run /\ claim' = claim
  BY <1>2, <1>1 DEF ClaimInv, ClaimIsAlive, OneRun
<1>3. ASSUME NEW p \in Places, Leave(p) \/ Attach(p) \/ \E s \in Serials : Appear(p, s) \/ Reserve(p, s)
      PROVE  run' = run /\ claim' = claim
  BY <1>3 DEF Leave, Attach, Appear, Reserve
<1>4. CASE UNCHANGED vars
  BY <1>2, <1>4 DEF vars
<1>5. CASE Tick
  BY <1>1, <1>5, TickKeepsClaim DEF ClaimInv
<1>6. ASSUME NEW w \in Workers, Sync(w) PROVE ClaimInv'
  BY <1>1, <1>6, SyncKeepsClaim DEF ClaimInv
<1>7. ASSUME NEW r \in Runs, AutoDiscover(r) \/ StandDown(r) \/ Dies(r) PROVE ClaimInv'
  BY <1>1, <1>7, AutoKeepsClaim DEF ClaimInv
<1>. QED
  BY <1>2, <1>3, <1>4, <1>5, <1>6, <1>7 DEF Next

(* Two runs are never on the chassis under the claim, for any number of    *)
(* workers: all it takes is that a run makes progress, or ends, before its *)
(* claim is old enough to be taken over.                                   *)
THEOREM OneRunAtATime == ASSUME QuietWithinClaim PROVE Spec => []OneRun
<1>1. Init => ClaimInv
  BY InitType DEF Init, ClaimInv, ClaimIsAlive, OneRun, Idle, At, Holding
<1>2. ClaimInv /\ [Next]_vars => ClaimInv'
  BY NextClaim
<1>3. ClaimInv => OneRun
  BY DEF ClaimInv
<1>. QED
  BY <1>1, <1>2, <1>3, PTL DEF Spec

-----------------------------------------------------------------------------
(* The claim as exclusive work.                                            *)

Holders == {r \in Runs : run[r].step \in Holding}
HeldBy == [i \in {"chassis"} |-> Holders]

\* Every step but the clock's is one run's, and the clock moves nobody.
LEMMA OneMoves ==
  ASSUME TypeOK, [Next]_vars
  PROVE  (\E r \in Runs : OthersStay(r)) \/ \A r \in Runs : run'[r].step = run[r].step
<1>1. ASSUME UNCHANGED run PROVE \A r \in Runs : run'[r].step = run[r].step
  BY <1>1
<1>2. ASSUME NEW p \in Places, Leave(p) \/ Attach(p) \/ \E s \in Serials : Appear(p, s) \/ Reserve(p, s)
      PROVE  UNCHANGED run
  BY <1>2 DEF Leave, Attach, Appear, Reserve
<1>3. CASE Tick
  BY <1>3 DEF Tick, TypeOK
<1>4. ASSUME NEW w \in Workers, Sync(w) PROVE w \in Runs /\ OthersStay(w)
  BY <1>4 DEF Sync, discoverONTsForSync, PruneMissingFromDiscovery, Register, Create, SyncDone,
              To, Runs, OthersStay, TypeOK
<1>5. ASSUME NEW r \in Runs, AutoDiscover(r) \/ StandDown(r) \/ Dies(r) PROVE OthersStay(r)
  <2>1. ASSUME To(r, "claimed") \/ To(r, "walk") \/ Stop(r) PROVE OthersStay(r)
    BY <2>1 DEF To, Stop, OthersStay, TypeOK
  <2>2. ASSUME NEW named, walkONTPositions(r, named) \/ readONTMetrics(r, named) PROVE OthersStay(r)
    BY <2>2 DEF walkONTPositions, readONTMetrics, OthersStay, TypeOK
  <2>3. ASSUME NEW x \in run[r].walk, NEW nameless \in BOOLEAN, registerDiscoveredONTs(r, x, nameless)
        PROVE  OthersStay(r)
    BY <2>3 DEF registerDiscoveredONTs, OthersStay, TypeOK
  <2>4. ASSUME CreateDiscovered(r) PROVE OthersStay(r)
    BY <2>4 DEF CreateDiscovered, OthersStay, TypeOK
  <2>. QED
    BY <1>5, <2>1, <2>2, <2>3, <2>4
       DEF AutoDiscover, TryClaimDiscovery, beginDiscovery, AutoDiscovered, StandDown, Dies
<1>. QED
  BY <1>1, <1>2, <1>3, <1>4, <1>5 DEF Next, vars

\* One run at most holds the chassis before and after: so it is taken when
\* nobody has it, and given back by who had it.
LEMMA ClaimRefines ==
  ASSUME OneRun, OneRun', TypeOK, [Next]_vars
  PROVE  [Promise!Next]_HeldBy
<1>1. ASSUME Holders' = Holders PROVE HeldBy' = HeldBy
  BY <1>1 DEF HeldBy
<1>2. CASE \A r \in Runs : run'[r].step = run[r].step
  BY <1>1, <1>2 DEF Holders
<1>3. ASSUME NEW r \in Runs, OthersStay(r) PROVE [Promise!Next]_HeldBy
  <2>0. \A q \in Runs \ {r} : q \in Holders' <=> q \in Holders
    BY <1>3 DEF OthersStay, Holders
  <2>1. CASE r \in Holders <=> r \in Holders'
    <3>1. Holders' = Holders
      BY <2>0, <2>1 DEF Holders
    <3>. QED
      BY <1>1, <3>1
  <2>2. CASE r \in Holders /\ r \notin Holders'
    <3>1. Holders' = Holders \ {r}
      BY <2>0, <2>2 DEF Holders
    <3>2. HeldBy' = [HeldBy EXCEPT !["chassis"] = @ \ {r}] /\ r \in HeldBy["chassis"]
      BY <2>2, <3>1 DEF HeldBy
    <3>3. Promise!GiveBack(r, "chassis")
      BY <3>2 DEF Promise!GiveBack, HeldBy, Holders
    <3>. QED
      BY <3>3 DEF Promise!Next
  <2>3. CASE r \notin Holders /\ r \in Holders'
    <3>1. Holders = {}
      <4>. SUFFICES ASSUME NEW q \in Holders PROVE FALSE
        OBVIOUS
      <4>1. q \in Runs /\ q # r /\ q \in Holders'
        BY <2>0, <2>3 DEF Holders
      <4>. QED
        BY <2>3, <4>1 DEF OneRun, Holders
    <3>2. Holders' = {r}
      BY <2>0, <2>3, <3>1 DEF Holders
    <3>3. HeldBy' = [HeldBy EXCEPT !["chassis"] = {r}] /\ HeldBy["chassis"] = {}
      BY <3>1, <3>2 DEF HeldBy
    <3>4. Promise!Idle(r)
      BY <3>3 DEF Promise!Idle, HeldBy, Holders
    <3>5. Promise!Take(r, "chassis")
      BY <3>3, <3>4 DEF Promise!Take, HeldBy, Holders
    <3>. QED
      BY <3>5 DEF Promise!Next
  <2>. QED
    BY <2>1, <2>2, <2>3
<1>. QED
  BY <1>2, <1>3, OneMoves

(* The claim implements exclusive work on the chassis: however runs die,   *)
(* stand down and are taken over, it goes from one to the next.            *)
THEOREM ClaimIsExclusiveWork == ASSUME QuietWithinClaim PROVE Spec => ImplementsExclusiveWork
<1>1. Init => Promise!Init
  BY DEF Init, Promise!Init, Idle, At, Holding
<1>2. Spec => []TypeOK
  BY TypeCorrect
<1>3. Spec => []OneRun
  BY OneRunAtATime
<1>4. OneRun /\ OneRun' /\ TypeOK /\ [Next]_vars => [Promise!Next]_HeldBy
  BY ClaimRefines
<1>5. HeldBy = [i \in {"chassis"} |-> {r \in Runs : run[r].step \in Holding}]
  BY DEF HeldBy, Holders
<1>6. OneRun /\ OneRun' /\ TypeOK /\ [Next]_vars
      => [Promise!Next]_([i \in {"chassis"} |-> {r \in Runs : run[r].step \in Holding}])
  BY <1>4, <1>5 DEF HeldBy, Holders
<1>. QED
  BY <1>1, <1>2, <1>3, <1>6, PTL DEF Spec, ImplementsExclusiveWork, Promise!Spec

-----------------------------------------------------------------------------
(* The rows.  What a walk does not name was not there, or came so shortly  *)
(* before it that its row is too young to be pruned.                       *)

OwnersStand ==
  \A p \in DOMAIN onts : onts[p].own => onts[p].pending \/ Stands(p, onts[p].serial)
PendingIsYoung == \A p \in DOMAIN onts : onts[p].pending => onts[p].age <= MaxAttach
Names(walk, p) == \E x \in walk : Number[x[1]] = Number[p]
Accounts(r, p) == Names(run[r].walk, p) \/ p \in run[r].missed
WalkKnows ==
  \A r \in Runs : run[r].step = "walked" =>
    /\ run[r].quiet <= MaxWalk
    /\ \A p \in DOMAIN onts : onts[p].own /\ onts[p].age > run[r].quiet + MaxAttach => Accounts(r, p)
RowsStep == OwnersStand' /\ PendingIsYoung' /\ WalkKnows'
RowsInv == TypeOK /\ OwnersStand /\ PendingIsYoung /\ WalkKnows

LEMMA RowNumbers ==
  ASSUME TypeOK, NEW p \in DOMAIN onts
  PROVE  /\ p \in Places /\ onts[p] \in Row /\ onts[p].age \in Nat /\ onts[p].age <= Grace
BY ParametersAssumption DEF TypeOK, Row

(* A row made now is younger than any walk, and its ONU is there or on its *)
(* way.                                                                    *)
LEMMA MadeRow ==
  ASSUME RowsInv, NEW p \in Places \ DOMAIN onts, NEW s \in Serials \cup {Blank}, NEW pending \in BOOLEAN,
         pending => s \in Serials, onts' = NewRow(p, s, pending), chassis' = chassis,
         \A r \in Runs : run'[r].step = "walked" => run'[r] = run[r]
  PROVE  RowsStep
<1>t. TypeOK
  BY DEF RowsInv
<1>1. DOMAIN onts' = DOMAIN onts \cup {p}
  BY DEF NewRow
<1>2. \A q \in DOMAIN onts : onts'[q] = onts[q]
  BY DEF NewRow
<1>3. onts'[p] = [serial |-> s, age |-> 0, own |-> pending \/ Stands(p, s), pending |-> pending]
  BY DEF NewRow
<1>4. OwnersStand'
  <2>1. onts'[p].own => onts'[p].pending \/ Stands(p, onts'[p].serial)
    BY <1>3
  <2>2. \A q, t : Stands(q, t)' <=> Stands(q, t')
    BY DEF Stands
  <2>. QED
    BY <1>1, <1>2, <2>1, <2>2 DEF RowsInv, OwnersStand, Stands
<1>5. PendingIsYoung'
  <2>1. onts'[p].age <= MaxAttach
    BY <1>3, ParametersAssumption
  <2>. QED
    BY <1>1, <1>2, <2>1 DEF RowsInv, PendingIsYoung
<1>6. WalkKnows'
  <2>1. SUFFICES ASSUME NEW r \in Runs, run'[r].step = "walked"
                 PROVE  /\ run'[r].quiet <= MaxWalk
                        /\ \A q \in DOMAIN onts' :
                             onts'[q].own /\ onts'[q].age > run'[r].quiet + MaxAttach => Accounts(r, q)'
    BY DEF WalkKnows
  <2>2. run'[r] = run[r] /\ run[r].step = "walked" /\ run[r].quiet \in Nat
    BY <2>1, <1>t DEF TypeOK
  <2>3. ~(onts'[p].age > run[r].quiet + MaxAttach)
    BY <1>3, <2>2, ParametersAssumption
  <2>. QED
    BY <1>1, <1>2, <2>2, <2>3 DEF RowsInv, WalkKnows, Accounts, Names
<1>. QED
  BY <1>4, <1>5, <1>6 DEF RowsStep

(* Rows and chassis stand; no run is just past its walk that was not.      *)
LEMMA RowsStand ==
  ASSUME RowsInv, onts' = onts, chassis' = chassis,
         \A r \in Runs : run'[r].step = "walked" => run'[r] = run[r]
  PROVE  RowsStep
BY DEF RowsInv, RowsStep, OwnersStand, Stands, PendingIsYoung, WalkKnows, Accounts, Names

(* Rows are made without touching what the walks under way have to know.   *)
LEMMA RowsMade ==
  ASSUME RowsInv, NEW y \in Pairs, onts' = Insert(y[1], y[2]), chassis' = chassis,
         \A r \in Runs : run'[r].step = "walked" => run'[r] = run[r]
  PROVE  RowsStep
<1>1. CASE Refused(y[1], y[2])
  BY <1>1, RowsStand DEF Insert
<1>2. CASE ~Refused(y[1], y[2])
  <2>1. onts' = NewRow(y[1], y[2], FALSE) /\ y[1] \notin DOMAIN onts
    BY <1>2 DEF Insert, Refused
  <2>2. y[1] \in Places /\ y[2] \in Serials \cup {Blank}
    BY DEF Pairs
  <2>. QED
    BY <2>1, <2>2, MadeRow
<1>. QED
  BY <1>1, <1>2

LEMMA ChassisKeepsRows ==
  ASSUME RowsInv, NEW p \in Places,
         Leave(p) \/ Attach(p) \/ \E s \in Serials : Appear(p, s) \/ Reserve(p, s)
  PROVE  RowsStep
<1>t. TypeOK
  BY DEF RowsInv
<1>0. run' = run
  BY DEF Leave, Attach, Appear, Reserve
<1>d. DOMAIN onts \subseteq Places
  BY <1>t DEF TypeOK
<1>1. CASE Leave(p)
  <2>1. /\ DOMAIN onts' = DOMAIN onts
        /\ \A q \in Places \ {p} : chassis'[q] = chassis[q]
        /\ \A q \in DOMAIN onts \ {p} : onts'[q] = onts[q]
        /\ p \in DOMAIN onts => onts'[p] = [onts[p] EXCEPT !.own = FALSE]
    BY <1>1, <1>t DEF Leave, TypeOK
  <2>2. p \in DOMAIN onts => /\ ~onts'[p].own /\ onts'[p].pending = onts[p].pending
                             /\ onts'[p].age = onts[p].age
    BY <2>1, <1>t DEF TypeOK, Row
  <2>. QED
    BY <1>0, <1>d, <2>1, <2>2
       DEF RowsInv, RowsStep, OwnersStand, Stands, PendingIsYoung, WalkKnows, Accounts, Names
<1>2. CASE Attach(p)
  <2>1. p \in DOMAIN onts /\ onts[p].pending
    BY <1>2 DEF Attach
  <2>2. PICK taken \in BOOLEAN :
          /\ chassis' = IF taken THEN [chassis EXCEPT ![p] = onts[p].serial] ELSE chassis
          /\ onts' = [onts EXCEPT ![p] = [[@ EXCEPT !.pending = FALSE] EXCEPT !.own = taken]]
    BY <1>2 DEF Attach
  <2>3. onts[p] \in Row /\ onts[p].serial \in Serials
    BY <2>1, <1>t DEF TypeOK
  <2>4. /\ ~onts'[p].pending /\ onts'[p].own = taken
        /\ onts'[p].age = onts[p].age /\ onts'[p].serial = onts[p].serial
    BY <2>1, <2>2, <2>3 DEF Row
  <2>5. /\ DOMAIN onts' = DOMAIN onts
        /\ \A q \in DOMAIN onts \ {p} : onts'[q] = onts[q]
        /\ \A q \in Places \ {p} : chassis'[q] = chassis[q]
        /\ taken => chassis'[p] = onts[p].serial
    BY <2>1, <2>2, <1>t DEF TypeOK
  <2>6. OwnersStand'
    <3>1. taken => Stands(p, onts[p].serial)'
      BY <2>3, <2>4, <2>5, ParametersAssumption DEF Stands
    <3>. QED
      BY <1>d, <2>4, <2>5, <3>1 DEF RowsInv, OwnersStand, Stands
  <2>7. PendingIsYoung'
    BY <2>4, <2>5 DEF RowsInv, PendingIsYoung
  <2>8. WalkKnows'
    <3>1. onts[p].age \in Nat /\ onts[p].age <= MaxAttach
      BY <2>1, <1>t, RowNumbers DEF RowsInv, PendingIsYoung
    <3>2. \A r \in Runs : run[r].quiet \in Nat
      BY <1>t DEF TypeOK
    <3>3. \A r \in Runs : ~(onts'[p].age > run[r].quiet + MaxAttach)
      BY <2>4, <3>1, <3>2, ParametersAssumption
    <3>. QED
      BY <1>0, <2>5, <3>3 DEF RowsInv, WalkKnows, Accounts, Names
  <2>. QED
    BY <2>6, <2>7, <2>8 DEF RowsStep
<1>3. ASSUME NEW s \in Serials, Appear(p, s) PROVE RowsStep
  <2>1. onts' = onts /\ chassis[p] = None /\ \A q \in Places \ {p} : chassis'[q] = chassis[q]
    BY <1>3, <1>t DEF Appear, TypeOK
  <2>2. OwnersStand'
    BY <1>d, <2>1 DEF RowsInv, OwnersStand, Stands
  <2>. QED
    BY <1>0, <2>1, <2>2 DEF RowsInv, RowsStep, PendingIsYoung, WalkKnows, Accounts, Names
<1>4. ASSUME NEW s \in Serials, Reserve(p, s) PROVE RowsStep
  BY <1>0, <1>4, MadeRow DEF Reserve
<1>. QED
  BY <1>1, <1>2, <1>3, <1>4

LEMMA TickKeepsRows ==
  ASSUME RowsInv, Tick
  PROVE  RowsStep
<1>t. TypeOK
  BY DEF RowsInv
<1>1. DOMAIN onts' = DOMAIN onts /\ chassis' = chassis
  BY DEF Tick
<1>2. ASSUME NEW p \in DOMAIN onts
      PROVE  /\ onts'[p].own = onts[p].own /\ onts'[p].serial = onts[p].serial
             /\ onts'[p].pending = onts[p].pending /\ onts'[p].age = Older(onts[p].age, Grace)
  BY <1>t DEF Tick, TypeOK, Row
<1>3. ASSUME NEW p \in DOMAIN onts
      PROVE  /\ onts[p].age \in Nat /\ Older(onts[p].age, Grace) \in Nat
             /\ Older(onts[p].age, Grace) <= onts[p].age + 1
  BY <1>t, RowNumbers, ParametersAssumption DEF Older
<1>4. OwnersStand'
  BY <1>1, <1>2 DEF RowsInv, OwnersStand, Stands
<1>5. PendingIsYoung'
  <2>1. ASSUME NEW p \in DOMAIN onts, onts[p].pending PROVE onts'[p].age <= MaxAttach
    <3>1. onts[p].age < MaxAttach
      BY <2>1 DEF Tick
    <3>. QED
      BY <3>1, <1>2, <1>3, ParametersAssumption
  <2>. QED
    BY <1>1, <1>2, <2>1 DEF PendingIsYoung
<1>6. WalkKnows'
  <2>1. SUFFICES ASSUME NEW r \in Runs, run'[r].step = "walked"
                 PROVE  /\ run'[r].quiet <= MaxWalk
                        /\ \A p \in DOMAIN onts' :
                             onts'[p].own /\ onts'[p].age > run'[r].quiet + MaxAttach => Accounts(r, p)'
    BY DEF WalkKnows
  <2>2. /\ run[r].step = "walked" /\ run'[r].walk = run[r].walk /\ run'[r].missed = run[r].missed
        /\ run'[r].quiet = run[r].quiet + 1 /\ run[r].quiet < MaxWalk /\ run[r].quiet \in Nat
    BY <2>1, <1>t DEF Tick, TypeOK
  <2>3. run'[r].quiet <= MaxWalk
    BY <2>2, ParametersAssumption
  <2>4. ASSUME NEW p \in DOMAIN onts', onts'[p].own, onts'[p].age > run'[r].quiet + MaxAttach
        PROVE  Accounts(r, p)
    <3>1. p \in DOMAIN onts /\ onts[p].own /\ onts'[p].age <= onts[p].age + 1 /\ onts'[p].age \in Nat
      BY <1>1, <1>2, <1>3, <2>4
    <3>2. onts[p].age > run[r].quiet + MaxAttach
      BY <2>2, <2>4, <3>1, <1>3, ParametersAssumption
    <3>. QED
      BY <2>2, <3>1, <3>2 DEF RowsInv, WalkKnows
  <2>. QED
    BY <2>2, <2>3, <2>4 DEF Accounts, Names
<1>. QED
  BY <1>4, <1>5, <1>6 DEF RowsStep

(* A walk names, or is known to have missed, every ONU whose row can be    *)
(* old enough.                                                             *)
LEMMA FreshWalkKnows ==
  ASSUME RowsInv, NEW named \in SUBSET Occupied, NEW nameless,
         NEW p \in DOMAIN onts, onts[p].own, onts[p].age > MaxAttach
  PROVE  \/ Names(Read(named, nameless), p)
         \/ p \in Occupied \ named
<1>1. onts[p].age \in Nat /\ p \in Places
  BY RowNumbers DEF RowsInv
<1>2. ~onts[p].pending
  BY <1>1, ParametersAssumption DEF RowsInv, PendingIsYoung
<1>3. p \in Occupied
  BY <1>1, <1>2 DEF RowsInv, OwnersStand, Stands, Occupied
<1>4. CASE p \in named
  <2>. DEFINE x == <<p, IF p \in nameless THEN Blank ELSE chassis[p]>>
  <2>1. x \in Read(named, nameless)
    BY <1>4 DEF Read
  <2>2. x[1] = p
    OBVIOUS
  <2>. QED
    BY <2>1, <2>2 DEF Names
<1>. QED
  BY <1>3, <1>4

(* Of a standing ONU only a walk that missed it takes the row.             *)
LEMMA PruningIsFair ==
  ASSUME RowsInv, WalksWithinGrace, NEW r \in Runs, run[r].step = "walked",
         NEW p \in Prunable(run[r].walk), onts[p].own
  PROVE  run[r].walk # {} /\ p \in run[r].missed
<1>1. /\ run[r].walk # {} /\ p \in DOMAIN onts /\ onts[p].age = Grace
      /\ \A x \in run[r].walk : Number[x[1]] # Number[p]
  BY DEF Prunable, Missing
<1>2. run[r].quiet <= MaxWalk /\ run[r].quiet \in Nat
  BY DEF RowsInv, WalkKnows, TypeOK
<1>3. onts[p].age > run[r].quiet + MaxAttach
  BY <1>1, <1>2, ParametersAssumption DEF WalksWithinGrace
<1>4. Accounts(r, p)
  BY <1>1, <1>3 DEF RowsInv, WalkKnows
<1>. QED
  BY <1>1, <1>4 DEF Accounts, Names

LEMMA SyncKeepsRows ==
  ASSUME RowsInv, NEW w \in Workers, Sync(w)
  PROVE  RowsStep
<1>r. w \in Runs
  BY DEF Runs
<1>t. TypeOK
  BY DEF RowsInv
<1>1. ASSUME NEW named \in SUBSET Occupied, NEW nameless \in SUBSET named,
             discoverONTsForSync(w, named, nameless)
      PROVE  RowsStep
  <2>. DEFINE walk == Read(named, nameless)
  <2>1. run' = [run EXCEPT ![w] = At("walked", walk, Occupied \ named)] /\ onts' = onts /\ chassis' = chassis
    BY <1>1 DEF discoverONTsForSync
  <2>2. ASSUME NEW p \in DOMAIN onts, onts[p].own, onts[p].age > MaxAttach
        PROVE  Names(walk, p) \/ p \in Occupied \ named
    BY <2>2, FreshWalkKnows
  <2>. HIDE DEF walk
  <2>3. /\ \A r \in Runs \ {w} : run'[r] = run[r]
        /\ run'[w].step = "walked" /\ run'[w].walk = walk /\ run'[w].missed = Occupied \ named
        /\ run'[w].quiet = 0
    BY <2>1, <1>r, <1>t DEF At, TypeOK
  <2>4. WalkKnows'
    <3>1. ASSUME NEW r \in Runs \ {w}, run'[r].step = "walked"
          PROVE  /\ run'[r].quiet <= MaxWalk
                 /\ \A p \in DOMAIN onts' :
                      onts'[p].own /\ onts'[p].age > run'[r].quiet + MaxAttach => Accounts(r, p)'
      BY <2>1, <2>3, <3>1 DEF RowsInv, WalkKnows, Accounts, Names
    <3>2. run'[w].quiet <= MaxWalk /\ run'[w].quiet + MaxAttach = MaxAttach
      BY <2>3, ParametersAssumption
    <3>3. ASSUME NEW p \in DOMAIN onts', onts'[p].own, onts'[p].age > run'[w].quiet + MaxAttach
          PROVE  Accounts(w, p)'
      <4>1. Names(walk, p) \/ p \in Occupied \ named
        BY <2>1, <2>2, <3>2, <3>3
      <4>. QED
        BY <2>3, <4>1 DEF Accounts, Names
    <3>. QED
      BY <3>1, <3>2, <3>3 DEF WalkKnows
  <2>. QED
    BY <2>1, <2>4 DEF RowsInv, RowsStep, OwnersStand, Stands, PendingIsYoung
<1>2. CASE PruneMissingFromDiscovery(w)
  <2>1. chassis' = chassis /\ DOMAIN onts' \subseteq DOMAIN onts /\ \A p \in DOMAIN onts' : onts'[p] = onts[p]
    BY <1>2 DEF PruneMissingFromDiscovery
  <2>2. \A r \in Runs : run'[r].step = "walked" => run'[r] = run[r]
    <3>1. OthersStay(w) /\ run'[w].step = "register"
      BY <1>2, <1>r, <1>t, ToMoves DEF PruneMissingFromDiscovery, Steps
    <3>. QED
      BY <3>1 DEF OthersStay
  <2>3. OwnersStand' /\ PendingIsYoung'
    BY <2>1 DEF RowsInv, OwnersStand, Stands, PendingIsYoung
  <2>4. WalkKnows'
    BY <2>1, <2>2 DEF RowsInv, WalkKnows, Accounts, Names
  <2>. QED
    BY <2>3, <2>4 DEF RowsStep
<1>3. ASSUME NEW x \in run[w].walk, Register(w, x) PROVE RowsStep
  <2>1. run[w].step = "register" /\ Looked(w, x, x[2]).step = "register"
    <3>1. x[2] \in Serials \cup {Blank}
      BY <1>3, <1>r, <1>t DEF TypeOK, Pairs
    <3>. QED
      BY <1>3, <1>r, <1>t, <3>1, LookMoves DEF Register
  <2>2. \A r \in Runs : run'[r].step = "walked" => run'[r] = run[r]
    BY <1>3, <1>r, <1>t, <2>1 DEF Register, TypeOK
  <2>. QED
    BY <1>3, <2>2, RowsStand DEF Register
<1>4. CASE SyncDone(w)
  <2>1. \A r \in Runs : run'[r].step = "walked" => run'[r] = run[r]
    BY <1>4, <1>r, <1>t, ToMoves DEF SyncDone, Steps, OthersStay
  <2>. QED
    BY <1>4, <2>1, RowsStand DEF SyncDone
<1>5. CASE Create(w)
  <2>1. PICK y \in run[w].look : onts' = Insert(y[1], y[2])
    BY <1>5 DEF Create
  <2>2. y \in Pairs
    BY <2>1, <1>r, <1>t DEF TypeOK
  <2>3. \A r \in Runs : run'[r].step = "walked" => run'[r] = run[r]
    BY <1>5, <1>r, <1>t DEF Create, TypeOK
  <2>. QED
    BY <1>5, <2>1, <2>2, <2>3, RowsMade DEF Create
<1>. QED
  BY <1>1, <1>2, <1>3, <1>4, <1>5 DEF Sync

LEMMA AutoKeepsRows ==
  ASSUME RowsInv, NEW r \in Runs, AutoDiscover(r) \/ StandDown(r) \/ Dies(r)
  PROVE  RowsStep
<1>t. TypeOK
  BY DEF RowsInv
<1>1. ASSUME OthersStay(r), run'[r].step # "walked", UNCHANGED <<onts, chassis>>
      PROVE  RowsStep
  <2>1. \A q \in Runs : run'[q].step = "walked" => run'[q] = run[q]
    BY <1>1 DEF OthersStay
  <2>. QED
    BY <1>1, <2>1, RowsStand
<1>2. CASE TryClaimDiscovery(r)
  <2>1. To(r, "claimed") \/ Stop(r)
    BY <1>2 DEF TryClaimDiscovery
  <2>2. OthersStay(r) /\ run'[r].step # "walked"
    BY <2>1, <1>t, ToMoves, StopMoves DEF Steps, Holding
  <2>. QED
    BY <1>1, <1>2, <2>2 DEF TryClaimDiscovery
<1>3. CASE StandDown(r) \/ Dies(r) \/ AutoDiscovered(r)
  <2>1. OthersStay(r) /\ run'[r].step # "walked"
    BY <1>3, <1>t, StopMoves DEF StandDown, Dies, AutoDiscovered
  <2>. QED
    BY <1>1, <1>3, <2>1 DEF StandDown, Dies, AutoDiscovered
<1>4. CASE beginDiscovery(r)
  <2>1. OthersStay(r) /\ run'[r].step # "walked"
    BY <1>4, <1>t, ToMoves DEF beginDiscovery, Steps, Holding
  <2>. QED
    BY <1>1, <1>4, <2>1 DEF beginDiscovery
<1>5. ASSUME NEW named, walkONTPositions(r, named) \/ readONTMetrics(r, named) PROVE RowsStep
  <2>1. OthersStay(r) /\ run'[r].step # "walked"
    BY <1>5, <1>t DEF walkONTPositions, readONTMetrics, At, OthersStay, TypeOK
  <2>. QED
    BY <1>1, <1>5, <2>1 DEF walkONTPositions, readONTMetrics
<1>6. ASSUME NEW x \in run[r].walk, NEW nameless \in BOOLEAN, registerDiscoveredONTs(r, x, nameless)
      PROVE  RowsStep
  <2>. DEFINE s == IF nameless \/ chassis[x[1]] = None THEN Blank ELSE chassis[x[1]]
  <2>1. s \in Serials \cup {Blank}
    BY <1>6, <1>t DEF TypeOK, Pairs
  <2>2. \/ run' = [run EXCEPT ![r] = [Looked(r, x, s) EXCEPT !.quiet = 0]]
        \/ run' = [run EXCEPT ![r] = Looked(r, x, s)]
    BY <1>6 DEF registerDiscoveredONTs
  <2>. HIDE DEF s
  <2>3. Looked(r, x, s) \in RunRecord /\ Looked(r, x, s).step = "store"
    BY <1>6, <1>t, <2>1, LookMoves DEF registerDiscoveredONTs
  <2>4. [Looked(r, x, s) EXCEPT !.quiet = 0].step = "store"
    BY <2>3 DEF RunRecord
  <2>5. OthersStay(r) /\ run'[r].step = "store"
    BY <2>2, <2>3, <2>4, <1>t DEF OthersStay, TypeOK
  <2>. QED
    BY <1>1, <1>6, <2>5 DEF registerDiscoveredONTs
<1>7. CASE CreateDiscovered(r)
  <2>1. PICK y \in run[r].look : onts' = Insert(y[1], y[2])
    BY <1>7 DEF CreateDiscovered
  <2>2. y \in Pairs
    BY <2>1, <1>t DEF TypeOK
  <2>3. run' = [run EXCEPT ![r] = [[run[r] EXCEPT !.look = {}] EXCEPT !.quiet = 0]]
    BY <1>7, <1>t DEF CreateDiscovered, TypeOK
  <2>4. \A q \in Runs : run'[q].step = "walked" => run'[q] = run[q]
    BY <1>7, <2>3, <1>t DEF CreateDiscovered, TypeOK
  <2>. QED
    BY <1>7, <2>1, <2>2, <2>4, RowsMade DEF CreateDiscovered
<1>. QED
  BY <1>2, <1>3, <1>4, <1>5, <1>6, <1>7 DEF AutoDiscover

LEMMA NextRows == RowsInv /\ [Next]_vars => RowsInv'
<1>. SUFFICES ASSUME RowsInv, [Next]_vars PROVE RowsInv'
  OBVIOUS
<1>1. TypeOK'
  BY NextType DEF RowsInv
<1>2. ASSUME RowsStep PROVE RowsInv'
  BY <1>1, <1>2 DEF RowsInv, RowsStep
<1>3. CASE UNCHANGED vars
  BY <1>2, <1>3, RowsStand DEF vars
<1>4. ASSUME NEW p \in Places, Leave(p) \/ Attach(p) \/ \E s \in Serials : Appear(p, s) \/ Reserve(p, s)
      PROVE  RowsInv'
  BY <1>2, <1>4, ChassisKeepsRows
<1>5. CASE Tick
  BY <1>2, <1>5, TickKeepsRows
<1>6. ASSUME NEW w \in Workers, Sync(w) PROVE RowsInv'
  BY <1>2, <1>6, SyncKeepsRows
<1>7. ASSUME NEW r \in Runs, AutoDiscover(r) \/ StandDown(r) \/ Dies(r) PROVE RowsInv'
  BY <1>2, <1>7, AutoKeepsRows
<1>. QED
  BY <1>3, <1>4, <1>5, <1>6, <1>7 DEF Next

LEMMA RowsInvariant == Spec => []RowsInv
<1>1. Init => RowsInv
  BY InitType DEF Init, RowsInv, OwnersStand, PendingIsYoung, WalkKnows, Idle, At
<1>2. RowsInv /\ [Next]_vars => RowsInv'
  BY NextRows
<1>. QED
  BY <1>1, <1>2, PTL DEF Spec

(* Only pruning deletes rows.                                              *)
LEMMA OnlyPruningDeletes ==
  ASSUME TypeOK, [Next]_vars, NEW p \in DOMAIN onts \ DOMAIN onts'
  PROVE  \E w \in Workers : run[w].step = "walked" /\ p \in Prunable(run[w].walk)
<1>1. CASE DOMAIN onts \subseteq DOMAIN onts'
  BY <1>1
<1>2. ASSUME NEW y, onts' = Insert(y[1], y[2]) PROVE DOMAIN onts \subseteq DOMAIN onts'
  BY <1>2 DEF Insert, NewRow
<1>3. CASE UNCHANGED onts
  BY <1>1, <1>3
<1>4. ASSUME NEW q \in Places, Leave(q) \/ Attach(q) \/ \E s \in Serials : Appear(q, s) \/ Reserve(q, s)
      PROVE  DOMAIN onts \subseteq DOMAIN onts'
  BY <1>4 DEF Leave, Attach, Appear, Reserve, NewRow
<1>5. CASE Tick
  BY <1>1, <1>5 DEF Tick
<1>6. ASSUME NEW w \in Workers, Sync(w)
      PROVE  \E v \in Workers : run[v].step = "walked" /\ p \in Prunable(run[v].walk)
  <2>1. CASE PruneMissingFromDiscovery(w)
    <3>1. run[w].step = "walked" /\ DOMAIN onts' = DOMAIN onts \ Prunable(run[w].walk)
      BY <2>1 DEF PruneMissingFromDiscovery
    <3>. QED
      BY <3>1
  <2>2. CASE Create(w)
    BY <1>1, <1>2, <2>2 DEF Create
  <2>. QED
    BY <1>3, <1>6, <2>1, <2>2 DEF Sync, discoverONTsForSync, Register, SyncDone
<1>7. ASSUME NEW r \in Runs, AutoDiscover(r) \/ StandDown(r) \/ Dies(r)
      PROVE  DOMAIN onts \subseteq DOMAIN onts'
  <2>1. CASE CreateDiscovered(r)
    BY <1>2, <2>1 DEF CreateDiscovered
  <2>2. CASE UNCHANGED onts
    BY <2>2
  <2>. QED
    BY <1>7, <2>1, <2>2
       DEF AutoDiscover, TryClaimDiscovery, beginDiscovery, walkONTPositions, readONTMetrics,
           registerDiscoveredONTs, AutoDiscovered, StandDown, Dies
<1>8. CASE UNCHANGED vars
  BY <1>3, <1>8 DEF vars
<1>. QED
  BY <1>1, <1>4, <1>5, <1>6, <1>7, <1>8 DEF Next

(* Pruning never takes the row of an ONU that stays where its row was made *)
(* unless the walk left it out, as long as the grace covers a walk and a   *)
(* registration on the chassis.                                            *)
THEOREM StayingIsSafe == ASSUME WalksWithinGrace PROVE Spec => NobodyIsPruned
<1>1. RowsInv /\ [Next]_vars =>
        [\A p \in DOMAIN onts \ DOMAIN onts' : onts[p].own =>
           \E w \in Workers : run[w].step = "walked" /\ run[w].walk # {} /\ p \in run[w].missed]_vars
  <2>. SUFFICES ASSUME RowsInv, [Next]_vars, NEW p \in DOMAIN onts \ DOMAIN onts', onts[p].own
                PROVE  \E w \in Workers : run[w].step = "walked" /\ run[w].walk # {} /\ p \in run[w].missed
    OBVIOUS
  <2>1. PICK w \in Workers : run[w].step = "walked" /\ p \in Prunable(run[w].walk)
    BY OnlyPruningDeletes DEF RowsInv
  <2>2. w \in Runs
    BY DEF Runs
  <2>. QED
    BY <2>1, <2>2, PruningIsFair
<1>. QED
  BY <1>1, RowsInvariant, PTL DEF Spec, NobodyIsPruned
=============================================================================
