----------------------------- MODULE Discovery -----------------------------
(***************************************************************************)
(* Finding out which ONUs a chassis holds.  The worker's discovery job     *)
(* walks the chassis, prunes the rows it no longer names and registers the *)
(* ONUs it does; then, as the API does for an OLT just added, it claims    *)
(* the OLT for a second, richer walk that registers as it goes.            *)
(*   src/backend/internal/services/olt_service_discovery.go,               *)
(*     ont_service_discovery.go, ont_service_sync.go, ont_service.go,      *)
(*     ont_service_crud.go                                                 *)
(*   src/backend/cmd/worker/olt_cycle.go, main.go                          *)
(*                                                                         *)
(* The chassis and whoever works on it are external.  Durations are ages   *)
(* that stop at the limit the code compares them with, so nothing bounds   *)
(* the clock.  A walk may leave places out and ONUs nameless without an    *)
(* error.  Not here: the optical readings, names and caches a run stores   *)
(* besides, and OLTs that report no card.                                  *)
(***************************************************************************)
EXTENDS Integers, FiniteSets

CONSTANTS
  Places,       \* card, port and ONU number
  Number,       \* Number[p]: the port and ONU number without the card
  Serials,      \* ONUs
  Workers, Api, \* who runs discoveries: job after job, and once
  None,         \* no ONU
  Blank,        \* no serial: the inventory did not give one
  Stale,        \* staleDiscoveryClaim, in ticks
  MinInterval,  \* minDiscoveryInterval
  Grace,        \* pruneGracePeriod
  MaxQuiet,     \* environment: the longest a run goes without progress
  MaxWalk,      \* environment: the longest a job takes from its walk to its pruning
  MaxAttach,    \* environment: the longest a registration takes on the chassis
  MaxChanges,   \* bound: ONUs that come, go or are registered
  MaxFailures   \* bound: walks that are not whole, busy chassis, crashes

ASSUME ParametersAssumption ==
  /\ Api \notin Workers /\ None \notin Serials /\ Blank \notin Serials
  /\ Stale \in Nat /\ MinInterval \in Nat /\ Grace \in Nat
  /\ MaxQuiet \in Nat /\ MaxWalk \in Nat /\ MaxAttach \in Nat
  /\ MaxChanges \in Nat /\ MaxFailures \in Nat

VARIABLES
  chassis,  \* the ONU at each place
  onts,     \* the rows, a function from the places that have one
  claim,    \* the discovery columns of the olts row
  run,      \* what each process is doing
  spent     \* changes and failures so far

vars == <<chassis, onts, claim, run, spent>>

Runs == Workers \cup {Api}
\* What a run has in hand: the places and serials it read, the places its walk
\* left out, and the row it has looked up and is about to insert.
At(step, walk, missed) == [step |-> step, walk |-> walk, missed |-> missed, look |-> {}, quiet |-> 0]
Idle == At("idle", {}, {})
Holding == {"claimed", "walk", "metrics", "store"}

Older(age, limit) == IF age < limit THEN age + 1 ELSE limit
May(what, max) == spent[what] < max
Spend(what) == [spent EXCEPT ![what] = @ + 1]

Occupied == {p \in Places : chassis[p] # None}
HasRow(s) == s # Blank /\ \E p \in DOMAIN onts : onts[p].serial = s

\* Whether the ONU a row names, or for want of a serial any, is at the place.
Stands(p, s) == chassis[p] # None /\ s \in {Blank, chassis[p]}
NewRow(p, s, pending) == [q \in DOMAIN onts \cup {p} |->
  IF q = p THEN [serial |-> s, age |-> 0, own |-> pending \/ Stands(p, s), pending |-> pending] ELSE onts[q]]

To(r, step) == run' = [run EXCEPT ![r].step = step, ![r].missed = {}, ![r].quiet = 0]
Stop(r) == run' = [run EXCEPT ![r] = Idle]

\* An OLT just created: never polled, its API run about to claim it.
Init ==
  /\ chassis \in [Places -> Serials \cup {None}]
  /\ \A p, q \in Places : chassis[p] = chassis[q] /\ p # q => chassis[p] = None
  /\ onts = <<>>
  /\ claim = [phase |-> "idle", beat |-> Stale, poll |-> MinInterval]
  /\ run = [r \in Runs |-> IF r = Api THEN At("claim", {}, {}) ELSE Idle]
  /\ spent = [changes |-> 0, failures |-> 0]

-----------------------------------------------------------------------------
(* The chassis and time.                                                   *)

\* Taken off the chassis by hand; the row, if any, is not told.
Leave(p) ==
  /\ May("changes", MaxChanges) /\ chassis[p] # None
  /\ chassis' = [chassis EXCEPT ![p] = None]
  /\ onts' = [q \in DOMAIN onts |-> IF q = p THEN [onts[q] EXCEPT !.own = FALSE] ELSE onts[q]]
  /\ spent' = Spend("changes")
  /\ UNCHANGED <<claim, run>>

\* Put on by hand, whatever the rows say of the place.
Appear(p, s) ==
  /\ May("changes", MaxChanges) /\ chassis[p] = None /\ \A q \in Places : chassis[q] # s
  /\ chassis' = [chassis EXCEPT ![p] = s]
  /\ spent' = Spend("changes")
  /\ UNCHANGED <<onts, claim, run>>

\* A registration through TikMan: the row first, the chassis later.  It looks
\* nothing up; the indexes refuse its INSERT or take it.
Reserve(p, s) ==
  /\ May("changes", MaxChanges) /\ chassis[p] = None /\ \A q \in Places : chassis[q] # s
  /\ p \notin DOMAIN onts /\ ~HasRow(s)
  /\ onts' = NewRow(p, s, TRUE)
  /\ spent' = Spend("changes")
  /\ UNCHANGED <<chassis, claim, run>>

Attach(p) ==
  /\ p \in DOMAIN onts /\ onts[p].pending
  /\ LET taken == chassis[p] = None /\ \A q \in Places : chassis[q] # onts[p].serial
     IN /\ chassis' = IF taken THEN [chassis EXCEPT ![p] = onts[p].serial] ELSE chassis
        /\ onts' = [onts EXCEPT ![p].pending = FALSE, ![p].own = taken]
  /\ UNCHANGED <<claim, run, spent>>

Tick ==
  /\ \A r \in Runs :
       /\ run[r].step \in Holding => run[r].quiet < MaxQuiet
       /\ run[r].step = "walked" => run[r].quiet < MaxWalk
  /\ \A p \in DOMAIN onts : onts[p].pending => onts[p].age < MaxAttach
  /\ onts' = [p \in DOMAIN onts |-> [onts[p] EXCEPT !.age = Older(@, Grace)]]
  /\ claim' = [claim EXCEPT !.beat = Older(@, Stale), !.poll = Older(@, MinInterval)]
  /\ run' = [r \in Runs |->
       IF run[r].step \in Holding \cup {"walked"} THEN [run[r] EXCEPT !.quiet = @ + 1] ELSE run[r]]
  /\ UNCHANGED <<chassis, spent>>

-----------------------------------------------------------------------------
(* syncOntsWithDiscovery: walk, prune, register.                           *)

Affordable(bad) == bad => May("failures", MaxFailures)
Pay(bad) == spent' = IF bad THEN Spend("failures") ELSE spent

\* Without an error the status table may leave ONUs out, all of them even, and
\* the inventory may not give the serial of one that it names.
Read(named, nameless) == {<<p, IF p \in nameless THEN Blank ELSE chassis[p]>> : p \in named}

discoverONTsForSync(w, named, nameless) ==
  /\ run[w].step = "idle"
  /\ LET poor == named # Occupied \/ nameless # {} IN Affordable(poor) /\ Pay(poor)
  /\ run' = [run EXCEPT ![w] = At("walked", Read(named, nameless), Occupied \ named)]
  /\ UNCHANGED <<chassis, onts, claim>>

\* Mutant: a row of a moment ago counts too.
Missing_NoGrace(walk) == {p \in DOMAIN onts : \A x \in walk : Number[x[1]] # Number[p]}

\* Old enough, at a number the walk did not name.
Missing(walk) == {p \in DOMAIN onts : onts[p].age = Grace /\ \A x \in walk : Number[x[1]] # Number[p]}

\* Mutant: nothing is pruned.
Prunable_Never(walk) == {}

Prunable(walk) == IF walk = {} THEN {} ELSE Missing(walk)

PruneMissingFromDiscovery(w) ==
  /\ run[w].step = "walked"
  /\ onts' = [p \in DOMAIN onts \ Prunable(run[w].walk) |-> onts[p]]
  /\ To(w, "register")
  /\ UNCHANGED <<chassis, claim, spent>>

-----------------------------------------------------------------------------
(* BulkRegisterFromDiscovery, one ONU at a time: a look at the rows, then  *)
(* an INSERT in a statement of its own.                                    *)

\* A known place keeps its row, and a serial another row holds is refused.
\* The look asks it of the rows, and so do the indexes on the INSERT.
Refused(p, s) == p \in DOMAIN onts \/ HasRow(s)

\* Mutant: no unique index on the serial.
Insert_NoIndex(p, s) == IF p \in DOMAIN onts THEN onts ELSE NewRow(p, s, FALSE)

Insert(p, s) == IF Refused(p, s) THEN onts ELSE NewRow(p, s, FALSE)

Looked(r, x, s) ==
  [run[r] EXCEPT !.walk = @ \ {x}, !.look = IF Refused(x[1], s) THEN {} ELSE {<<x[1], s>>}]

Register(w, x) ==
  /\ run[w].step = "register" /\ run[w].look = {} /\ x \in run[w].walk
  /\ run' = [run EXCEPT ![w] = Looked(w, x, x[2])]
  /\ UNCHANGED <<chassis, onts, claim, spent>>

Create(w) ==
  /\ run[w].step = "register"
  /\ \E y \in run[w].look : onts' = Insert(y[1], y[2])
  /\ run' = [run EXCEPT ![w].look = {}]
  /\ UNCHANGED <<chassis, claim, spent>>

SyncDone(w) ==
  /\ run[w].step = "register" /\ run[w].look = {} /\ run[w].walk = {}
  /\ To(w, "claim")
  /\ UNCHANGED <<chassis, onts, claim, spent>>

-----------------------------------------------------------------------------
(* AutoDiscoverONTMetrics under the database claim.                        *)

\* Mutant: the phase in which the optics are read does not count as a run.
Free_NotPolling == claim.phase # "discovering" \/ claim.beat = Stale

Free == claim.phase \notin {"discovering", "polling"} \/ claim.beat = Stale

\* Mutant: an abandoned claim never expires.
TryClaimDiscovery_Forever(r) ==
  /\ run[r].step = "claim"
  /\ IF claim.phase \notin {"discovering", "polling"} /\ claim.poll = MinInterval
     THEN claim' = [claim EXCEPT !.phase = "discovering", !.beat = 0] /\ To(r, "claimed")
     ELSE UNCHANGED claim /\ Stop(r)
  /\ UNCHANGED <<chassis, onts, spent>>

TryClaimDiscovery(r) ==
  /\ run[r].step = "claim"
  /\ IF Free /\ claim.poll = MinInterval
     THEN claim' = [claim EXCEPT !.phase = "discovering", !.beat = 0] /\ To(r, "claimed")
     ELSE UNCHANGED claim /\ Stop(r)
  /\ UNCHANGED <<chassis, onts, spent>>

\* Mutant: progress without a heartbeat.
updateDiscoveryProgress_NoBeat(phase) == claim' = [claim EXCEPT !.phase = phase]

\* Every progress is the claim's heartbeat, whoever's claim it is by now.
updateDiscoveryProgress(phase) == claim' = [claim EXCEPT !.phase = phase, !.beat = 0]

\* This process's metrics cycle is reading the chassis.
StandDown(r) ==
  /\ run[r].step = "claimed" /\ May("failures", MaxFailures)
  /\ updateDiscoveryProgress("idle")
  /\ Stop(r)
  /\ spent' = Spend("failures")
  /\ UNCHANGED <<chassis, onts>>

beginDiscovery(r) ==
  /\ run[r].step = "claimed"
  /\ updateDiscoveryProgress("discovering")
  /\ To(r, "walk")
  /\ UNCHANGED <<chassis, onts, spent>>

\* The status table; nothing found is no progress.  The serials are read later.
walkONTPositions(r, named) ==
  /\ run[r].step = "walk" /\ Affordable(named # Occupied) /\ Pay(named # Occupied)
  /\ IF named = {} THEN UNCHANGED claim /\ run' = [run EXCEPT ![r].step = "metrics"]
     ELSE /\ updateDiscoveryProgress("discovering")
          /\ run' = [run EXCEPT ![r] = At("metrics", named \X {Blank}, {})]
  /\ UNCHANGED <<chassis, onts>>

\* The optical tables, which may name places the status table did not.
readONTMetrics(r, more) ==
  /\ run[r].step = "metrics"
  /\ updateDiscoveryProgress("polling")
  /\ run' = [run EXCEPT ![r] = At("store", run[r].walk \cup (more \X {Blank}), {})]
  /\ UNCHANGED <<chassis, onts, spent>>

\* The inventory gives the place's serial, or nothing; a row not to insert is
\* progress at once.
registerDiscoveredONTs(r, x, nameless) ==
  /\ run[r].step = "store" /\ run[r].look = {} /\ x \in run[r].walk
  /\ LET s == IF nameless \/ chassis[x[1]] = None THEN Blank ELSE chassis[x[1]]
     IN IF Refused(x[1], s)
        THEN updateDiscoveryProgress(claim.phase) /\ run' = [run EXCEPT ![r] = [Looked(r, x, s) EXCEPT !.quiet = 0]]
        ELSE UNCHANGED claim /\ run' = [run EXCEPT ![r] = Looked(r, x, s)]
  /\ Affordable(nameless) /\ Pay(nameless)
  /\ UNCHANGED <<chassis, onts>>

CreateDiscovered(r) ==
  /\ run[r].step = "store"
  /\ \E y \in run[r].look : onts' = Insert(y[1], y[2])
  /\ updateDiscoveryProgress(claim.phase)
  /\ run' = [run EXCEPT ![r].look = {}, ![r].quiet = 0]
  /\ UNCHANGED <<chassis, spent>>

\* Completed, also when the inventory walk failed and reported only some places.
AutoDiscovered(r) ==
  /\ run[r].step = "store" /\ run[r].look = {}
  /\ Affordable(run[r].walk # {}) /\ Pay(run[r].walk # {})
  /\ claim' = [phase |-> "completed", beat |-> 0, poll |-> 0]
  /\ Stop(r)
  /\ UNCHANGED <<chassis, onts>>

\* The process dies, or has no driver for the model: the claim stays behind.
Dies(r) ==
  /\ run[r] # Idle /\ May("failures", MaxFailures)
  /\ Stop(r)
  /\ spent' = Spend("failures")
  /\ UNCHANGED <<chassis, onts, claim>>

-----------------------------------------------------------------------------
AutoDiscover(r) ==
  \/ TryClaimDiscovery(r) \/ beginDiscovery(r)
  \/ \E named \in SUBSET Occupied : walkONTPositions(r, named) \/ readONTMetrics(r, named)
  \/ \E x \in run[r].walk, nameless \in BOOLEAN : registerDiscoveredONTs(r, x, nameless)
  \/ CreateDiscovered(r) \/ AutoDiscovered(r)

Sync(w) ==
  \/ \E named \in SUBSET Occupied : \E nameless \in SUBSET named : discoverONTsForSync(w, named, nameless)
  \/ PruneMissingFromDiscovery(w) \/ Create(w) \/ SyncDone(w)
  \/ \E x \in run[w].walk : Register(w, x)

Next ==
  \/ \E p \in Places : Leave(p) \/ Attach(p)
  \/ \E p \in Places, s \in Serials : Appear(p, s) \/ Reserve(p, s)
  \/ Tick
  \/ \E w \in Workers : Sync(w)
  \/ \E r \in Runs : AutoDiscover(r) \/ StandDown(r) \/ Dies(r)

Spec == Init /\ [][Next]_vars

\* Time passes, and the job queue runs a worker's next job (PollQueue).
FairSpec ==
  /\ Spec /\ WF_vars(Tick)
  /\ \A w \in Workers : WF_vars(Sync(w) \/ AutoDiscover(w))
  /\ WF_vars(AutoDiscover(Api))
  /\ \A p \in Places : WF_vars(Attach(p))

-----------------------------------------------------------------------------
(* Properties.                                                             *)

Pairs == Places \X (Serials \cup {Blank})
Row == [serial : Serials \cup {Blank}, age : 0..Grace, own : BOOLEAN, pending : BOOLEAN]
Steps == {"idle", "walked", "register", "claim"} \cup Holding

\* The shape of the state.
TypeOK ==
  /\ chassis \in [Places -> Serials \cup {None}]
  /\ DOMAIN onts \subseteq Places
  /\ \A p \in DOMAIN onts : onts[p] \in Row /\ (onts[p].pending => onts[p].serial \in Serials)
  /\ claim \in [phase : {"idle", "discovering", "polling", "completed"}, beat : 0..Stale, poll : 0..MinInterval]
  /\ run \in [Runs -> [step : Steps, walk : SUBSET Pairs, missed : SUBSET Places, look : SUBSET Pairs, quiet : Nat]]
  /\ \A r \in Runs : run[r].step \in {"idle", "claim", "claimed", "walk"} => run[r].walk = {}

\* What the lengths are chosen for (olt_service_discovery.go:16-25, ont_service_sync.go:13-20).
QuietWithinClaim == MaxQuiet < Stale
WalksWithinGrace == MaxWalk + MaxAttach < Grace

\* While no run is quiet for as long as a claim lives, two never walk the
\* chassis under the claim at once, whoever crashes (olt_service_discovery.go:37).
OneRun == \A q, r \in Runs : run[q].step \in Holding /\ run[r].step \in Holding => q = r

\* What the claim promises, with its heartbeat and the clock left out: the
\* chassis is one piece of exclusive work, and comes back from who took it.
Promise == INSTANCE ExclusiveWork
             WITH Workers <- Runs, Items <- {"chassis"},
                  holders <- [i \in {"chassis"} |-> {r \in Runs : run[r].step \in Holding}]
ImplementsExclusiveWork == Promise!Spec

\* Pruning takes no row from an ONU that is on the chassis, or on its way
\* there, as long as it stays where its row was made: neither an empty walk nor
\* one that began before the ONU arrived costs it its history, nor a walk that
\* is not whole, but to the ONUs it left out (ont_service_sync.go:13 and :27).
NobodyIsPruned ==
  [][\A p \in DOMAIN onts \ DOMAIN onts' : onts[p].own =>
       \E w \in Workers : run[w].step = "walked" /\ run[w].walk # {} /\ p \in run[w].missed]_vars

\* However the looks and INSERTs of the sync and of the API's run, and the
\* registrations, interleave, no two rows have one serial.
SerialsAreUnique ==
  \A p, q \in DOMAIN onts : onts[p].serial = onts[q].serial /\ onts[p].serial # Blank => p = q

\* Whatever crashed while it held the claim, the OLT is discovered again and again.
DiscoveredAgain == []<>(claim.phase = "completed" /\ claim.poll = 0)

\* Once nobody works on the chassis, the rows that are left have an ONU at
\* their port and number, and every ONU has a row - at its place, or its serial
\* does elsewhere: one that moved follows as soon as its old row has aged.
RowsFollowChassis ==
  <>[](Occupied # {} =>
         /\ \A p \in DOMAIN onts : \E q \in Occupied : Number[q] = Number[p]
         /\ \A p \in Occupied : p \in DOMAIN onts \/ HasRow(chassis[p]))
=============================================================================
