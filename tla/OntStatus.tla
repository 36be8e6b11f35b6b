----------------------------- MODULE OntStatus -----------------------------
(***************************************************************************)
(* Whether a subscriber is up: the status on the ONT's row, and the        *)
(* history of events its availability is computed from.  Nobody owns       *)
(* either.  The status tier and the metrics tier of the poller, the trap   *)
(* receiver and the watch after a provisioning all write the row, and all  *)
(* but the watch write the history.                                        *)
(*   src/backend/cmd/worker/olt_cycle.go, olt_poll.go, ont_poll.go         *)
(*   src/backend/cmd/trapd/apply.go                                        *)
(*   src/backend/internal/services/event_status_batch.go,                  *)
(*     event_service.go, ont_status_after_provision.go                     *)
(*                                                                         *)
(* The chassis is external: ONUs change phase when they like, its traps    *)
(* are lost, late or doubled.  A tier runs one cycle at a time             *)
(* (PollQueue); every database statement is a step, none of them shares a  *)
(* transaction with another.  Time is counted in ticks, of which a second  *)
(* has several: what is stored or added up is whole seconds.  Not here:    *)
(* the optical readings, pages beyond the first.                           *)
(***************************************************************************)
EXTENDS Integers, FiniteSets, Sequences, FiniteSetsExt

CONSTANTS
  ONTs,         \* the rows of one OLT
  Tiers,        \* the poll jobs that read statuses
  Down,         \* the ways of being down a phase state names
  Second,       \* the ticks of a second
  MaxPause,     \* bound: ticks between two calls of time.Now
  MaxFlips,     \* bound: changes of phase
  MaxTraps,     \* bound: deliveries of a trap
  MaxFailures,  \* bound: failed walks, failed statements, crashes
  MaxWatches    \* bound: provisionings

ASSUME ParametersAssumption ==
  /\ "offline" \in Down /\ "online" \notin Down /\ "ranging" \notin Down /\ "none" \notin Down
  /\ {"trapd", "watch"} \cap Tiers = {}
  /\ Second \in Nat \ {0} /\ MaxPause \in Nat
  /\ MaxFlips \in Nat /\ MaxTraps \in Nat /\ MaxFailures \in Nat /\ MaxWatches \in Nat

VARIABLES
  phase,     \* what each ONU is
  been,      \* history: everything it has been
  traps,     \* traps on their way
  row,       \* onts.status
  events,    \* the ont_events rows of each ONT, as inserted
  clock,     \* the last time handed out
  pc,        \* where each writer of events is
  verdict,   \* the status it has concluded, or "none": no evidence
  left,      \* the ONTs its current loop has yet to write
  seen,      \* how many events each ONT had when it read the latest
  at,        \* now of its LogStatusChanges
  watch,     \* the watch of each ONT: windows left, last state kept
  spent      \* flips, trap deliveries, failures and watches so far

vars == <<phase, been, traps, row, events, clock, pc, verdict, left, seen, at, watch, spent>>
chassis == <<phase, been, traps>>
memory == <<pc, verdict, left, seen, at>>

Statuses == Down \cup {"online"}
Verdicts == Statuses \cup {"none"}
Phases == Statuses \cup {"ranging"}   \* "ranging" is every phase mapped to unknown
Writers == Tiers \cup {"trapd"}

Kind(s) == IF s = "online" THEN "online" ELSE "offline"
NoWatch == [windows |-> 0, kept |-> "none"]

\* int64(d.Seconds()): the whole seconds of so many ticks.
Whole(ticks) == ticks \div Second
Running == -1   \* an event without duration_seconds

May(what, max) == spent[what] < max
Spend(what) == [spent EXCEPT ![what] = @ + 1]

-----------------------------------------------------------------------------
(* The event history.                                                      *)

\* The newest of the first n rows of o, by event_time.
Newest(o, n) == CHOOSE i \in 1..n : \A j \in 1..n : events[o][j].time <= events[o][i].time
Latest(o) == events[o][Newest(o, Len(events[o]))]

\* Mutant: every cycle opens an event.
NewsAsOf_Always(w, n) == {o \in ONTs : verdict[w][o] # "none"}

\* What the writer's call has to open: an ONT without history, or in another state.
NewsAsOf(w, n) ==
  {o \in ONTs : verdict[w][o] # "none" /\ (n[o] > 0 => events[o][Newest(o, n[o])].type # Kind(verdict[w][o]))}

Opened(w) == NewsAsOf(w, seen[w])

\* Another call is in the middle of o's history, or has been since w read it.
Raced(w, o) ==
  \/ seen[w][o] # Len(events[o])
  \/ \E v \in Writers \ {w} : pc[v] \in {"now", "log"} /\ o \in Opened(v)
Event(w, o) == [type |-> Kind(verdict[w][o]), time |-> at[w], lasted |-> Running, raced |-> Raced(w, o)]

Init ==
  /\ phase = [o \in ONTs |-> "online"]
  /\ been = [o \in ONTs |-> {"online"}]
  /\ traps = {}
  /\ row = [o \in ONTs |-> "online"]
  /\ events = [o \in ONTs |-> <<>>]
  /\ clock = 0
  /\ pc = [w \in Writers |-> "idle"]
  /\ verdict = [w \in Writers |-> [o \in ONTs |-> "none"]]
  /\ left = [w \in Writers |-> {}]
  /\ seen = [w \in Writers |-> [o \in ONTs |-> 0]]
  /\ at = [w \in Writers |-> 0]
  /\ watch = [o \in ONTs |-> NoWatch]
  /\ spent = [flips |-> 0, traps |-> 0, failures |-> 0, watches |-> 0]

\* A writer's memory is gone once its call returns.
Return(w) ==
  /\ pc' = [pc EXCEPT ![w] = "idle"]
  /\ verdict' = [verdict EXCEPT ![w] = [o \in ONTs |-> "none"]]
  /\ left' = [left EXCEPT ![w] = {}]
  /\ seen' = [seen EXCEPT ![w] = [o \in ONTs |-> 0]]
  /\ at' = [at EXCEPT ![w] = 0]

-----------------------------------------------------------------------------
(* The chassis.                                                            *)

Flip(o, p, heard) ==
  /\ May("flips", MaxFlips) /\ p # phase[o]
  /\ heard => May("traps", MaxTraps)
  /\ phase' = [phase EXCEPT ![o] = p]
  /\ been' = [been EXCEPT ![o] = @ \cup {p}]
  /\ traps' = IF heard /\ p # "ranging"
              THEN traps \cup {[ont |-> o, status |-> IF p = "online" THEN p ELSE "offline"]}
              ELSE traps
  /\ spent' = Spend("flips")
  /\ UNCHANGED <<row, events, clock, memory, watch>>

-----------------------------------------------------------------------------
(* The poller.                                                             *)

\* Mutant: what was not read is down.
determineOntStatus_DefaultsDown(o, ok, reported, lit) ==
  IF o \in reported /\ phase[o] \in Statuses THEN phase[o]
  ELSE IF o \in lit THEN "online" ELSE "offline"

\* Silence is no evidence: neither is a walk that failed, nor a phase on the way up.
determineOntStatus(o, ok, reported, lit) ==
  IF o \in reported /\ phase[o] \in Statuses THEN phase[o]
  ELSE IF o \in lit /\ (ok => o \in reported) THEN "online" ELSE "none"

\* One walk of the chassis.  lit are the ONTs whose receive power it read.
readChassis(t, ok, reported, lit) ==
  /\ pc[t] = "idle"
  /\ ok \/ reported = {}
  /\ \A o \in lit : phase[o] \in {"online", "ranging"}
  /\ IF ok /\ reported = ONTs THEN UNCHANGED spent
     ELSE May("failures", MaxFailures) /\ spent' = Spend("failures")
  /\ verdict' = [verdict EXCEPT ![t] = [o \in ONTs |-> determineOntStatus(o, ok, reported, lit)]]
  /\ pc' = [pc EXCEPT ![t] = "page"]
  /\ UNCHANGED <<chassis, row, events, clock, left, seen, at, watch>>

\* Mutant: only a changed status is taken to the history.
EachONTOfOLT_OnlyChanges(t) ==
  /\ pc[t] = "page"
  /\ left' = [left EXCEPT ![t] = {o \in ONTs : verdict[t][o] \notin {"none", row[o]}}]
  /\ verdict' = [verdict EXCEPT ![t] = [o \in ONTs |-> IF @[o] = row[o] THEN "none" ELSE @[o]]]
  /\ pc' = [pc EXCEPT ![t] = "status"]
  /\ UNCHANGED <<chassis, row, events, clock, seen, at, watch, spent>>

\* The rows whose copy differs from what was read.
EachONTOfOLT(t) ==
  /\ pc[t] = "page"
  /\ left' = [left EXCEPT ![t] = {o \in ONTs : verdict[t][o] \notin {"none", row[o]}}]
  /\ pc' = [pc EXCEPT ![t] = "status"]
  /\ UNCHANGED <<chassis, row, events, clock, verdict, seen, at, watch, spent>>

\* A failed update of the row is logged; the poller goes on to the event.
handleStatusChange(t, o, ok) ==
  /\ pc[t] = "status" /\ o \in left[t]
  /\ IF ok THEN row' = [row EXCEPT ![o] = verdict[t][o]] /\ UNCHANGED spent
     ELSE UNCHANGED row /\ May("failures", MaxFailures) /\ spent' = Spend("failures")
  /\ left' = [left EXCEPT ![t] = @ \ {o}]
  /\ UNCHANGED <<chassis, events, clock, pc, verdict, seen, at, watch>>

-----------------------------------------------------------------------------
(* The trap receiver: one trap at a time.                                  *)

worthWriting(current, reported) ==
  IF reported = "online" THEN current # "online" ELSE current = "online"

\* A trap worth nothing changes nothing; one that stays in traps comes again.
TrapArrives(m, again) ==
  /\ pc["trapd"] = "idle" /\ May("traps", MaxTraps)
  /\ again => spent.traps + 1 < MaxTraps   \* a copy the bound would never deliver
  /\ traps' = IF again THEN traps ELSE traps \ {m}
  /\ IF worthWriting(row[m.ont], m.status)
     THEN /\ pc' = [pc EXCEPT !["trapd"] = "status"]
          /\ verdict' = [verdict EXCEPT !["trapd"][m.ont] = m.status]
          /\ left' = [left EXCEPT !["trapd"] = {m.ont}]
     ELSE UNCHANGED <<pc, verdict, left>>
  /\ spent' = Spend("traps")
  /\ UNCHANGED <<phase, been, row, events, clock, seen, at, watch>>

\* Here a failed update ends the call (Fails).
ApplyTrap(o) ==
  /\ pc["trapd"] = "status" /\ o \in left["trapd"]
  /\ row' = [row EXCEPT ![o] = verdict["trapd"][o]]
  /\ left' = [left EXCEPT !["trapd"] = {}]
  /\ UNCHANGED <<chassis, events, clock, pc, verdict, seen, at, watch, spent>>

-----------------------------------------------------------------------------
(* LogStatusChanges: read the latest, close it, open the next.             *)

latestEventPerONT(w) ==
  /\ pc[w] = "status" /\ left[w] = {}
  /\ LET n == [o \in ONTs |-> Len(events[o])]
     IN IF NewsAsOf(w, n) = {} THEN Return(w)
        ELSE /\ seen' = [seen EXCEPT ![w] = n]
             /\ pc' = [pc EXCEPT ![w] = "now"]
             /\ UNCHANGED <<verdict, left, at>>
  /\ UNCHANGED <<chassis, row, events, clock, watch, spent>>

Now(w) ==
  /\ pc[w] = "now"
  /\ \E pause \in 1..MaxPause : clock' = clock + pause
  /\ at' = [at EXCEPT ![w] = clock']
  /\ left' = [left EXCEPT ![w] = {o \in Opened(w) : seen[w][o] > 0}]
  /\ pc' = [pc EXCEPT ![w] = "log"]
  /\ UNCHANGED <<chassis, row, events, verdict, seen, watch, spent>>

\* Mutant: the previous event is left running.
closeEvent_Skipped(w, o) ==
  /\ pc[w] = "log" /\ o \in left[w]
  /\ left' = [left EXCEPT ![w] = @ \ {o}]
  /\ UNCHANGED <<chassis, row, events, clock, pc, verdict, seen, at, watch, spent>>

closeEvent(w, o) ==
  /\ pc[w] = "log" /\ o \in left[w]
  /\ LET last == Newest(o, seen[w][o])  e == events[o][last]
     IN events' = [events EXCEPT ![o][last] =
                     [e EXCEPT !.lasted = Whole(at[w] - e.time), !.raced = e.raced \/ Raced(w, o)]]
  /\ left' = [left EXCEPT ![w] = @ \ {o}]
  /\ UNCHANGED <<chassis, row, clock, pc, verdict, seen, at, watch, spent>>

\* CreateInBatches: the whole page's events at once.
OpenEvents(w) ==
  /\ pc[w] = "log" /\ left[w] = {}
  /\ events' = [o \in ONTs |-> IF o \in Opened(w) THEN Append(events[o], Event(w, o)) ELSE events[o]]
  /\ Return(w)
  /\ UNCHANGED <<chassis, row, clock, watch, spent>>

\* A statement's error ends the call where it is, as a crash of the process does.
Fails(w) ==
  /\ pc[w] # "idle" /\ May("failures", MaxFailures)
  /\ Return(w)
  /\ spent' = Spend("failures")
  /\ UNCHANGED <<chassis, row, events, clock, watch>>

-----------------------------------------------------------------------------
(* The watch: a window inside the request, then a longer one behind it.    *)

settleONUStatus(o) ==
  /\ watch[o] = NoWatch /\ May("watches", MaxWatches)
  /\ watch' = [watch EXCEPT ![o].windows = 2]
  /\ spent' = Spend("watches")
  /\ UNCHANGED <<chassis, row, events, clock, memory>>

\* Online settles the wait; another state is kept, and watched on.
Look(o) ==
  /\ watch[o].windows > 0 /\ watch[o].kept # "online" /\ phase[o] \in Statuses /\ phase[o] # watch[o].kept
  /\ watch' = [watch EXCEPT ![o].kept = phase[o]]
  /\ UNCHANGED <<chassis, row, events, clock, memory, spent>>

\* Online at once, the rest at the deadline; nothing seen leaves the row alone.
storeSettledONUStatus(o) ==
  /\ watch[o].windows > 0
  /\ row' = IF watch[o].kept = "none" THEN row ELSE [row EXCEPT ![o] = watch[o].kept]
  /\ watch' = [watch EXCEPT ![o] =
                 IF @.kept = "online" THEN NoWatch ELSE [NoWatch EXCEPT !.windows = watch[o].windows - 1]]
  /\ UNCHANGED <<chassis, events, clock, memory, spent>>

\* The chassis does not answer, or the API dies with the watch.
WatchFails(o) ==
  /\ watch[o] # NoWatch /\ May("failures", MaxFailures)
  /\ watch' = [watch EXCEPT ![o] = NoWatch]
  /\ spent' = Spend("failures")
  /\ UNCHANGED <<chassis, row, events, clock, memory>>

-----------------------------------------------------------------------------
Log(w) == latestEventPerONT(w) \/ Now(w) \/ OpenEvents(w) \/ \E o \in ONTs : closeEvent(w, o)

Cycle(t) ==
  \/ \E ok \in BOOLEAN, reported \in SUBSET ONTs :
       \E lit \in (IF t = "metrics" THEN SUBSET ONTs ELSE {{}}) : readChassis(t, ok, reported, lit)
  \/ EachONTOfOLT(t)
  \/ \E o \in ONTs, ok \in BOOLEAN : handleStatusChange(t, o, ok)
  \/ Log(t)

Trapd == Log("trapd") \/ \E o \in ONTs : ApplyTrap(o)

Next ==
  \/ \E o \in ONTs, p \in Phases, heard \in BOOLEAN : Flip(o, p, heard)
  \/ \E t \in Tiers : Cycle(t)
  \/ \E m \in traps, again \in BOOLEAN : TrapArrives(m, again)
  \/ Trapd
  \/ \E w \in Writers : Fails(w)
  \/ \E o \in ONTs : settleONUStatus(o) \/ Look(o) \/ storeSettledONUStatus(o) \/ WatchFails(o)

Spec == Init /\ [][Next]_vars

\* The queue runs each tier again and again, and what runs gets somewhere.
FairSpec ==
  /\ Spec
  /\ \A t \in Tiers : WF_vars(Cycle(t))
  /\ WF_vars(Trapd)
  /\ \A o \in ONTs : WF_vars(storeSettledONUStatus(o))

-----------------------------------------------------------------------------
(* CalculateAvailability of o from s to e.                                 *)

InRange(o, s, e) == {i \in 1..Len(events[o]) : s <= events[o][i].time /\ events[o][i].time <= e}
First(o, E) == CHOOSE i \in E : \A j \in E : events[o][i].time <= events[o][j].time

\* Mutant: what its row says, if it says something.
Lasts_Stored(o, E, i, e) ==
  IF events[o][i].lasted = Running THEN Whole(e - events[o][i].time) ELSE events[o][i].lasted

\* An event runs until the next one of the window, the last until its end.
End(o, E, i, e) ==
  Min({e} \cup {events[o][j].time : j \in {k \in E : events[o][k].time > events[o][i].time}})
Lasts(o, E, i, e) == Whole(End(o, E, i, e) - events[o][i].time)

Seconds(o, s, e, kind) ==
  LET E == InRange(o, s, e)
      first == events[o][First(o, E)]
  IN IF E = {} THEN IF Kind(row[o]) = kind THEN Whole(e - s) ELSE 0
     ELSE MapThenSumSet(LAMBDA i : Lasts(o, E, i, e), {i \in E : events[o][i].type = kind})
          + (IF first.type = kind THEN Whole(first.time - s) ELSE 0)

-----------------------------------------------------------------------------
(* Properties.                                                             *)

EventRow == [type : {"online", "offline"}, time : 1..clock, lasted : Int, raced : BOOLEAN]

\* Every status is one the model knows, and a writer's calls keep to their order.
TypeOK ==
  /\ phase \in [ONTs -> Phases] /\ been \in [ONTs -> SUBSET Phases]
  /\ traps \subseteq [ont : ONTs, status : {"online", "offline"}]
  /\ row \in [ONTs -> Statuses]
  /\ clock \in Nat /\ events \in [ONTs -> Seq(EventRow)]
  /\ pc \in [Writers -> {"idle", "page", "status", "now", "log"}]
  /\ verdict \in [Writers -> [ONTs -> Verdicts]]
  /\ left \in [Writers -> SUBSET ONTs] /\ seen \in [Writers -> [ONTs -> Nat]] /\ at \in [Writers -> 0..clock]
  /\ watch \in [ONTs -> [windows : 0..2, kept : Verdicts]]
  /\ \A w \in Writers, o \in ONTs : seen[w][o] <= Len(events[o])

\* No outage is made up: a row says down only of an ONU that has been down, in
\* that way or (from a trap) in some way, and so does the history.  A walk that
\* fails, or names an ONU no more, takes nobody offline (ont_poll.go:92).
OutagesHappened ==
  \A o \in ONTs :
    /\ row[o] \in been[o] \cup (IF been[o] \cap Down # {} THEN {"offline"} ELSE {})
    /\ \A i \in 1..Len(events[o]) : events[o][i].type = "offline" => been[o] \cap Down # {}

\* The stretches of an ONT's history meet: where no two calls overlapped, an
\* event's duration is the whole seconds to the next event, of the other kind.
\* The outage figures of pon_health.go and ont_trouble.go are sums of these
\* durations.
DurationsMeet ==
  \A o \in ONTs : \A i, j \in 1..Len(events[o]) :
    /\ events[o][i].time < events[o][j].time
    /\ \A k \in 1..Len(events[o]) :
         events[o][k].time <= events[o][i].time \/ events[o][k].time >= events[o][j].time
    /\ ~events[o][i].raced /\ ~events[o][j].raced
    => /\ events[o][i].lasted = Whole(events[o][j].time - events[o][i].time)
       /\ events[o][i].type # events[o][j].type

\* However calls raced, CalculateAvailability places every second of the window
\* once: OnlineSeconds and OfflineSeconds never make more than TotalSeconds, and
\* less by at most one for each event, where a stretch was cut to whole seconds.
\* The window may end after the last time handed out, as one that ends now does.
AvailabilityAddsUp ==
  \A o \in ONTs : \A s, e \in 0..(clock + Second) : s < e =>
    LET counted == Seconds(o, s, e, "online") + Seconds(o, s, e, "offline")
        lost == Whole(e - s) - counted
    IN 0 <= lost /\ lost <= Cardinality(InRange(o, s, e))

\* Whatever traps, watches, races and failures did to them, once the chassis
\* holds still the poller brings each row and each history to what it says.
ComesRight ==
  <>[](\A o \in ONTs : phase[o] \in Statuses =>
         row[o] = phase[o] /\ events[o] # <<>> /\ Latest(o).type = Kind(phase[o]))
=============================================================================
