# TikMan in TLA+

TikMan runs a fibre ISP: it provisions and monitors ONUs behind GPON OLTs, watches MikroTik routers
and their traffic, keeps the site VPN, and gives the customer-service (CS) team one shared WhatsApp
inbox. The backend is Go (`src/backend`), several processes over one PostgreSQL/TimescaleDB and one
Redis. This directory models the parts of it where several processes, requests or messages meet,
checks them with TLC and proves the central safety claims of each with TLAPS.

Paths below are relative to `src/backend`; `services/` is `internal/services/`, `wa/` is
`internal/wa/`, `api/` is `internal/api/`.

## 1. Inventory

The processes: **api** (HTTP; runs provisioning jobs in the request, owns the VPN device),
**worker** (several; polls OLTs and routers), **wa** (one; all WhatsApp sessions), **trapd** (SNMP
traps), **flowd** (IPFIX), the **frontend**. They share the database, and Redis for announcements
and control messages, which are not durable: everything announced is also found by a ticker.

| Part | State | Operations | Works with | What is hard | What makes it correct |
|---|---|---|---|---|---|
| OLT poll queue | `olt_poll_jobs`; a worker's copy of the claimed row | EnsureJobs, Claim, Complete, Fail, Defer, RunNow | workers, `POST /olts/:id/discover-now`, deletion of an OLT | claims by lease with no fence, several workers, crashes, deletion under a run | a job is with one worker at a time; a settlement is of one's own claim; requested runs happen; no tier starves |
| Router poll queue | `router_poll_jobs` | the same; RunNow unconditional | workers, router API | the same, and a refresh asked for during a run | the same |
| ONT status and events | `onts.status`, `ont_events` | poll cycle, trap, watch after provisioning | poll queue, trapd, provisioning | three writers, read-then-write | one open event per ONT; the newest evidence wins |
| Discovery and pruning | `olts.discovery_*`, in-process SNMP locks, `onts` | claim, walk, instalments, prune | poll queue, API, provisioning | a claim kept alive by unfenced progress; partial walks | one discovery per chassis; what is registered is not pruned |
| ZTE provisioning | `onts`, `provisioning_jobs`, the chassis | register, configure, provision, delete, with or without removal from the OLT | discovery, the chassis over Telnet/SSH | ids raced for, refusals half way, lost answers, crashes | one writer per ONT; a rollback removes only its own ONU; a failure leaves nothing |
| CS outbox and receipts | `cs_messages` (out and in), drainers, WhatsApp | Queue, drain, MarkSent/Failed, acknowledge, receipts | threads, sessions | at-least-once, overlapping drains, receipts in any order, crashes | order, no unexplained duplicate, truthful ticks, every reply settled |
| CS thread and waits | `cs_conversations`, `cs_waits` | arrival, reply, phone reply, assign, close | outbox, sessions | handlers in several transactions, late and repeated deliveries | one answerer; whoever waits has an open wait, and an open wait is somebody's |
| WhatsApp sessions | sessions map, per-number signals, device store | sync, ensure, restart, pair, reconnect, log out | outbox, API control messages | stale signals, restart against sync, fire-and-forget control | a paired number comes back; a deleted one does not |
| Broadcasts, groups | their outboxes | drain loops like the CS outbox | sessions | as the CS outbox | as the CS outbox |
| WireGuard VPN | `wireguard_servers/peers`, the kernel device, `reconcilePending` | create, update, delete, reconcile | API, wgstat, worker gate | database and device change apart; rollbacks from copies | the device follows the database |
| MikroTik monitoring | `routers`, interfaces, rates, BGP | poll, silence | router queue | counter resets | rates from adjacent samples |
| Flow collection | minute and top-IP tables, a pending batch | aggregate, write, retry once | flowd | a timed-out commit | bytes counted once |
| Worker alert, push | heartbeat row, alert state in memory | beat, check | workers, push service | restarts | admins learn of a stopped poller |
| CS purge, media retention | messages, files | purge, clear | threads | a message stored meanwhile | the summary matches what is left |
| Auth, rate limits | Redis sessions | log in, refresh | api | — | — |
| Migrations | `schema_migrations` | run once per start | all | a crash between statements | a restart completes them |
| Drivers | connections | SNMP walks, Telnet/SSH batches | chassis | desynchronised prompts, lost answers | an answer belongs to its command |
| Mapping, settings, templates, users, audit, dashboards, CS performance, frontend | rows | edits and queries | api | — | — |

`PROJECT.json` lists every part with its sources, and under `hazards` each place where the code is
exposed to something tests hardly reach, with the property that guards it or why none does yet.

## 2. Plan

Done, most important behaviour first:

1. **PollQueue**, with **ExclusiveWork**, what the queue promises, and **PollQueueProofs**.
2. **CsOutbox** and **CsOutboxProofs**: from the CS's "send" to the ticks.
3. **CsThread** and **CsThreadProofs**: who answers, and how long customers wait.
4. **ZteProvisioning** and **ZteProvisioningProofs**: what registers, configures and removes an ONU.
5. **OntStatus** and **OntStatusProofs**: who is up, and the history availability is computed from.
6. **Discovery** and **DiscoveryProofs**: the claim, the pruning and the registration of what a
   chassis holds.
7. **WaSession** and **WaSessionProofs**: the sessions behind CsOutbox's drainers, from pairing to logout.
8. **WireGuard** and **WireGuardProofs**: rows as the desired state, the kernel as the actual one.

What a continuation would take first:

- **RouterPoll**: PollQueue with the unconditional RunNow of `router_poll_jobs.go`; its lease
  promises follow by the argument of PollQueueProofs.
- **Discovery composed with ZteProvisioning**: the two share `onts` and the chassis; each now has
  the other as an environment (`Attach` there, `Walk` and `BulkRegister` here).
- The broadcast and group outboxes, flow aggregation, the MikroTik counters.

## 3. Modules

Each module's header names its files; `PROJECT.json` `map` gives the lines of each definition.
Definitions keep the code's names. A definition named `X_Something` with the comment "Mutant" is a
plausible bug of `X`; nothing uses it, it is there to be put in the place of `X`, and the property
it is listed with must then fail.

### PollQueue (`services/poll_job_service.go`, `cmd/worker/jobs.go`)

State: the table `jobs` (a function from the rows that exist), where each worker is in `runNextJob`
with its copy of the row, and the RunNow requests between their read and their update. One action
per statement that reaches the database. `Claim` is one step: the code selects with
`FOR UPDATE SKIP LOCKED` and updates in one transaction. An OLT's deletion removes its rows by
cascade, under a running worker too. A worker may die at any place.

Time is relative. The code stores absolute timestamps but only ever uses their difference from now,
so `due` is `due_at - now` and `lockedFor` the age of the lock; `Elapse` moves all by one tick. Of
overdue rows the claim uses only the order, so `Sooner` keeps the order and forgets the distance.
This keeps the state space finite with no horizon on time. The failure count stops where the
backoff has stopped growing (`FailureCap`).

`held` and `MaxRun` say how long a run lasts. Nothing in the code enforces that a run ends inside
its lease; the lease constants are sized so that it should. What follows when it does is
`poll_queue_lease` and the theorems; what happens when it does not is told in section 4.

**ExclusiveWork** is the promise without table, clock and leases: `Take` only when the job is with
nobody, `GiveBack` only by the one who has it. Discovery's claim is the same promise about one
chassis, and its heartbeat another way to keep it.

### CsOutbox (`wa/outbound.go`, `wa/receipts.go`, `services/cs_message_service.go`, `cmd/wa/sessions.go`)

`replies` are the outbound rows in order of `created_at`, `inbound[t]` the customer's messages in a
thread. A reply is stamped and inserted by `Queue` and visible after `EndQueue`, its commit, so
rows may appear in another order than the one they are sent in; `after` remembers which replies of
the thread were there when it was written. A drainer belongs to one session of one number; its place says what it did last:

    idle -> first -> accepted -> sent -> acking -> acked -> next -> ... -> idle
                  \-> refused ---------------------------^

A batch is the set of claimed rows it has not settled yet; they are worked through oldest first
(`Current`). `first` and `next` differ because the code looks at its context between two sends, not before the
first. A dropped session is told to stop and not waited for, so two drainers of one number can be
at work. WhatsApp (`copies`, `answered`, `told`) is external: it accepts, refuses, or accepts and
the answer is lost; it delivers receipts in any order. A receipt is applied in two statements, read
and update. `lost` remembers the copies whose `MarkSent` never happened.

### CsThread (`services/cs_conversation_service.go`, `cs_wait.go`, `wa/inbound.go`, `inbound_phone.go`, `api/cs_handler_messages.go`)

One thread. `handler` is the event the session is working on: `FindOrCreate` (with `Reopen` as a
second statement), then the transaction that stores it. A transaction is one step from the moment it
has the thread's row; what comes before is a step of its own. A customer's message is `Insert`ed,
which stamps `created_at`, and `SaveInbound` is what follows once the thread's row is locked
(`Storing` is the state between). A reply is `HoldForReply`, `Stamp` (the time is taken before the
transaction), `Queue`. A phone message that is the newest (`IsNewest`) locks the thread's row too:
`SaveFromPhone`. One that is late locks no thread: `PhoneIsLate`, `EndWaitLate` (it has the row of
the open wait), `SaveLate` (its commit). A reply or a close that comes between the last two has the
thread's row and waits for the wait's: `Block`. Who else needs the thread waits for it in turn
(`ThreadFree`). After the commit its update re-checks the one row it waited for, as PostgreSQL does
at READ COMMITTED, finds it ended and commits without ending the wait that `reopenAfter` opened:
`Miss`; had the phone's bookkeeping been rolled back, it is an ordinary `Queue` or `Close`.

Wait bookkeeping runs under a savepoint and may fail alone (`ok`). The functions of `cs_wait.go` are
operators that give the new `<<wait, ended>>`. One clock serves the customer, the phone and the servers. `Stray` hands a customer's
message over before an earlier one; it counts as a trouble, like a failed handler or failed
bookkeeping, and the figures are claimed only of runs without one (`Undisturbed`): the code says
that it prefers a wrong figure to a lost message. The phone's messages, and repetitions, come
whenever they like in every run.

`unanswered` is the specification's own account of who waits, kept from the arrivals and answers
alone, against which the waits are checked; `missed` says that a reply or close has not found the
open wait, until the wait ends or the customer writes again; `crossed` marks a wait that was ended
while a customer's message had its time and was not stored yet. `moved` marks answers whose thread
was handed over.

### ZteProvisioning (`services/zte_gpon_register_*.go`, `job_service.go`, `ont_provisioning_service.go`, `rollback_engine.go`, `zte_onu_removal.go`, `api/ont_handler_write.go`)

One PON port. A request holds a copy of its `onts` row and goes through

    loaded -> created -> running -> registered -> written -> verified -> succeeded
                     \-> refused        \-> failing -> forgetting -> undoing -> failed

A registration reserves a row first; a configuration or a provisioning starts from an existing one;
a deletion may first clear the ONU from the chassis. The checks before writes are one step with the
write where a unique index arbitrates the race (positions and serials of `onts`, running jobs).
`provisioning_jobs` go with their ONT by cascade. The chassis is external: it refuses a taken id
and a serial it has; its answer can be lost after it acted. `Walk` and `BulkRegister` are the
worker's discovery, with arbitrary time between reading the chassis and storing the row. `taken`
remembers ids that an operator cleared, `astray` requests whose answer was lost or that died with
the process.

Reserving takes any free id although the code takes the lowest one: an operator may name another,
and ids the OLT reports as used are skipped.

### OntStatus (`cmd/worker/olt_cycle.go`, `olt_poll.go`, `ont_poll.go`, `cmd/trapd/apply.go`, `services/event_status_batch.go`, `event_service.go`, `ont_status_after_provision.go`)

The row of each ONT, its events, and everybody who writes them: a tier of the poller (walk, page,
status, history), the trap receiver (row, then history) and the watch after a provisioning (row
only). Every statement is a step. `LogStatusChanges` reads the latest events (`seen`), takes its
time (`at`) and then closes and opens in the database, so two writers may both open an event;
`raced` marks events of calls that overlapped. `phase` is what the ONU is, `been` what it has ever
been: the evidence the properties compare with. `ranging` stands for every phase the drivers map to
unknown. Time is counted in ticks, `Second` of them to a second, and `Whole` is `int64(d.Seconds())`:
`closeEvent` stores the whole seconds a state has lasted (`lasted`, `duration_seconds`), and `Seconds`,
which is `CalculateAvailability`, cuts the total, every stretch and the time before the first event
each for itself, as `event_service.go:88,107,152` do. What the cuts cost is in `AvailabilityAddsUp`:
online and offline never make more than the total, and fall short of it by at most one second for
each event. A length is never negative here, so it does not matter that int64 cuts towards zero.

### Discovery (`services/olt_service_discovery.go`, `ont_service_discovery.go`, `ont_service_sync.go`, `ont_service.go`, `ont_service_crud.go`, `cmd/worker/olt_cycle.go`, `main.go`)

A worker's job walks the chassis, prunes, registers, and then claims the OLT for the second walk;
the API's run for a new OLT claims at once. The claim is the OLT row's phase and heartbeat; whoever
finds the heartbeat `Stale` takes over. `quiet` is how long a run has gone without progress. Rows
carry their age, because pruning spares rows younger than `Grace`, and `own` says whether the row
was made for the ONU's present stay. ONUs come, go, move and are replaced; `Attach` is a
registration by provisioning, which reserves the row before the ONU is on the chassis.

A walk that reports no error need not be whole. The status table skips what it cannot read, so any
part of the places may be missing (`missed` keeps which), all of them included, and the inventory may
not give an ONU's serial (`Blank`). The second walk reads the places first, adds those only the
optical tables name, and reads each serial when its instalment comes.

Registering an ONU is two steps, as in the code: a look at the rows (`Refused`, for checkUnclaimed
and the look by position before it) and the INSERT (`Insert`), which the unique indexes on the place
and on a serial that is not blank may refuse. `Reserve` is one step because RegisterAndConfigure looks nothing
up: it inserts, and the indexes decide.

`MaxQuiet`, `MaxWalk` and `MaxAttach` are assumptions about durations: the code does not enforce
them, its constants are chosen for them (`QuietWithinClaim`, `WalksWithinGrace`).

`ImplementsExclusiveWork` maps who is between claim and release of the second walk (`Holding`) to the
holders of ExclusiveWork, with the chassis as its one item.

### WaSession (`cmd/wa/sessions.go`, `main.go`, `wa/client.go`, `supervisor.go`, `pairing.go`, `device.go`, `api/cs_handler_wa.go`, `cs_handler_purge.go`)

The account row, whatsmeow's devices, the session map and the goroutines of a session. `rescan` is a
sync that works through the list of rows it read; `control` the messages Redis carries, lost when
nobody subscribes; `working` the one the control loop executes, in its steps; `admin`
the click the API serves, which writes the row and then publishes. The supervisor waits for a drop
or for a signal of its one-slot channels (`dropped`, `paired`, `loggedOut`). Events raised by a client that was dropped meanwhile are handled late (`live`). The
phone, WhatsApp and whatsmeow's store are external. One account is enough: sessions share nothing
but the process, whose death and start are here.

### WireGuard (`services/wireguard_service.go`, `wireguard_peers.go`, `wireguard_validate.go`, `wireguard_refresher.go`, `connectivity/wireguard_device_linux.go`, `cmd/api/main.go`)

A request checks and writes its row, then reconciles: under the service's mutex it reads all rows,
applies them to the kernel, and on a refusal undoes its own row from the copy it holds (`before`)
and reconciles once more (`recover`). Validation and write are two steps, so two requests may
validate against the same rows; `raced` records that requests overlapped, `missed` that a reconcile
failed before it reached the kernel. `SaveServer`'s handler is EnsureServer followed by
UpdateServer, two calls here. A subnet is one value: overlap is equality. The device does not copy
what it is given: an allowed IP belongs to one peer, and of two enabled rows with the same subnet the
one that comes later in the list keeps it (`Configured`). The list goes by name, which any edit may
change, so the order is any (`Listings`). `Carries` says what an interface in step with the rows is
without referring to this: port, enabled keys and routes are those of the rows, a peer is let through
with its own subnets only, and each claimed subnet is exactly one claimant's.

### MC modules

`MCPollQueue`, `MCCsOutbox`, `MCCsThread`, `MCZteProvisioning`, `MCOntStatus`, `MCDiscovery`,
`MCWaSession` and `MCWireGuard` give constants their small values and define the symmetry sets.

## 4. Runs

| Run | Question | Instance | Result |
|---|---|---|---|
| `poll_queue_lease` | Do leases alone give exclusive, current and kept claims, and implement ExclusiveWork? | 2 workers, 2 tiers of 1 OLT, 1 request, runs shorter than leases | holds |
| `poll_queue_service` | Is every tier served again and again? | 1 worker that may die, 2 OLTs, 1 request | holds |
| `cs_outbox_delivery` | Order, duplicates, ticks, acknowledgements | 2 numbers, 2 threads, 2 replies, 2 inbound messages, 1 crash or failed update | holds |
| `cs_outbox_settled` | Is every reply sent or failed in the end? | 2 successive sessions of 1 number, 2 replies, 1 crash or failed update | holds |
| `cs_thread_inbox` | Can two first replies both go out? Do waits match who is unanswered, the inbox the waits, and each wait the one before? | 2 CS, 3 messages in any mix, 2 replies, closes, 1 redelivery or trouble | holds |
| `cs_thread_hidden` | Can a customer wait in a closed thread? | 1 message, 1 close | violated |
| `zte_provisioning_jobs` | One writer, safe rollbacks, clean failures | 3 requests of any kind, 2 ids, 2 serials, 3 rows, lost answers, a crash | holds |
| `zte_provisioning_forget` | Does a row go only when it should? | 2 requests, 1 id | violated |
| `ont_status_races` | Is an outage ever made up, do the stored durations meet, does availability place every second once, does everything come right? | 1 ONT, 1 tier, trap receiver and watch; 2 changes of phase, 1 trap, 1 failure; half a second from stamp to stamp | holds |
| `discovery_inventory` | One discovery at a time, nobody pruned who stayed and was named, one row per serial? Does the claim implement ExclusiveWork, discovery go on after runs that died, do rows follow the chassis? | 2 places, 2 serials, 1 worker and the API's run, 2 changes, 1 failure | holds |
| `wa_session_life` | Is only a dead session dropped, and no drop or logout forgotten? Does a link come back, a deletion let go, a logout make room, a pairing get its answer? | 1 number, 2 devices, 2 requests, 2 troubles | holds |
| `wireguard_drift` | Does the kernel follow the rows, stay a revoked key revoked, stay subnets apart? | 2 peers, 2 subnets, 2 admins, 2 requests on any populated start, 1 trouble | holds |

**Bounds.** Two of each actor make every pairwise race. In the outbox two replies are enough for
overtaking within a thread and across threads, and a mishap in the first makes the second see what
is left; two inbound messages let one arrive between the read and the record of the acknowledgement.
`MaxReceipts` is no bound in `cs_outbox_delivery` (two copies at most of two replies have eight
receipts) and lets `cs_outbox_settled` have one, which is all a reply needs to move on by itself.
`MaxMishaps = 1` allows one crash or database error at every place; a second only repeats what the
first shows, since a crash resets every drainer. In CsThread three messages are what it takes to
have one before, one at and one after a late phone reply; `MaxTime` lets a message be older than the
silence rule allows, and a wait end after the stamp of the message that starts the next. Two
replies are two CS who race, or one who answers before and after a message. Redeliveries and
troubles share one bound (`Spare`), since the figures are claimed only where there is no trouble.
On the port, three requests let two fail or race while the third takes the freed id;
the table starts with every possible set of subscribers. OntStatus has two changes of phase so that
an outage begins and ends while the three kinds of writer are at work; a second tier does not finish
in reasonable time, and the theorems about outages and history cover any number. `Second = 2` makes
stamps half a second apart (`MaxPause`), so that every stretch may be cut, the total too, or none. In
Discovery two changes are what a move or a replacement takes (leave, and come elsewhere; leave, and
another one comes); `Stale = 2` and `Grace = 3` are the smallest for which runs shorter than both
still overlap ticks, and the one failure may be any kind at any place: a walk that is not whole, a
serial not read, a driver not found, a death. In WaSession two
requests and two troubles let a deletion or a re-pairing meet a drop or a logout under way; a second
device is one that a phone linked after the first. WireGuard starts from every set of rows requests
could have left, so that two requests reach what longer histories would; one trouble lasts, if it
likes, through the undoing it causes.

**Symmetry.** `cs_thread_inbox` permutes the CS (`Symmetry`), `cs_outbox_delivery` swaps the two numbers
together with their threads (`Swap`), `zte_provisioning_jobs` permutes requests, serials, ids and
rows. None of the specifications orders these values. Runs with liveness properties use none.

**Deadlock.** PollQueue, OntStatus, Discovery and WaSession are checked for deadlock. The others may
stop: their operators, customers and requests are bounded and may have nothing left to do, so their
configurations say `CHECK_DEADLOCK FALSE`.

**Types.** Each of the eight type invariants is proved for all values of the constants
(`TypeCorrect`), so only PollQueue's, which also says that no row outlives its OLT, is an invariant
of a run. The other seven hold on the instances above as well; add `TypeOK` under `INVARIANTS` to
see it.

**Fairness.**

- PollQueue: a worker that can go on does (every network call has a timeout), the passes of its loop
  begin with EnsureJobs, time moves on; and no tick passes while an idle worker has a row to claim,
  because workers look every 5 seconds and the shortest duration is a minute. `EveryJobIsServed`
  leaves out a tier that operators bring forward for ever: RunNow sets an overdue row's `due_at` to
  now, which moves it to the back of the queue.
- CsOutbox: the drainer of a running session goes on (the ticker starts drains, a send answers or
  times out), and failed updates are bounded.
- OntStatus: each tier's cycle, the trap receiver and the watch go on; flips, traps and failures are
  bounded.
- Discovery: time moves, a worker's jobs recur, the API's run and a registration under way go on.
- WaSession: the process starts, its loops and goroutines go on, WhatsApp answers what it was asked
  (authentication, the end of a pairing code). Nothing is assumed of admins and phones.
- WireGuard: the process starts, a request under way goes on, the ticker's ReconcileIfPending runs.

Nothing is assumed of operators, deletions, crashes or stopped sessions anywhere.

### What the violated runs say about the code

- `cs_thread_hidden`: the thread is reopened in one transaction, the message stored in a later one,
  after the media download. A close in between leaves an open wait in a closed thread.
- `zte_provisioning_forget`: `executeJob` deletes the ONT's row when its job may not run. For
  `ConfigureExisting` that is a row it did not create: the loser of two concurrent configurations
  deletes the subscriber.

### Seen while modelling, without a run

Each was met while reading or with TLC on a variation of the models; none has a run of its own. The
ones marked (TLC) are statements of a comment or a document that TLC refutes on the models as they
are here, when the quoted sentence is made a property of small instances.

Poll queue and chassis:

- Complete, Fail and Defer name the row and not the claim (`poll_job_service.go:239`): a run that
  outlived its lease frees the lock of the worker that has since claimed it, and a third worker
  enters a job that is being run under a live lease (`:74`, `:138` say a lease keeps others out).
- The claim is per (OLT, tier) (`poll_job_service.go:168`); a comment (`:142`) and migration 32
  promise one worker per chassis. The SNMP lock that would give it is per process.
- RunNow postpones a row that is already overdue (see fairness above). The router's RunNow brings
  `due_at` forward whether or not the poll runs; the running poll's Complete then overwrites it.
- Over SSH a batch does not stop at the first refused line, over Telnet it does.

CS inbox:

- (TLC) `Queue` takes `created_at` before its transaction commits, and the drain takes what has
  committed (`cs_message_service.go:205`). Of two CS who reply in one thread at the same moment the
  first to write may be the last to commit; a drain in between sends the replies the other way round,
  while `:187` promises the order "the CS wrote" them. What holds, and is proved, is `InOrder`: nobody
  overtakes a reply that was committed when his own was written.
- (TLC) `markAnsweredFromPhone` matches no row when the phone's message is late, so its transaction
  does not hold the thread. It ends the open wait and opens one for the messages sent after the
  reply; a CS's reply or close that meanwhile waits in `endOpenWait` for the old wait's row
  (`cs_wait.go:72`) finds it ended and ends nothing, in a thread it has answered. `cs_wait.go:68`
  calls two enders safe, and `cs_wait_postgres_test.go:17` says "a thread we answered last has none";
  the test runs a message against a reply, which both lock the thread. The wait lasts until the next
  answer, and its time is charged to whoever gives that. What holds, and is proved, is that nothing
  else leaves a wait open behind an answer (`missed`).
- With two overlapping sessions of one number (a restart does not wait for the old drainer) both
  can work through the same rows: with `Generations = 2` the properties of duplicates and ticks
  fail, which is why their theorems have a hypothesis. Order and acknowledgements survive.
- `acknowledgeRead` takes everything that waits when the reply leaves (`outbound.go:139`), also what
  the customer wrote after the CS had hit send; `:123` says the ticks turn blue for what was answered.
- A receipt handled before `MarkSent` has stored the message id finds no row and is dropped: such a
  reply stays a tick behind until a later receipt, if there is one.
- FindOrCreate decides to reopen by the copy it read; a CS who took the thread in between is
  released again. An event delivered twice reopens a closed thread although the message is stored.
- A customer's message that arrives late moves `last_message_at` back.
- A reply is queued although the thread was taken over after its holder check.
- A send whose answer is lost is marked failed although the customer has it. Wait bookkeeping that
  fails under its savepoint leaves a wrong figure until the next message or reply.
- The purge reads a thread's last message and then writes its summary over one stored in between.

Provisioning, discovery and status:

- (TLC) A walk skips entries it cannot read without an error, and pruning refuses only an empty one
  (`ont_service_sync.go:31`). A walk that leaves one ONU out deletes its row, metrics and events,
  although the documents demand that an incomplete read prunes nobody
  (`docs/superpowers/specs/2026-08-30-polling-engine-scale-design.md:153`). What holds, and is proved,
  is that a walk deletes only what it did not name: rows of ONUs that were named, or came too recently
  to be, stay.
- (TLC) Pruning compares port and ONU number without the card (`ont_service_sync.go:36-50`). An ONU on
  one card keeps the row of one that left another, against `:22` and `ont_service.go:203`.
- (TLC) `discoveryUpdates` never learns a serial (`ont_service_discovery.go:126`). A row made without
  one, or at whose place the ONU was replaced, disagrees with the OLT for ever, while `:118` takes an
  empty map for agreement.
- An operator who clears an id while the registration at that id still runs makes the rollback by id
  reach whoever is there later; `RollbackRemovesOwn` leaves exactly these ids out (`taken`).
- After a crash a job stays `running` and refuses every later job of its ONT.
- An ONU that comes to a place while another row still holds its serial gets no row
  (`ont_service_discovery.go:82-87` logs it). When that row belongs to an ONU that was replaced where
  it stood, it is never pruned, and the newcomer is kept out for good.
- An error of DriverFor after the claim leaves the phase "discovering" until the claim is stale. A run that
  was taken over refreshes and ends its successor's claim.
- Two overlapping `LogStatusChanges` leave an open event that `pon_health.go` and `ont_trouble.go`
  count for ever; `ont_poll.go:123-127` calls it idempotent. Availability counts the time before a
  first `online` event as online (`event_service.go:109-116`, against the comment at `:104`).

Sessions and VPN:

- (TLC) A reconcile that fails before it reaches the kernel does not set `reconcilePending`, and a
  deleted key is accepted until the next change or restart, while `wireguard_service.go:217` says only
  a refused Apply can leave such a thing. What holds, and is proved, is that nothing else does
  (`missed`).
- (TLC) Validation and write of a peer are two statements with nothing in between them to keep others
  out. Two requests store one subnet twice; the kernel gives it to one peer, and the other site is
  cut off without an error. What holds, and is proved, is that requests one at a time keep subnets
  apart (`raced`), and that a subnet claimed twice is nevertheless exactly one claimant's.
- (TLC) UpdatePeer's Save inserts a peer that was deleted after it was read, key included, and its own
  reconcile has the kernel accept it again (`wireguard_peers.go:204`, against `:222`). restorePeer can
  do the same (`:216`). What holds, and is proved, is that no reconcile does it alone.
- A crash between the phone's pairing and the write of "connected" leaves a device no row names. A
  control message without a subscriber leaves the row "pairing" (`cs_handler_wa.go:79-96`). Two
  writers of the status (rollbackStatus, and Pair's check before its write, `pairing.go:45-56`) can
  put back one that is no longer so. A number that logged out keeps its `jid` (`client.go:281-289`).
- Two edits of one peer that overlap: the later Save carries its older copy of the other columns, and
  the earlier edit is lost. The comment at `wireguard_service.go:164` that Apply replaces all peers is
  no longer so.

Elsewhere: a flow minute whose commit timed out is inserted twice; a migration that died half way
starts over.

## 5. Theorems

**PollQueueProofs**, for any numbers of workers, requests, OLTs and tiers and any durations.
`TypeCorrect` needs no assumption beyond those on the constants. The others assume
`RunsWithinLease`: the longest run of each tier is below its lease. The properties are not inductive
by themselves. That `Claim` cannot take a row a worker is in follows from three facts that are:
the worker's row is still locked by it, its lock is as old as the worker's claim (`OwnsItsRow`), and
the claim is no older than the longest run (`OnTime`). A row that was deleted under a worker does
not come back because the OLT's id is not used again (`GoneForGood`), and a kept request is about a
row nobody is in (`Unanswered`). `LeaseInv` is their conjunction. From it follow `Exclusive`,
`NoStaleSettle`, `FailuresCurrent`, `RunNowKept`, and `Refines`: every step of the queue is a `Take`,
a `GiveBack` or a stutter of ExclusiveWork.

**ZteProvisioningProofs**, for any numbers of requests, serials, ids and rows. `Inv` joins the type
invariant to: who writes has a running job or one that is gone (`WritersRun`), a row has at most one
running job (`OneRunsPerRow`), a request that answers for an ONU finds it at its id unless an
operator cleared it (`OwnersAreRight`), a registration that undoes or has failed has no row
(`Forgotten`), and every ONU that a request put on the chassis is where the request says and
answered for, unless the request is astray (`Traceable`). `OneWriter`, `RollbackIsSafe` and
`FailureIsClean` are consequences.

**CsOutboxProofs**, for any numbers, threads, replies, mishaps and batch sizes. `TypeCorrect` comes
from `Shape`, which adds that a drainer's rows are in threads of its number. `RepliesStayInOrder`
holds for any number of overlapping sessions and of replies being written at once: what a reply
comes after is older than it, in its thread and committed (`Afters`), so whoever has a reply in its
batch has those too, or they have a copy or failed (`Order`), what was accepted has a copy (`Reached`),
and a tick comes with an id (`Stamped`), so that no tick hides a reply that never left.
`ReadsWereTold` needs only that what a drainer is about to record was told (`Told`).
`NoOtherDuplicates`, `TicksAreTrue` and `TicksOnlyClimb` assume `OneSession`: then drainers have
disjoint rows (`Apart`), a drainer's rows are queued but for the one it has marked (`Waiting`), a
queued reply's copies are lost ones unless its drainer is about to record (`Counted`), and what a
receipt's handler has read is still so when it updates (`Seen`).

**CsThreadProofs**, for any people and bounds: `FirstRepliesAreAlone`, by what a CS who is answering
knows of the holder (`Holding`), and the three statements about waits, by `Calm`: in undisturbed
runs the customer's messages are stored in the order they were sent (`Arrived`); what a message
finds when it has waited for the thread is older than its time, or ended meanwhile (`InTime`); the
open wait began with a message of the customer and everything sent after that came later, and unless
the wait was missed somebody unanswered is among them (`WaitIsFor`); and who is unanswered is so
from some message on (`Unbroken`), which is why a late phone reply leaves the newest message
waiting. `WaitsAreForSomebody` and `InboxShowsWaits` except a missed wait, which can
happen (see above); `WaitsFollowEachOther` excepts a crossed one: a reply can stamp its time after a
message has taken its own and still lock the thread first, and then the wait ends up to a
transaction's length after the start of the next. That there is an earliest and a latest message is
the well-foundedness of < on the naturals.

**OntStatusProofs**, for any ONTs, tiers and bounds: `NoOutageIsMadeUp`, because every verdict, trap
and kept state is one the ONU has been (`Evidence`).

`DurationsAlwaysMeet` rests on `History`: no two events of an ONT have the same time (`OneTimeEach`),
what a call has read is older than the time it took and nobody else has that time (`Stamped`), what
it closed ends there (`ClosedBy`), and neighbours that nobody raced already meet (`AllMeet`). Between
the statement that closes the last event and the one that opens the next, the history has a gap; it
is `ClosedBy` that carries the meeting point over.

`AvailabilityAlwaysAddsUp` is about what `CalculateAvailability` computes, whatever the history and
however many ticks a second has. The
library's sum over a finite set takes out one chosen element after the other. The prover has no
induction rule for that, so facts about every set are shown by taking a least one that contradicts
them (`Least`, `Subsets`): the sum exists (`SumExists`), it does not matter which element is taken
out (`SumTakes`), it is the same within a larger set (`SumsAgree`), it splits over parts
(`SumOfParts`), and the exact stretches from each event to the next telescope to the whole (`Telescope`). The sum of
their whole seconds stays within a second per stretch of that (`CutSums`, again over every subset), and
cutting the total itself gives one of those seconds back (`CutTotal`). The theorem then joins online and
offline into one sum.

**DiscoveryProofs**, for any places, serials and workers. `OneRunAtATime` assumes
`QuietWithinClaim`: who holds the claim has refreshed it no longer ago than its own last progress,
so it cannot look abandoned. Under the same assumption `ClaimIsExclusiveWork` states the refinement:
each step moves at most one run in or out of `Holding`, and since nobody shares the claim before or
after it, it is a `Take`, a `GiveBack` or a stutter. `StayingIsSafe` states the action property `NobodyIsPruned`
and assumes `WalksWithinGrace`: only pruning deletes rows (`OnlyPruningDeletes`), and what a walk
neither names nor missed was not there, or came so shortly before that its row is too young for it.

**WaSessionProofs**, for any numbers, devices, clicks and troubles: `DeadAreDropped` states
`OnlyTheDeadAreDropped`. Whoever drops a session acts on something read earlier, so each of those
readings has its invariant. A rescan closes by its list: what the list lacks is deleted, or has no
session and gets none from this rescan (`Fresh`). The watch acts on a signal, and only the logout of
the session that is there sets it, never an event of the one before (`HeardBy`, `Sane`). The control
loop restarts after a logout it carried out or for a number that is gone (`WorkingOK`), and between
the two nobody else gets to drop or revive that session, because its logout raised no event
(`Quiet`).

`NothingIsForgotten` is about the opposite danger, a session that needs attention and gets none. Its
signals are one-slot channels that different goroutines fill and empty, so the invariant (`Told`)
follows the duty from hand to hand: a closed socket of a linked session is in an event not handled
yet, in the signal, or in the loop that reconnects (`Noted`); a deleted device is in the `LoggedOut`
event, in the watch's signal, or in the remaining steps of the unpairing (`Ended`). It needs one
fact more than it states: a code is only ever outstanding on an open socket, or the device that the
phone's approval brings could start out unconnected with nobody to say so. This is the safety half
of `LinkedComesBack` and `LoggedOutIsPairable`; that the one in charge then acts is fairness.
`DeletedStaysLetGo` is the safety half of `DeletedIsLetGo`: once the session of a deleted number is
closed and the rescan under way has not read its row (`LetGo`), no step undoes that, because no row
comes back and a session is only opened from a list (`Fresh`).

**WireGuardProofs**, for any finite set of peers and any subnets, admins and bounds. What the rows ask
for, configured in any order, carries what they say, since of finitely many claimants one is the last
(`OneIsLast`, `ConfiguredCarries`). `KernelCannotDrift` and
`RevocationHolds` follow from `DeviceInv`: one reconcile at a time has read the rows (`OneApplies`),
a reading that is no longer what the rows say belongs to a change whose own reconcile is to come
(`StaleIsRedone`), a refusal is noted (`Told`), and a revoked key is in no reading (`RevokedIsGone`).
`SubnetsStayDisjoint` follows from `SubnetInv`: as long as requests have not overlapped, what a
request is about to write fits the others' rows, and so does what it would put back.

**Only model-checked.** Every liveness property (`EveryJobIsServed`, `EveryReplyIsSettled`,
`ComesRight`, `DiscoveredAgain`, `RowsFollowChassis`, `ComesInStep` and four of WaSession), since
liveness under fairness and ENABLED are outside what the prover does. Every invariant, action
property and refinement of a passing run is proved, except `SerialsAreUnique`: it rests on one guard,
that of the unique index, and what its run shows is that no path to a row goes round it. ZteProvisioning's `OneWriterPerONT` has no
refinement of ExclusiveWork: a crash ends all its writers in one step, which ExclusiveWork, where
each gives back for himself, does not know.

## 6. Not modelled, and why

The router's queue is PollQueue with another RunNow and is left for its likeness. Broadcasts and
groups repeat the loop of CsOutbox. MikroTik monitoring, flow collection and the worker's alert are
mostly arithmetic on samples or rows; their few hazards are listed with notes. SNMP, Telnet, IPFIX
and API decoding are data transformation: their outcomes are choices of the models. Queries,
dashboards, mapping, settings, users, audit, rate limits (one row or one query per request), the
push service and the frontend have no state that several actors drive.

Inside the modelled parts: what service lines say, quotes, previews, media files, browser
announcements, unread counts and names of threads, deletion of messages, audit rows, optical
readings, handshake columns, and single database errors of provisioning are left out; the headers of
the modules say so too. Parts of which some operation is missing are marked *partly* in
`PROJECT.json`.
