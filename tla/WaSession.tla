----------------------------- MODULE WaSession -----------------------------
(***************************************************************************)
(* The WhatsApp sessions of the wa process: one per row of wa_accounts,    *)
(* opened and closed by a rescan of the rows, kept up by a supervisor that *)
(* one-slot signals wake, and paired, given up or deleted by the control   *)
(* messages an admin's clicks send through Redis.                          *)
(*   src/backend/cmd/wa/sessions.go, main.go                               *)
(*   src/backend/internal/wa/client.go, supervisor.go, pairing.go,         *)
(*     device.go                                                           *)
(*   src/backend/internal/api/cs_handler_wa.go, cs_handler_purge.go        *)
(*                                                                         *)
(* WhatsApp, the phone and whatsmeow are external: sockets, devices and    *)
(* the order of events.  Each account pairs with a phone of its own ("one  *)
(* CS number is one device here", device.go).  Dropping a session ends its *)
(* context first, so a dropped client cannot open a socket again.  Not     *)
(* here: what the session carries, and database errors but one kind.       *)
(***************************************************************************)
EXTENDS Integers, Sequences

CONSTANTS
  Accounts,     \* CS numbers
  None,         \* no session; nothing under way
  MaxLinks,     \* bound: devices one phone has at a time
  MaxRequests,  \* bound: clicks of an admin
  MaxTroubles   \* bound: drops, bans, crashes and the like

NoDevice == 0
Devices == 1..MaxLinks

\* What the map holds of a session: its client and the signals to its supervisor.
Sessions ==
  [device : Devices \cup {NoDevice}, deleted : BOOLEAN, socket : {"closed", "open", "online"},
   code : BOOLEAN, replaced : BOOLEAN, sup : {"waiting", "retrying", "unpaired"},
   dropped : BOOLEAN, paired : BOOLEAN, loggedOut : BOOLEAN]

\* What the control loop has under way: a message and how far it is.  The steps
\* of Leaving follow a logout that worked, or the last words to a deleted number.
Actions == {"connect", "disconnect", "delete"}
Leaving == {"record", "clear", "restart"}
Work == [account : Accounts, live : BOOLEAN, step : Actions \cup {"open", "announce", "nudge", "ask"} \cup Leaving]

ASSUME ParametersAssumption ==
  /\ MaxLinks \in Nat /\ MaxRequests \in Nat /\ MaxTroubles \in Nat
  /\ None \notin BOOLEAN /\ None \notin Sessions /\ None \notin Work

VARIABLES
  account,  \* the rows
  stored,   \* whatsmeow's devices, by the phone they are linked to
  process,  \* "down", "starting" or "up"
  session,  \* sessions.running
  events,   \* raised by whatsmeow, not handled yet
  rescan,   \* the sync under way
  control,  \* messages the control loop has not taken
  working,  \* the message it has
  admin,    \* the request the API is serving
  spent     \* requests and troubles so far

vars == <<account, stored, process, session, events, rescan, control, working, admin, spent>>

Statuses == {"disconnected", "pairing", "connected", "banned"}
Resting == [step |-> "idle", list |-> [a \in Accounts |-> None], todo |-> {}]

Exists(a) == account[a].there = "yes"
Linked(a) == session[a] # None /\ session[a].device # NoDevice
NeedsPairing(a) == session[a].device = NoDevice
IsConnected(a) == session[a].socket # "closed"
May(what, max) == spent[what] < max
Spend(what) == spent' = [spent EXCEPT ![what] = @ + 1]
Trouble == May("troubles", MaxTroubles) /\ Spend("troubles")

\* One UPDATE by id: a row that is gone stays gone.
SetStatus(a, s) ==
  account' = IF Exists(a) THEN [account EXCEPT ![a].status = s] ELSE account

\* The client's write of "connected" carries the number of its device, if it has one.
SetConnected(a, live) ==
  account' = IF Exists(a)
             THEN [account EXCEPT ![a].status = "connected", ![a].jid = @ \/ (live /\ Linked(a))]
             ELSE account

Raise(a, kind) == events' = [events EXCEPT ![a] = Append(@, [kind |-> kind, live |-> TRUE])]

\* sessions.restart: whatever runs under this id is dropped.
Restart(a) ==
  /\ session' = [session EXCEPT ![a] = None]
  /\ events' = [events EXCEPT ![a] = [i \in DOMAIN @ |-> [@[i] EXCEPT !.live = FALSE]]]

Init ==
  /\ \E linked \in SUBSET Accounts, made \in SUBSET Accounts :
       /\ linked \subseteq made /\ (MaxLinks = 0 => linked = {})
       /\ account = [a \in Accounts |-> [there |-> IF a \in made THEN "yes" ELSE "no",
                                         status |-> "disconnected", jid |-> a \in linked]]
       /\ stored = [a \in Accounts |-> IF a \in linked THEN {1} ELSE {}]
  /\ process = "down"
  /\ session = [a \in Accounts |-> None]
  /\ events = [a \in Accounts |-> <<>>]
  /\ rescan = Resting
  /\ control = <<>> /\ working = None /\ admin = None
  /\ spent = [requests |-> 0, troubles |-> 0]

-----------------------------------------------------------------------------
(* The process and its rescan.                                             *)

Start ==
  /\ process = "down"
  /\ process' = "starting"
  /\ UNCHANGED <<account, stored, session, events, rescan, control, working, admin, spent>>

\* The rescan at startup ends before the control loop subscribes.
EndSync == rescan' = Resting /\ process' = "up"

ReadAccounts ==
  /\ process # "down" /\ rescan.step = "idle"
  /\ LET known == {a \in Accounts : Exists(a)} IN
     rescan' = [step |-> "ensure", todo |-> known,
                list |-> [a \in Accounts |-> IF a \in known THEN account[a].jid ELSE None]]
  /\ UNCHANGED <<account, stored, process, session, events, control, working, admin, spent>>

ReadFails ==
  /\ process # "down" /\ rescan.step = "idle" /\ Trouble
  /\ EndSync
  /\ UNCHANGED <<account, stored, session, events, control, working, admin>>

\* The devices that match the number, in no order; a fresh one when none does.
deviceFor(a, jid) == IF jid /\ stored[a] # {} THEN stored[a] ELSE {NoDevice}

\* Mutant: a first connection that fails is only logged.
NewSession_NotNudged(device, opened) ==
  [device |-> device, deleted |-> FALSE, socket |-> IF opened THEN "open" ELSE "closed",
   code |-> FALSE, replaced |-> FALSE, sup |-> "waiting",
   dropped |-> FALSE, paired |-> FALSE, loggedOut |-> FALSE]

NewSession(device, opened) ==
  [device |-> device, deleted |-> FALSE, socket |-> IF opened THEN "open" ELSE "closed",
   code |-> FALSE, replaced |-> FALSE, sup |-> "waiting",
   dropped |-> ~opened, paired |-> FALSE, loggedOut |-> FALSE]

ensure(a, d, opened) ==
  /\ session[a] = None /\ d \in deviceFor(a, rescan.list[a])
  /\ session' = [session EXCEPT ![a] = NewSession(d, opened)]
  /\ IF opened THEN UNCHANGED account ELSE SetStatus(a, "disconnected")

Ensure(a) ==
  /\ rescan.step = "ensure" /\ a \in rescan.todo
  /\ rescan' = [rescan EXCEPT !.todo = @ \ {a}]
  /\ \/ session[a] # None /\ UNCHANGED <<account, session, spent>>
     \/ \E d \in Devices \cup {NoDevice}, opened \in BOOLEAN : ensure(a, d, opened) /\ UNCHANGED spent
     \/ session[a] = None /\ Trouble /\ UNCHANGED <<account, session>>    \* NewClient fails
  /\ UNCHANGED <<stored, process, events, control, working, admin>>

\* Mutant: only what was opened by this rescan is looked at.
orphaned_Opened == {a \in Accounts : session[a] = None /\ rescan.list[a] = None}

\* By the list the rescan began with.
orphaned == {a \in Accounts : session[a] # None /\ rescan.list[a] = None}

closeOrphans ==
  /\ rescan.step = "ensure" /\ rescan.todo = {}
  /\ EndSync
  /\ session' = [a \in Accounts |-> IF a \in orphaned THEN None ELSE session[a]]
  /\ events' = [a \in Accounts |-> IF a \in orphaned
                 THEN [i \in DOMAIN events[a] |-> [events[a][i] EXCEPT !.live = FALSE]] ELSE events[a]]
  /\ working' = IF working # None /\ working.account \in orphaned
                THEN [working EXCEPT !.live = FALSE] ELSE working
  /\ UNCHANGED <<account, stored, control, admin, spent>>

Crash ==
  /\ process # "down" /\ Trouble
  /\ process' = "down"
  /\ session' = [a \in Accounts |-> None]
  /\ events' = [a \in Accounts |-> <<>>]
  /\ rescan' = Resting
  /\ control' = <<>> /\ working' = None
  /\ UNCHANGED <<account, stored, admin>>

-----------------------------------------------------------------------------
(* WhatsApp and the phone.                                                 *)

WhatsApp(a) ==
  /\ session[a] # None
  /\ UNCHANGED <<account, process, rescan, control, working, admin>>

\* The login of a linked device.
Authenticate(a) ==
  /\ WhatsApp(a) /\ Linked(a) /\ session[a].socket = "open"
  /\ session' = [session EXCEPT ![a].socket = "online", ![a].replaced = FALSE]
  /\ Raise(a, "Connected")
  /\ UNCHANGED <<stored, spent>>

\* The phone approves the code; whatsmeow logs in with the new device by itself.
Approve(a) ==
  /\ WhatsApp(a) /\ session[a].code
  /\ \E d \in Devices \ stored[a] :
       /\ \A e \in Devices \ stored[a] : d <= e
       /\ stored' = [stored EXCEPT ![a] = @ \cup {d}]
       /\ session' = [session EXCEPT ![a].device = d, ![a].code = FALSE]
  /\ Raise(a, "PairSuccess")
  /\ UNCHANGED spent

ApproveFails(a) ==
  /\ WhatsApp(a) /\ session[a].code /\ Trouble
  /\ session' = [session EXCEPT ![a].code = FALSE]
  /\ Raise(a, "PairError")
  /\ UNCHANGED stored

\* A socket nobody logs in on lives about 160 seconds.
Expire(a) ==
  /\ WhatsApp(a) /\ NeedsPairing(a) /\ IsConnected(a)
  /\ session' = [session EXCEPT ![a].socket = "closed", ![a].code = FALSE]
  /\ Raise(a, "Disconnected")
  /\ UNCHANGED <<stored, spent>>

\* Lost, or reset because it stopped answering (KeepAliveTimeout).
Drop(a) ==
  /\ WhatsApp(a) /\ Linked(a) /\ IsConnected(a) /\ Trouble
  /\ session' = [session EXCEPT ![a].socket = "closed"]
  /\ Raise(a, "Disconnected")
  /\ UNCHANGED stored

Replace(a) ==
  /\ WhatsApp(a) /\ Linked(a) /\ IsConnected(a) /\ Trouble
  /\ session' = [session EXCEPT ![a].socket = "closed", ![a].replaced = TRUE]
  /\ Raise(a, "StreamReplaced")
  /\ UNCHANGED stored

Ban(a) ==
  /\ WhatsApp(a) /\ Linked(a) /\ IsConnected(a) /\ Trouble
  /\ Raise(a, "TemporaryBan")
  /\ UNCHANGED <<stored, session>>

Forgotten(a) ==
  /\ stored' = [stored EXCEPT ![a] = @ \ {session[a].device}]
  /\ session' = [session EXCEPT ![a].device = NoDevice, ![a].deleted = TRUE, ![a].socket = "closed"]

\* The phone ends the link, or the server does.
Unlink(a) ==
  /\ WhatsApp(a) /\ Linked(a) /\ IsConnected(a) /\ Trouble
  /\ Forgotten(a)
  /\ Raise(a, "LoggedOut")

-----------------------------------------------------------------------------
(* The client: routeSession, supervise and the watch for a logout.  What a *)
(* dropped client still handles writes the row and wakes nobody.           *)

Handle(a, kind) == events[a] # <<>> /\ Head(events[a]).kind = kind

Handled(a) ==
  /\ events' = [events EXCEPT ![a] = Tail(@)]
  /\ UNCHANGED <<stored, process, rescan, control, working, admin, spent>>

\* A send on a one-slot channel: full or not, one signal is pending.
Signals(a, which) ==
  session' = IF Head(events[a]).live
             THEN [session EXCEPT ![a].dropped = @ \/ "dropped" \in which,
                                  ![a].paired = @ \/ "paired" \in which,
                                  ![a].loggedOut = @ \/ "loggedOut" \in which]
             ELSE session

\* Mutant: nobody tells the supervisor that there is a device now.
PairSuccess_Untold(a) ==
  Handle(a, "PairSuccess") /\ UNCHANGED <<account, session>> /\ Handled(a)

PairSuccess(a) ==
  Handle(a, "PairSuccess") /\ Signals(a, {"paired"}) /\ UNCHANGED account /\ Handled(a)

PairError(a) ==
  Handle(a, "PairError") /\ SetStatus(a, "disconnected") /\ UNCHANGED session /\ Handled(a)

\* Read with the event: a device deleted since is nil by now, and lends no number.
Connected(a) ==
  Handle(a, "Connected") /\ SetConnected(a, Head(events[a]).live) /\ UNCHANGED session /\ Handled(a)

Disconnected(a) ==
  Handle(a, "Disconnected") /\ SetStatus(a, "disconnected") /\ Signals(a, {"dropped"}) /\ Handled(a)

StreamReplaced(a) ==
  Handle(a, "StreamReplaced") /\ SetStatus(a, "disconnected") /\ UNCHANGED session /\ Handled(a)

\* Mutant: as before there was a watch, only the drop is signalled.
LoggedOut_OnlyDrops(a) ==
  /\ Handle(a, "LoggedOut") /\ SetStatus(a, "disconnected")
  /\ Signals(a, {"dropped"})
  /\ Handled(a)

LoggedOut(a) ==
  /\ Handle(a, "LoggedOut") /\ SetStatus(a, "disconnected")
  /\ Signals(a, {"loggedOut", "dropped"})
  /\ Handled(a)

TemporaryBan(a) ==
  Handle(a, "TemporaryBan") /\ SetStatus(a, "banned") /\ UNCHANGED session /\ Handled(a)

routeSession(a) ==
  \/ PairSuccess(a) \/ PairError(a) \/ Connected(a) \/ Disconnected(a)
  \/ StreamReplaced(a) \/ LoggedOut(a) \/ TemporaryBan(a)

Supervisor(a, sup) ==
  /\ session[a] # None /\ session[a].sup = sup
  /\ UNCHANGED <<account, stored, process, events, rescan, control, working, admin, spent>>

\* reconnect loops only while there is a device to reconnect with.
TakeDrop(a) ==
  /\ Supervisor(a, "waiting") /\ session[a].dropped
  /\ session' = [session EXCEPT ![a].dropped = FALSE,
                                ![a].sup = IF NeedsPairing(a) THEN "unpaired" ELSE "retrying"]

\* Open already, or opened now; a try that fails changes only the delay.
reconnect(a) ==
  /\ Supervisor(a, "retrying") /\ ~NeedsPairing(a)
  /\ session' = [session EXCEPT ![a].sup = "waiting", ![a].socket = IF @ = "closed" THEN "open" ELSE @]

GiveUp(a) ==
  /\ Supervisor(a, "retrying") /\ NeedsPairing(a)
  /\ session' = [session EXCEPT ![a].sup = "unpaired"]

TakePaired(a) ==
  /\ Supervisor(a, "unpaired") /\ session[a].paired
  /\ session' = [session EXCEPT ![a].paired = FALSE, ![a].sup = "waiting"]

supervise(a) == TakeDrop(a) \/ reconnect(a) \/ GiveUp(a) \/ TakePaired(a)

Orphan(a) ==
  working' = IF working # None /\ working.account = a THEN [working EXCEPT !.live = FALSE] ELSE working

watchForLogout(a) ==
  /\ session[a] # None /\ session[a].loggedOut
  /\ Restart(a) /\ Orphan(a)
  /\ UNCHANGED <<account, stored, process, rescan, control, admin, spent>>

-----------------------------------------------------------------------------
(* The control loop: one message at a time, whose client was looked up     *)
(* once and may have been dropped since (live).                            *)

\* A message that names a number without a session is dropped.
TakeControl ==
  /\ working = None /\ control # <<>>
  /\ control' = Tail(control)
  /\ LET m == Head(control) IN
     working' = IF session[m.account] = None THEN None
                ELSE [account |-> m.account, live |-> TRUE, step |-> m.action]
  /\ UNCHANGED <<account, stored, process, session, events, rescan, admin, spent>>

At(a, step) ==
  /\ working # None /\ working.account = a /\ working.step = step
  /\ UNCHANGED <<process, rescan, control, admin, spent>>

Alive(a) == working.live /\ session[a] # None
NextStep(step) == working' = [working EXCEPT !.step = step]

\* Pair: what it finds decides what it writes, a statement later.
Pair(a) ==
  /\ At(a, "connect")
  /\ NextStep(IF ~Alive(a) \/ NeedsPairing(a) THEN "open"
           ELSE IF IsConnected(a) THEN "announce" ELSE "nudge")
  /\ UNCHANGED <<account, stored, session, events>>

Announce(a) ==
  /\ At(a, "announce")
  /\ SetConnected(a, Alive(a)) /\ working' = None
  /\ UNCHANGED <<stored, session, events>>

Nudge(a) ==
  /\ At(a, "nudge")
  /\ SetStatus(a, "disconnected")
  /\ session' = IF Alive(a) THEN [session EXCEPT ![a].dropped = TRUE] ELSE session
  /\ working' = None
  /\ UNCHANGED <<stored, events>>

OpenToPair(a) ==
  /\ At(a, "open")
  /\ Alive(a) /\ ~session[a].deleted
  /\ session' = [session EXCEPT ![a].socket = IF @ = "closed" THEN "open" ELSE @]
  /\ NextStep("ask")
  /\ UNCHANGED <<account, stored, events>>

\* PairPhone, on a socket that has not logged in.
PairPhone(a) ==
  /\ At(a, "ask")
  /\ Alive(a) /\ NeedsPairing(a) /\ IsConnected(a)
  /\ session' = [session EXCEPT ![a].code = TRUE]
  /\ working' = None
  /\ UNCHANGED <<account, stored, events>>

\* Mutant: the error is logged and the row left as the API wrote it.
PairFails_Silent(a) ==
  /\ At(a, "open") \/ At(a, "ask")
  /\ working' = None
  /\ UNCHANGED <<account, stored, session, events>>

\* Connect or PairPhone refused, for any reason.
PairFails(a) ==
  /\ At(a, "open") \/ At(a, "ask")
  /\ SetStatus(a, "disconnected") /\ working' = None
  /\ UNCHANGED <<stored, session, events>>

\* Unpair and, when that worked, restart.
Logout(a) == Alive(a) /\ Linked(a) /\ IsConnected(a) /\ Forgotten(a)

Unpair(a) ==
  /\ At(a, "disconnect")
  /\ Logout(a) /\ NextStep("record")
  /\ UNCHANGED <<account, events>>

\* Mutant: the session is restarted whether or not the logout worked.
UnpairFails_Restarts(a) ==
  /\ At(a, "disconnect")
  /\ NextStep("restart")
  /\ UNCHANGED <<account, stored, session, events>>

UnpairFails(a) ==
  /\ At(a, "disconnect")
  /\ working' = None
  /\ UNCHANGED <<account, stored, session, events>>

Record(a) ==
  /\ At(a, "record")
  /\ SetStatus(a, "disconnected") /\ NextStep("clear")
  /\ UNCHANGED <<stored, session, events>>

\* Mutant: the number is cleared, the session left as it is.
ClearNumber_NoRestart(a) ==
  /\ At(a, "clear")
  /\ account' = [account EXCEPT ![a].jid = FALSE] /\ working' = None
  /\ UNCHANGED <<stored, session, events>>

ClearNumber(a) ==
  /\ At(a, "clear")
  /\ account' = [account EXCEPT ![a].jid = FALSE] /\ NextStep("restart")
  /\ UNCHANGED <<stored, session, events>>

\* Nothing to give up, or whatever becomes of giving it up.
GiveUpPairing(a) ==
  /\ At(a, "delete")
  /\ Logout(a) \/ UNCHANGED <<stored, session>>
  /\ NextStep("restart")
  /\ UNCHANGED <<account, events>>

RestartAsked(a) ==
  /\ At(a, "restart")
  /\ Restart(a) /\ working' = None
  /\ UNCHANGED <<account, stored>>

applyControl(a) ==
  \/ Pair(a) \/ Announce(a) \/ Nudge(a) \/ OpenToPair(a) \/ PairPhone(a) \/ PairFails(a)
  \/ Unpair(a) \/ UnpairFails(a) \/ Record(a) \/ ClearNumber(a)
  \/ GiveUpPairing(a) \/ RestartAsked(a)

-----------------------------------------------------------------------------
(* The admin's clicks, as the API serves them.  Redis hands a message to   *)
(* whoever listens, and calls it sent when nobody does.                    *)

Serve(a, action, step) ==
  /\ admin = None /\ Exists(a) /\ May("requests", MaxRequests) /\ Spend("requests")
  /\ admin' = [action |-> action, account |-> a, step |-> step, before |-> account[a].status]
  /\ UNCHANGED <<stored, process, session, events, rescan, control, working>>

CreateAccount(a) ==
  /\ admin = None /\ account[a].there = "no"
  /\ account' = [account EXCEPT ![a].there = "yes"]
  /\ UNCHANGED <<stored, process, session, events, rescan, control, working, admin, spent>>

Connect(a) == Serve(a, "connect", "mark") /\ UNCHANGED account
Disconnect(a) == Serve(a, "disconnect", "publish") /\ UNCHANGED account
DeleteAccount(a) ==
  Serve(a, "delete", "publish") /\ account' = [account EXCEPT ![a].there = "gone"]

AdminAt(step) ==
  admin # None /\ admin.step = step
  /\ UNCHANGED <<stored, process, session, events, rescan, working>>

MarkPairing ==
  /\ AdminAt("mark")
  /\ SetStatus(admin.account, "pairing")
  /\ admin' = [admin EXCEPT !.step = "publish"]
  /\ UNCHANGED <<control, spent>>

publishControl ==
  /\ AdminAt("publish")
  /\ control' = IF process = "up"
                THEN Append(control, [action |-> admin.action, account |-> admin.account]) ELSE control
  /\ admin' = None
  /\ UNCHANGED <<account, spent>>

\* Redis refuses: connect puts back the status it read first.
rollbackStatus ==
  /\ AdminAt("publish") /\ Trouble
  /\ IF admin.action = "connect" THEN SetStatus(admin.account, admin.before) ELSE UNCHANGED account
  /\ admin' = None
  /\ UNCHANGED control

-----------------------------------------------------------------------------
sync == ReadAccounts \/ closeOrphans \/ \E a \in Accounts : Ensure(a)

Environment ==
  \/ ReadFails \/ Crash
  \/ \E a \in Accounts :
       \/ Approve(a) \/ ApproveFails(a) \/ Drop(a) \/ Replace(a) \/ Ban(a) \/ Unlink(a)
       \/ CreateAccount(a) \/ Connect(a) \/ Disconnect(a) \/ DeleteAccount(a)
  \/ MarkPairing \/ publishControl \/ rollbackStatus

Next ==
  \/ Environment \/ Start \/ sync \/ TakeControl
  \/ \E a \in Accounts :
       \/ Authenticate(a) \/ Expire(a) \/ routeSession(a) \/ supervise(a)
       \/ watchForLogout(a) \/ applyControl(a)

Spec == Init /\ [][Next]_vars

\* The process is restarted, its goroutines run and WhatsApp answers; nobody
\* has to click, approve a code or cause trouble.
Fairness ==
  /\ WF_vars(Start) /\ WF_vars(ReadAccounts) /\ WF_vars(closeOrphans) /\ WF_vars(TakeControl)
  /\ \A a \in Accounts :
       /\ WF_vars(Ensure(a)) /\ WF_vars(Authenticate(a)) /\ WF_vars(Expire(a))
       /\ WF_vars(routeSession(a)) /\ WF_vars(supervise(a))
       /\ WF_vars(watchForLogout(a)) /\ WF_vars(applyControl(a))
FairSpec == Spec /\ Fairness

-----------------------------------------------------------------------------
(* Properties.                                                             *)

\* The shape of the state.
TypeOK ==
  /\ \A a \in Accounts :
       /\ account[a].there \in {"no", "yes", "gone"} /\ account[a].status \in Statuses
       /\ account[a].jid \in BOOLEAN /\ stored[a] \subseteq Devices
       /\ session[a] # None => session[a] \in Sessions
       /\ Linked(a) => session[a].device \in stored[a]
       /\ session[a] # None /\ session[a].socket = "online" => Linked(a)
  /\ process \in {"down", "starting", "up"} /\ working \in Work \cup {None}
  /\ rescan.step \in {"idle", "ensure"} /\ rescan.todo \subseteq Accounts

\* A session is only ever dropped when its device is gone, its row is gone or
\* the whole process is: neither a link that works nor a pairing under way is
\* taken down by a rescan that began before, by a logout of the session before
\* it, or by a Disconnect that WhatsApp refused.
OnlyTheDeadAreDropped ==
  [][\A a \in Accounts :
       session[a] # None /\ session'[a] = None /\ process' # "down"
       => session[a].deleted \/ ~Exists(a)]_vars

\* A live event of a kind that the client has not handled.
Awaits(a, kind) == \E i \in DOMAIN events[a] : events[a][i].kind = kind /\ events[a][i].live

\* supervise, routeSession: no drop of a linked session is lost between the
\* goroutines.  While its socket is closed somebody is still to act on that (the
\* signal, the loop that reconnects, or an event about to signal), unless
\* another client took the link over; and a supervisor that found no device,
\* where there is one now, is still to hear of the pairing.
DropIsNoted ==
  \A a \in Accounts : Linked(a) =>
    /\ ~IsConnected(a) => \/ session[a].replaced \/ session[a].dropped \/ session[a].sup = "retrying"
                          \/ Awaits(a, "Disconnected")
    /\ session[a].sup = "unpaired" => session[a].paired \/ Awaits(a, "PairSuccess")

\* watchForLogout, applyControl: of a number that exists, a session whose device
\* was deleted is always about to be restarted: by its watch, by the event that
\* wakes the watch, or by the unpairing that deleted the device.
LogoutIsNoted ==
  \A a \in Accounts : session[a] # None /\ session[a].deleted /\ Exists(a) =>
    \/ session[a].loggedOut \/ Awaits(a, "LoggedOut")
    \/ working # None /\ working.account = a /\ working.step \in Leaving

\* Neither goes unnoticed for good.
NothingGoesUnnoted == DropIsNoted /\ LogoutIsNoted

\* closeOrphans: whatever became of the message that asked for it, the session
\* of a deleted number is closed and never opened again.
DeletedIsLetGo ==
  \A a \in Accounts : account[a].there = "gone" ~> [](session[a] = None)

\* closeOrphans: a deleted number without a session, which the rescan under way
\* has not read either, is never given one again.
LetGo(a) == account[a].there = "gone" /\ session[a] = None /\ (rescan.step = "ensure" => rescan.list[a] = None)
LetGoStays == [][\A a \in Accounts : LetGo(a) => LetGo(a)']_vars

\* supervise: a linked session whose socket dropped is online again in the
\* end, unless somebody else took it over or the link ended.
LinkedComesBack ==
  \A a \in Accounts :
    Linked(a) /\ ~IsConnected(a)
    ~> session[a] = None \/ NeedsPairing(a) \/ session[a].socket = "online" \/ session[a].replaced

\* watchForLogout: a client whose device was deleted can never pair again, so
\* a number that still exists gets a session that can.
LoggedOutIsPairable ==
  \A a \in Accounts :
    session[a] # None /\ session[a].deleted
    ~> ~Exists(a) \/ (session[a] # None /\ ~session[a].deleted)

\* Pair: a request the process took does not leave the number "pairing", with
\* nothing to explain it, for ever.
PairingIsAnswered ==
  \A a \in Accounts :
    working # None /\ working.account = a /\ working.step = "connect"
    ~> ~Exists(a) \/ account[a].status # "pairing"
=============================================================================
