----------------------------- MODULE WireGuard -----------------------------
(***************************************************************************)
(* The site VPN.  Server and peers are rows; every change of them ends by  *)
(* applying all rows to the kernel's interface, one such reconcile at a    *)
(* time, and is taken back when the kernel refuses.                        *)
(*   src/backend/internal/services/wireguard_service.go,                   *)
(*     wireguard_peers.go, wireguard_validate.go, wireguard_refresher.go   *)
(*   src/backend/internal/connectivity/wireguard_device_linux.go           *)
(*   src/backend/cmd/api/main.go                                           *)
(*                                                                         *)
(* A subnet is one value: two overlap when they are the same.  Not here:   *)
(* keys beyond their identity, names, keepalives, rendering, and the       *)
(* handshake columns RefreshStatus copies.                                 *)
(***************************************************************************)
EXTENDS Integers, FiniteSets, Functions

CONSTANTS
  Keys,         \* peers, each with its key pair
  Subnets, Addresses, Ports,
  DefaultPort,  \* defaultListenPort, which the setup begins with
  Admins,       \* requests served side by side
  Service,      \* the API's own goroutine: the reconcile at startup, then the ticker
  None,         \* no row; nobody
  MaxCalls,     \* bound: requests
  MaxTroubles   \* bound: refusals of the kernel, failed statements, crashes

ASSUME ParametersAssumption ==
  /\ IsFiniteSet(Keys) /\ \A subnets \in SUBSET Subnets : None # subnets
  /\ Service \notin Admins /\ None \notin Admins \cup {Service} \cup Ports
  /\ DefaultPort \in Ports /\ Addresses \subseteq Nat /\ MaxCalls \in Nat /\ MaxTroubles \in Nat

VARIABLES
  server,   \* the wireguard_server row: the listen port, or None
  peers,    \* the wireguard_peers rows, by key
  kernel,   \* the interface: port, peers and routes
  process,  \* "down", "starting" or "up"
  read,     \* what a reconcile has read; WireGuardService.mu is with its caller until it applied it
  pending,  \* reconcilePending
  call,     \* what each goroutine is doing
  missed,   \* history: a reconcile failed short of the kernel, and none got there since
  minted,   \* history: keys that were ever generated
  revoked,  \* history: keys whose DeletePeer succeeded, until they have a row again
  raced,    \* history: two requests have overlapped
  spent     \* calls and troubles so far

vars == <<server, peers, kernel, process, read, pending, call, missed, minted, revoked, raced, spent>>

Callers == Admins \cup {Service}
NoCall == [does |-> "nothing", key |-> None, row |-> None, before |-> None, step |-> "idle"]
Bare == [port |-> None, peers |-> [k \in Keys |-> None], routes |-> {}]

May(what, max) == spent[what] < max
Spend(what) == spent' = [spent EXCEPT ![what] = @ + 1]
Trouble == May("troubles", MaxTroubles) /\ Spend("troubles")

\* What made a call fail may last and fail its undoing too.
Fails(c) == IF call[c].step = "undo" \/ call[c].does = "recover" THEN UNCHANGED spent ELSE Trouble
To(c, step) == call' = [call EXCEPT ![c].row = None, ![c].step = step]
Recover(c) == call' = [call EXCEPT ![c] = [NoCall EXCEPT !.does = "recover", !.step = "reconcile"]]
Return(c) == call' = [call EXCEPT ![c] = NoCall]

RoutesOf(p) == UNION {p[k] : k \in {x \in Keys : p[x] # None}}

\* What the rows ask of the interface.
TunnelConfig ==
  LET enabled == [k \in Keys |-> IF peers[k] # None /\ peers[k].enabled THEN peers[k].subnets ELSE None]
  IN [port |-> server, peers |-> enabled, routes |-> RoutesOf(enabled)]

\* ListPeers goes by name, which an edit may change and two peers may share:
\* last[k] says how far from the end of the list k is.
Listings == Injection(Keys, 1..Cardinality(Keys))

\* In the kernel an allowed IP is one peer's: configured for a second, it
\* leaves the first.  Who asked for it keeps his key and whatever else is his.
Configured(cfg, last) ==
  [cfg EXCEPT !.peers = [k \in Keys |->
     IF cfg.peers[k] = None THEN None
     ELSE {n \in cfg.peers[k] :
             \A j \in Keys : cfg.peers[j] # None /\ n \in cfg.peers[j] => last[k] <= last[j]}]]

PeerRows == [subnets : (SUBSET Subnets) \ {{}}, enabled : BOOLEAN, address : Addresses]

\* Before the setup, or with peers that were registered one after the other.
Init ==
  /\ server \in {DefaultPort, None}
  /\ peers \in [Keys -> PeerRows \cup {None}]
  /\ \A x \in Keys : peers[x] # None =>
       /\ server # None
       /\ \A y \in Keys \ {x} : peers[y] # None =>
            peers[x].address # peers[y].address /\ peers[x].subnets \cap peers[y].subnets = {}
  /\ kernel = Bare
  /\ process = "down"
  /\ read = [c \in Callers |-> None] /\ pending = FALSE
  /\ call = [c \in Callers |-> NoCall]
  /\ missed = FALSE /\ minted = {k \in Keys : peers[k] # None} /\ revoked = {} /\ raced = FALSE
  /\ spent = [calls |-> 0, troubles |-> 0]

-----------------------------------------------------------------------------
(* The process.                                                            *)

\* The request handlers only start after the first reconcile, whatever it says.
Start ==
  /\ process = "down"
  /\ process' = "starting"
  /\ call' = [call EXCEPT ![Service] = [NoCall EXCEPT !.does = "start", !.step = "reconcile"]]
  /\ UNCHANGED <<server, peers, kernel, read, pending, missed, minted, revoked, raced, spent>>

Serving ==
  /\ process = "starting" /\ call[Service].step = "idle"
  /\ process' = "up"
  /\ UNCHANGED <<server, peers, kernel, read, pending, call, missed, minted, revoked, raced, spent>>

\* The interface is in the container's network namespace and goes with it.
Crash ==
  /\ process # "down" /\ Trouble
  /\ process' = "down"
  /\ kernel' = Bare
  /\ read' = [c \in Callers |-> None] /\ pending' = FALSE
  /\ call' = [c \in Callers |-> NoCall]
  /\ UNCHANGED <<server, peers, missed, minted, revoked, raced>>

-----------------------------------------------------------------------------
(* Reconcile: the rows are read and applied under the mutex.               *)

Unchanged == UNCHANGED <<server, peers, process, minted, raced>>

\* Mutant: without mu, a reconcile reads while another one is about to apply.
Lock_None == TRUE

\* Nobody else is between its reading and its applying.
Lock == \A c \in Callers : call[c].step # "apply"

ReadRows(c) ==
  /\ call[c].step = "reconcile" /\ Lock /\ server # None
  /\ read' = [read EXCEPT ![c] = TunnelConfig] /\ To(c, "apply")
  /\ UNCHANGED <<kernel, pending, missed, revoked, spent>> /\ Unchanged

\* Before the operator's setup there is nothing to apply.
NotConfigured(c) ==
  /\ call[c].step = "reconcile" /\ Lock /\ server = None
  /\ Return(c)
  /\ UNCHANGED <<kernel, read, pending, missed, revoked, spent>> /\ Unchanged

Undoable == {"create", "update", "port"}

\* What follows an error: a change is taken back once; anything else is only told.
Fail(c) ==
  IF call[c].does \in Undoable THEN To(c, "undo") ELSE Return(c)

\* A statement or a decryption fails: not a reason to set pending.
ReadFails(c) ==
  /\ call[c].step = "reconcile" /\ Lock /\ Fails(c)
  /\ missed' = TRUE
  /\ Fail(c)
  /\ UNCHANGED <<kernel, read, pending, revoked>> /\ Unchanged

\* Mutant: the reset of pending is missing.
Apply_KeepsPending(c) ==
  /\ call[c].step = "apply"
  /\ \E last \in Listings : kernel' = Configured(read[c], last)
  /\ read' = [read EXCEPT ![c] = None] /\ missed' = FALSE
  /\ Return(c)
  /\ UNCHANGED <<pending, revoked, spent>> /\ Unchanged

Apply(c) ==
  /\ call[c].step = "apply"
  /\ \E last \in Listings : kernel' = Configured(read[c], last)
  /\ read' = [read EXCEPT ![c] = None] /\ pending' = FALSE /\ missed' = FALSE
  /\ Return(c)
  /\ revoked' = revoked \cup {k \in Keys : call[c].does = "delete" /\ call[c].key = k
                                         /\ peers[k] = None /\ read[c].peers[k] = None}
  /\ UNCHANGED spent /\ Unchanged

\* Peers and port are one call; then stale routes go, then new ones come.
Partly(from, to) ==
  LET stale == from.routes \ to.routes  fresh == to.routes \ from.routes
      begun == {[to EXCEPT !.routes = from.routes \ gone] : gone \in SUBSET stale}
               \cup {[to EXCEPT !.routes = @ \ late] : late \in SUBSET fresh}
  IN {from} \cup (begun \ {to})

\* Mutant: the refusal is told to the operator only.
ApplyRefused_Forgotten(c) ==
  /\ call[c].step = "apply" /\ Fails(c)
  /\ \E last \in Listings : kernel' \in Partly(kernel, Configured(read[c], last))
  /\ read' = [read EXCEPT ![c] = None]
  /\ Fail(c)
  /\ UNCHANGED <<pending, missed, revoked>> /\ Unchanged

ApplyRefused(c) ==
  /\ call[c].step = "apply" /\ Fails(c)
  /\ \E last \in Listings : kernel' \in Partly(kernel, Configured(read[c], last))
  /\ read' = [read EXCEPT ![c] = None] /\ pending' = TRUE
  /\ Fail(c)
  /\ UNCHANGED <<missed, revoked>> /\ Unchanged

ReconcileIfPending ==
  /\ process = "up" /\ call[Service].step = "idle" /\ Lock /\ pending
  /\ call' = [call EXCEPT ![Service] = [NoCall EXCEPT !.does = "tick", !.step = "reconcile"]]
  /\ UNCHANGED <<server, peers, kernel, process, read, pending, missed, minted, revoked, raced, spent>>

Reconcile(c) == ReadRows(c) \/ NotConfigured(c) \/ Apply(c)

-----------------------------------------------------------------------------
(* The requests.  Each reads and validates first, and writes what it made  *)
(* of that in a later statement.                                           *)

Begin(c, does, k, row, before) ==
  /\ process = "up" /\ call[c] = NoCall /\ May("calls", MaxCalls) /\ Spend("calls")
  /\ call' = [call EXCEPT ![c] =
                [does |-> does, key |-> k, row |-> row, before |-> before, step |-> "write"]]
  /\ raced' = (raced \/ \E d \in Admins \ {c} : call[d] # NoCall)
  /\ UNCHANGED <<server, peers, kernel, process, read, pending, missed, revoked>>

Rows == {k \in Keys : peers[k] # None}

\* Mutant: a disabled peer claims nothing.
peerNetworks_Enabled(k) == UNION {peers[x].subnets : x \in {y \in Rows \ {k} : peers[y].enabled}}

\* Disabled peers included, and the peer itself left out.
peerNetworks(k) == UNION {peers[x].subnets : x \in Rows \ {k}}
ValidateAllowedIPs(k, subnets) == subnets # {} /\ subnets \cap peerNetworks(k) = {}
Taken(a) == \E x \in Rows : peers[x].address = a

\* The address is the operator's, or the lowest that is free.
CreatePeer(c, k, subnets, a) ==
  /\ server # None /\ k \notin minted /\ minted' = minted \cup {k}
  /\ ValidateAllowedIPs(k, subnets) /\ ~Taken(a)
  /\ Begin(c, "create", k, [subnets |-> subnets, enabled |-> TRUE, address |-> a], None)

UpdatePeer(c, k, subnets, enabled) ==
  /\ server # None /\ peers[k] # None
  /\ subnets # peers[k].subnets => ValidateAllowedIPs(k, subnets)
  /\ Begin(c, "update", k, [peers[k] EXCEPT !.subnets = subnets, !.enabled = enabled], peers[k])
  /\ UNCHANGED minted

\* A row that is gone is deleted again without complaint.
DeletePeer(c, k) ==
  k \in minted /\ Begin(c, "delete", k, None, None) /\ UNCHANGED minted

EnsureServer(c) ==
  /\ server = None
  /\ Begin(c, "setup", None, DefaultPort, None) /\ UNCHANGED minted

UpdateServer(c, port) ==
  /\ server # None
  /\ Begin(c, "port", None, port, server) /\ UNCHANGED minted

\* tunnel_address is unique; gorm's Save updates the row, or inserts it when it is gone.
Fits(k, row) == \A x \in Rows \ {k} : peers[x].address # row.address
Save(k, row) == peers' = [peers EXCEPT ![k] = row] /\ revoked' = revoked \ {k}

Writes(c, step) ==
  /\ call[c].step = step
  /\ UNCHANGED <<kernel, process, read, pending, missed, minted, raced, spent>>

WritePeer(c) ==
  /\ Writes(c, "write") /\ call[c].does \in {"create", "update"}
  /\ IF Fits(call[c].key, call[c].row) THEN Save(call[c].key, call[c].row) /\ To(c, "reconcile")
     ELSE Return(c) /\ UNCHANGED <<peers, revoked>>
  /\ UNCHANGED server

RemovePeer(c) ==
  /\ Writes(c, "write") /\ call[c].does = "delete"
  /\ peers' = [peers EXCEPT ![call[c].key] = None] /\ To(c, "reconcile")
  /\ UNCHANGED <<server, revoked>>

\* interface_name is unique: the second setup is refused.
WriteServer(c) ==
  /\ Writes(c, "write") /\ call[c].does \in {"setup", "port"}
  /\ IF call[c].does = "setup" /\ server # None THEN Return(c) /\ UNCHANGED server
     ELSE server' = call[c].row /\ To(c, "reconcile")
  /\ UNCHANGED <<peers, revoked>>

rollbackRejectedPeer(c) ==
  /\ Writes(c, "undo") /\ call[c].does = "create"
  /\ peers' = [peers EXCEPT ![call[c].key] = None] /\ Recover(c)
  /\ UNCHANGED <<server, revoked>>

restorePeer(c) ==
  /\ Writes(c, "undo") /\ call[c].does = "update"
  /\ IF Fits(call[c].key, call[c].before) THEN Save(call[c].key, call[c].before) /\ Recover(c)
     ELSE Return(c) /\ UNCHANGED <<peers, revoked>>
  /\ UNCHANGED server

restoreServer(c) ==
  /\ Writes(c, "undo") /\ call[c].does = "port"
  /\ server' = call[c].before /\ Recover(c)
  /\ UNCHANGED <<peers, revoked>>

\* The undo's own statement fails: the device is not reconciled either.
UndoFails(c) ==
  /\ call[c].step = "undo" /\ Fails(c)
  /\ Return(c)
  /\ UNCHANGED <<server, peers, kernel, process, read, pending, missed, minted, revoked, raced>>

-----------------------------------------------------------------------------
Request(c) ==
  \/ \E k \in Keys, subnets \in SUBSET Subnets :
       \/ \E a \in Addresses : CreatePeer(c, k, subnets, a)
       \/ \E enabled \in BOOLEAN : UpdatePeer(c, k, subnets, enabled)
  \/ \E k \in Keys : DeletePeer(c, k)
  \/ EnsureServer(c)
  \/ \E port \in Ports : UpdateServer(c, port)

Write(c) ==
  \/ WritePeer(c) \/ RemovePeer(c) \/ WriteServer(c)
  \/ rollbackRejectedPeer(c) \/ restorePeer(c) \/ restoreServer(c)

Next ==
  \/ Start \/ Serving \/ Crash \/ ReconcileIfPending
  \/ \E c \in Admins : Request(c) \/ Write(c) \/ UndoFails(c)
  \/ \E c \in Callers : Reconcile(c) \/ ReadFails(c) \/ ApplyRefused(c)

Spec == Init /\ [][Next]_vars

\* The container is restarted, its goroutines run and the ticker ticks.
FairSpec ==
  /\ Spec
  /\ WF_vars(Start) /\ WF_vars(Serving) /\ WF_vars(ReconcileIfPending)
  /\ WF_vars(\E c \in Callers : Reconcile(c)) /\ WF_vars(\E c \in Admins : Write(c))

-----------------------------------------------------------------------------
(* Properties.                                                             *)

\* A call's rows are of the kind that its statements write.
Fitting(x) ==
  /\ x.does \in {"create", "update", "delete"} => x.key \in Keys
  /\ x.step = "write" /\ x.does \in {"create", "update"} => x.row \in PeerRows
  /\ x.step = "write" /\ x.does \in {"setup", "port"} => x.row \in Ports
  /\ x.does = "update" => x.before \in PeerRows
  /\ x.does = "port" => x.before \in Ports

AnyRow == PeerRows \cup Ports \cup {None}
Doings == {"nothing", "start", "tick", "create", "update", "delete", "setup", "port", "recover"}
Steps == {"idle", "write", "reconcile", "apply", "undo"}
Calls == [does : Doings, key : Keys \cup {None}, row : AnyRow, before : AnyRow, step : Steps]
Tunnels == [port : Ports \cup {None}, peers : [Keys -> (SUBSET Subnets) \cup {None}], routes : SUBSET Subnets]

\* The shape of the state; the unique index holds.
TypeOK ==
  /\ server \in Ports \cup {None}
  /\ peers \in [Keys -> PeerRows \cup {None}]
  /\ kernel \in Tunnels
  /\ process \in {"down", "starting", "up"} /\ pending \in BOOLEAN /\ missed \in BOOLEAN
  /\ read \in [Callers -> Tunnels \cup {None}]
  /\ call \in [Callers -> Calls]
  /\ \A c \in Callers : Fitting(call[c]) /\ (call[c].step = "apply" => read[c] \in Tunnels)
  /\ minted \subseteq Keys /\ revoked \subseteq Keys
  /\ \A x, y \in Rows : peers[x].address = peers[y].address => x = y

Enabled == {k \in Rows : peers[k].enabled}

\* The interface has the port, the enabled keys and their routes.  A peer is let
\* through with nothing but its own subnets, and each of those is exactly one
\* peer's: nobody's traffic is dropped, and where two rows claim one subnet, which
\* a kernel cannot give to both, one of the two has it.
Carries(t) ==
  /\ t.port = server /\ t.routes = UNION {peers[k].subnets : k \in Enabled}
  /\ \A k \in Keys : t.peers[k] # None <=> k \in Enabled
  /\ \A k \in Enabled : t.peers[k] \subseteq peers[k].subnets
  /\ \A n \in t.routes : \E k \in Enabled : {j \in Enabled : n \in t.peers[j]} = {k}

InStep == server = None \/ Carries(kernel)
AtRest == process = "up" /\ \A c \in Callers : call[c] = NoCall

\* However requests, the ticker, refusals, rollbacks and crashes interleaved,
\* once nothing is under way the interface carries what the rows say, or the
\* ticker knows that it does not.  A read that failed (missed) is not known to it.
KernelFollowsRows == AtRest /\ ~pending /\ ~missed => InStep

\* A key whose DeletePeer was answered with success is not accepted again by a
\* reconcile that read the rows before, unless its row is back.
RevokedStaysRevoked == \A k \in revoked : peers[k] = None => kernel.peers[k] = None

\* Two tunnels never claim one subnet as long as requests come one at a time:
\* not a disabled peer's, and not through an edit that was taken back.
SubnetsAreDisjoint ==
  ~raced => \A x, y \in Rows : x # y => peers[x].subnets \cap peers[y].subnets = {}

\* The interface comes back in step, whatever was refused or died on the way.
ComesInStep == []<>(missed \/ (InStep /\ ~pending))
=============================================================================
