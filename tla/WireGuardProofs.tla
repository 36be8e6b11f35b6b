-------------------------- MODULE WireGuardProofs --------------------------
(***************************************************************************)
(* Theorems about WireGuard for any number of peers, subnets, requests and *)
(* troubles.                                                               *)
(***************************************************************************)
EXTENDS WireGuard, FiniteSetTheorems, WellFoundedInduction, TLAPS

(* What a call does next.                                                  *)
OthersWait(c) == \A d \in Callers \ {c} : call'[d] = call[d]
CallsOK == call \in [Callers -> Calls] /\ \A c \in Callers : Fitting(call[c])

LEMMA NoCallFits == NoCall \in Calls /\ Fitting(NoCall)
BY ParametersAssumption DEF NoCall, Calls, Fitting, AnyRow, Doings, Steps

LEMMA ToMoves ==
  ASSUME CallsOK, NEW c \in Callers, NEW step \in Steps \ {"write"}, To(c, step)
  PROVE  /\ call' \in [Callers -> Calls] /\ OthersWait(c) /\ Fitting(call'[c])
         /\ call'[c].step = step /\ call'[c].row = None
         /\ call'[c].does = call[c].does /\ call'[c].key = call[c].key
         /\ call'[c].before = call[c].before
<1>1. call[c] \in Calls /\ Fitting(call[c])
  BY DEF CallsOK
<1>2. call' = [call EXCEPT ![c] = [[call[c] EXCEPT !.row = None] EXCEPT !.step = step]]
  BY DEF To, CallsOK
<1> DEFINE new == [[call[c] EXCEPT !.row = None] EXCEPT !.step = step]
<1>3. /\ new \in Calls /\ new.step = step /\ new.row = None /\ new.does = call[c].does
      /\ new.key = call[c].key /\ new.before = call[c].before
  BY <1>1 DEF Calls, AnyRow
<1>4. Fitting(new)
  BY <1>1, <1>3 DEF Fitting
<1>5. call' \in [Callers -> Calls] /\ call'[c] = new /\ OthersWait(c)
  BY <1>2, <1>3 DEF CallsOK, OthersWait
<1>. QED
  BY <1>3, <1>4, <1>5

LEMMA RecoverMoves ==
  ASSUME CallsOK, NEW c \in Callers, Recover(c)
  PROVE  /\ call' \in [Callers -> Calls] /\ OthersWait(c) /\ Fitting(call'[c])
         /\ call'[c].step = "reconcile" /\ call'[c].does = "recover"
<1> DEFINE new == [[NoCall EXCEPT !.does = "recover"] EXCEPT !.step = "reconcile"]
<1>1. call' = [call EXCEPT ![c] = new]
  BY DEF Recover
<1>2. new \in Calls /\ Fitting(new) /\ new.step = "reconcile" /\ new.does = "recover"
  BY NoCallFits DEF NoCall, Calls, Fitting, Doings, Steps
<1>. QED
  BY <1>1, <1>2 DEF CallsOK, OthersWait

LEMMA ServiceMoves ==
  ASSUME CallsOK, NEW does \in {"start", "tick"},
         call' = [call EXCEPT ![Service] = [NoCall EXCEPT !.does = does, !.step = "reconcile"]]
  PROVE  /\ call' \in [Callers -> Calls] /\ OthersWait(Service) /\ Fitting(call'[Service])
         /\ call'[Service].step = "reconcile" /\ call'[Service].does = does
<1> DEFINE new == [[NoCall EXCEPT !.does = does] EXCEPT !.step = "reconcile"]
<1>1. call' = [call EXCEPT ![Service] = new]
  OBVIOUS
<1>2. new \in Calls /\ Fitting(new) /\ new.step = "reconcile" /\ new.does = does
  BY NoCallFits DEF NoCall, Calls, Fitting, Doings, Steps
<1>. QED
  BY <1>1, <1>2 DEF CallsOK, OthersWait, Callers

LEMMA ReturnMoves ==
  ASSUME CallsOK, NEW c \in Callers, Return(c)
  PROVE  /\ call' \in [Callers -> Calls] /\ OthersWait(c) /\ Fitting(call'[c])
         /\ call'[c] = NoCall /\ call'[c].step = "idle" /\ call'[c].does = "nothing"
BY NoCallFits DEF CallsOK, Return, OthersWait, NoCall

LEMMA FailMoves ==
  ASSUME CallsOK, NEW c \in Callers, Fail(c)
  PROVE  /\ call' \in [Callers -> Calls] /\ OthersWait(c) /\ Fitting(call'[c])
         /\ \/ call'[c] = NoCall /\ call'[c].step = "idle"
            \/ /\ call'[c].step = "undo" /\ call'[c].does = call[c].does
               /\ call'[c].key = call[c].key /\ call'[c].before = call[c].before
<1>1. CASE call[c].does \in Undoable
  BY <1>1, ToMoves DEF Fail, Steps
<1>2. CASE call[c].does \notin Undoable
  BY <1>2, ReturnMoves DEF Fail
<1>. QED
  BY <1>1, <1>2

LEMMA BeginMoves ==
  ASSUME CallsOK, NEW c \in Callers, NEW does \in Doings, NEW k, NEW row, NEW before,
         k \in Keys \cup {None}, row \in AnyRow, before \in AnyRow,
         does \in {"create", "update", "delete"} => k \in Keys,
         does \in {"create", "update"} => row \in PeerRows,
         does \in {"setup", "port"} => row \in Ports,
         does = "update" => before \in PeerRows,
         does = "port" => before \in Ports,
         Begin(c, does, k, row, before)
  PROVE  /\ call' \in [Callers -> Calls] /\ OthersWait(c) /\ Fitting(call'[c])
         /\ call'[c].step = "write" /\ call'[c].does = does /\ call'[c].key = k
         /\ call'[c].row = row /\ call'[c].before = before
         /\ call[c] = NoCall /\ process = "up"
         /\ raced' = (raced \/ \E d \in Admins \ {c} : call[d] # NoCall)
         /\ UNCHANGED <<server, peers, kernel, process, read, pending, missed, revoked>>
<1> DEFINE new == [does |-> does, key |-> k, row |-> row, before |-> before, step |-> "write"]
<1>1. call' = [call EXCEPT ![c] = new]
  BY DEF Begin
<1>2. new \in Calls
  BY DEF Calls, Steps
<1>3. Fitting(new)
  BY DEF Fitting
<1>4. call' \in [Callers -> Calls] /\ OthersWait(c) /\ call'[c] = new
  BY <1>1, <1>2 DEF CallsOK, OthersWait
<1>. QED
  BY <1>3, <1>4 DEF Begin

-----------------------------------------------------------------------------
(* The interface.                                                          *)

LEMMA ConfigType ==
  ASSUME server \in Ports \cup {None}, peers \in [Keys -> PeerRows \cup {None}]
  PROVE  TunnelConfig \in Tunnels
<1> DEFINE enabled == [k \in Keys |-> IF peers[k] # None /\ peers[k].enabled THEN peers[k].subnets ELSE None]
<1>1. enabled \in [Keys -> (SUBSET Subnets) \cup {None}]
  BY DEF PeerRows
<1>2. RoutesOf(enabled) \in SUBSET Subnets
  BY <1>1 DEF RoutesOf
<1>3. TunnelConfig = [port |-> server, peers |-> enabled, routes |-> RoutesOf(enabled)]
  BY DEF TunnelConfig
<1>. HIDE DEF enabled
<1>. QED
  BY <1>1, <1>2, <1>3 DEF Tunnels

LEMMA ConfiguredType ==
  ASSUME NEW cfg \in Tunnels, NEW last \in Listings
  PROVE  /\ Configured(cfg, last) \in Tunnels
         /\ \A k \in Keys : Configured(cfg, last).peers[k] = None <=> cfg.peers[k] = None
<1> DEFINE held(k) == {n \in cfg.peers[k] :
                         \A j \in Keys : cfg.peers[j] # None /\ n \in cfg.peers[j] => last[k] <= last[j]}
           given == [k \in Keys |-> IF cfg.peers[k] = None THEN None ELSE held(k)]
<1>1. \A k \in Keys : cfg.peers[k] # None => held(k) \in SUBSET Subnets /\ held(k) # None
  BY ParametersAssumption DEF Tunnels
<1>2. given \in [Keys -> (SUBSET Subnets) \cup {None}] /\ \A k \in Keys : given[k] = None <=> cfg.peers[k] = None
  BY <1>1
<1>3. Configured(cfg, last) = [cfg EXCEPT !.peers = given]
  BY DEF Configured
<1>. HIDE DEF given
<1>. QED
  BY <1>2, <1>3 DEF Tunnels

LEMMA PartlyType ==
  ASSUME NEW from \in Tunnels, NEW to \in Tunnels, NEW t \in Partly(from, to)
  PROVE  t \in Tunnels /\ t.peers \in {from.peers, to.peers}
<1>1. CASE t = from
  BY <1>1
<1>2. ASSUME NEW gone \in SUBSET (from.routes \ to.routes), t = [to EXCEPT !.routes = from.routes \ gone]
      PROVE  t \in Tunnels /\ t.peers = to.peers
  BY <1>2 DEF Tunnels
<1>3. ASSUME NEW late \in SUBSET (to.routes \ from.routes), t = [to EXCEPT !.routes = to.routes \ late]
      PROVE  t \in Tunnels /\ t.peers = to.peers
  BY <1>3 DEF Tunnels
<1>. QED
  BY <1>1, <1>2, <1>3 DEF Partly

-----------------------------------------------------------------------------
(* The shape of the state, action by action.                               *)

RowsOK ==
  /\ peers \in [Keys -> PeerRows \cup {None}]
  /\ \A x, y \in Rows : peers[x].address = peers[y].address => x = y

LEMMA SaveType ==
  ASSUME RowsOK, NEW k \in Keys, NEW row \in PeerRows, Fits(k, row), Save(k, row)
  PROVE  RowsOK'
<1>1. peers' \in [Keys -> PeerRows \cup {None}] /\ peers'[k] = row
      /\ \A x \in Keys \ {k} : peers'[x] = peers[x]
  BY DEF RowsOK, Save
<1>2. \A x \in Rows' \ {k} : x \in Rows /\ peers'[x] = peers[x] /\ peers[x].address # row.address
  BY <1>1 DEF Rows, Fits
<1>3. ASSUME NEW x \in Rows', NEW y \in Rows', peers'[x].address = peers'[y].address
      PROVE  x = y
  <2>1. CASE x = k
    BY <1>1, <1>2, <1>3, <2>1
  <2>2. CASE y = k
    BY <1>1, <1>2, <1>3, <2>2
  <2>3. CASE x # k /\ y # k
    BY <1>2, <1>3, <2>3 DEF RowsOK
  <2>. QED
    BY <2>1, <2>2, <2>3
<1>. QED
  BY <1>1, <1>3 DEF RowsOK

LEMMA ClearType ==
  ASSUME RowsOK, NEW k \in Keys, peers' = [peers EXCEPT ![k] = None]
  PROVE  RowsOK'
<1>1. peers' \in [Keys -> PeerRows \cup {None}] /\ peers'[k] = None
      /\ \A x \in Keys \ {k} : peers'[x] = peers[x]
  BY DEF RowsOK
<1>2. \A x \in Rows' : x \in Rows /\ peers'[x] = peers[x]
  BY <1>1 DEF Rows
<1>. QED
  BY <1>1, <1>2 DEF RowsOK

\* A step of one call that leaves the interface and what was read alone.
LEMMA CallType ==
  ASSUME TypeOK, NEW c \in Callers, call' \in [Callers -> Calls], OthersWait(c), Fitting(call'[c]),
         call'[c].step # "apply" \/ read'[c] \in Tunnels,
         \A d \in Callers \ {c} : read'[d] = read[d],
         server' \in Ports \cup {None}, RowsOK', kernel' \in Tunnels,
         process' \in {"down", "starting", "up"}, pending' \in BOOLEAN, missed' \in BOOLEAN,
         read' \in [Callers -> Tunnels \cup {None}], minted' \subseteq Keys, revoked' \subseteq Keys
  PROVE  TypeOK'
<1>1. \A d \in Callers : Fitting(call'[d]) /\ (call'[d].step = "apply" => read'[d] \in Tunnels)
  BY DEF TypeOK, OthersWait
<1>. QED
  BY <1>1 DEF TypeOK, RowsOK

LEMMA ProcessType ==
  ASSUME TypeOK, Start \/ Serving \/ Crash \/ ReconcileIfPending
  PROVE  TypeOK'
<1>c. CallsOK /\ RowsOK /\ Service \in Callers
  BY DEF TypeOK, CallsOK, RowsOK, Callers
<1>1. CASE Start
  <2>1. /\ call' \in [Callers -> Calls] /\ OthersWait(Service) /\ Fitting(call'[Service])
        /\ call'[Service].step = "reconcile"
    BY <1>1, <1>c, ServiceMoves DEF Start
  <2>. QED
    BY <1>1, <1>c, <2>1, CallType DEF Start, TypeOK, RowsOK, Rows
<1>2. CASE Serving
  BY <1>2 DEF Serving, TypeOK, Rows
<1>3. CASE Crash
  <2>1. Bare \in Tunnels
    BY DEF Bare, Tunnels
  <2>2. call' \in [Callers -> Calls] /\ \A c \in Callers : Fitting(call'[c]) /\ call'[c].step # "apply"
    BY <1>3, NoCallFits DEF Crash, NoCall
  <2>3. read' \in [Callers -> Tunnels \cup {None}]
    BY <1>3 DEF Crash
  <2>. QED
    BY <1>3, <2>1, <2>2, <2>3 DEF Crash, TypeOK, Rows
<1>4. CASE ReconcileIfPending
  <2>1. /\ call' \in [Callers -> Calls] /\ OthersWait(Service) /\ Fitting(call'[Service])
        /\ call'[Service].step = "reconcile"
    BY <1>4, <1>c, ServiceMoves DEF ReconcileIfPending
  <2>. QED
    BY <1>4, <1>c, <2>1, CallType DEF ReconcileIfPending, TypeOK, RowsOK, Rows
<1>. QED
  BY <1>1, <1>2, <1>3, <1>4

LEMMA ReconcileType ==
  ASSUME TypeOK, NEW c \in Callers, Reconcile(c) \/ ReadFails(c) \/ ApplyRefused(c)
  PROVE  TypeOK'
<1>c. CallsOK /\ RowsOK
  BY DEF TypeOK, CallsOK, RowsOK
<1>1. CASE ReadRows(c)
  <2>1. TunnelConfig \in Tunnels
    BY ConfigType DEF TypeOK
  <2>2. call' \in [Callers -> Calls] /\ OthersWait(c) /\ Fitting(call'[c])
    BY <1>1, <1>c, ToMoves DEF ReadRows, Steps
  <2>3. /\ read' \in [Callers -> Tunnels \cup {None}] /\ read'[c] \in Tunnels
        /\ \A d \in Callers \ {c} : read'[d] = read[d]
    BY <1>1, <2>1 DEF ReadRows, TypeOK
  <2>. QED
    BY <1>1, <1>c, <2>2, <2>3, CallType DEF ReadRows, Unchanged, TypeOK, RowsOK, Rows
<1>2. CASE NotConfigured(c)
  <2>1. call' \in [Callers -> Calls] /\ OthersWait(c) /\ Fitting(call'[c]) /\ call'[c].step = "idle"
    BY <1>2, <1>c, ReturnMoves DEF NotConfigured
  <2>. QED
    BY <1>2, <1>c, <2>1, CallType DEF NotConfigured, Unchanged, TypeOK, RowsOK, Rows
<1>3. CASE Apply(c)
  <2>1. call' \in [Callers -> Calls] /\ OthersWait(c) /\ Fitting(call'[c]) /\ call'[c].step = "idle"
    BY <1>3, <1>c, ReturnMoves DEF Apply
  <2>2. read[c] \in Tunnels /\ kernel' \in Tunnels
    BY <1>3, ConfiguredType DEF Apply, TypeOK
  <2>3. /\ read' \in [Callers -> Tunnels \cup {None}] /\ revoked' \subseteq Keys
        /\ \A d \in Callers \ {c} : read'[d] = read[d]
    BY <1>3 DEF Apply, TypeOK
  <2>. QED
    BY <1>3, <1>c, <2>1, <2>2, <2>3, CallType DEF Apply, Unchanged, TypeOK, RowsOK, Rows
<1>4. CASE ReadFails(c)
  <2>1. call' \in [Callers -> Calls] /\ OthersWait(c) /\ Fitting(call'[c]) /\ call'[c].step # "apply"
    BY <1>4, <1>c, FailMoves DEF ReadFails
  <2>. QED
    BY <1>4, <1>c, <2>1, CallType DEF ReadFails, Unchanged, TypeOK, RowsOK, Rows
<1>5. CASE ApplyRefused(c)
  <2>1. call' \in [Callers -> Calls] /\ OthersWait(c) /\ Fitting(call'[c]) /\ call'[c].step # "apply"
    BY <1>5, <1>c, FailMoves DEF ApplyRefused
  <2>2. kernel' \in Tunnels
    BY <1>5, ConfiguredType, PartlyType DEF ApplyRefused, TypeOK
  <2>3. /\ read' \in [Callers -> Tunnels \cup {None}]
        /\ \A d \in Callers \ {c} : read'[d] = read[d]
    BY <1>5 DEF ApplyRefused, TypeOK
  <2>. QED
    BY <1>5, <1>c, <2>1, <2>2, <2>3, CallType DEF ApplyRefused, Unchanged, TypeOK, RowsOK, Rows
<1>. QED
  BY <1>1, <1>2, <1>3, <1>4, <1>5 DEF Reconcile

-----------------------------------------------------------------------------
(* The requests: what each begins with and what each statement writes.     *)

\* Every request begins its write with rows of the right kind.
LEMMA RequestMoves ==
  ASSUME TypeOK, NEW c \in Admins, Request(c)
  PROVE  /\ call' \in [Callers -> Calls] /\ OthersWait(c) /\ Fitting(call'[c])
         /\ call'[c].step = "write" /\ call[c] = NoCall /\ process = "up" /\ minted' \subseteq Keys
         /\ raced' = (raced \/ \E d \in Admins \ {c} : call[d] # NoCall)
         /\ UNCHANGED <<server, peers, kernel, process, read, pending, missed, revoked>>
         /\ call'[c].does = "create" => call'[c].row.subnets \cap peerNetworks(call'[c].key) = {}
         /\ call'[c].does = "update" =>
              /\ call'[c].before = peers[call'[c].key] /\ call'[c].key \in Rows
              /\ \/ call'[c].row.subnets = peers[call'[c].key].subnets
                 \/ call'[c].row.subnets \cap peerNetworks(call'[c].key) = {}
<1>c. CallsOK /\ c \in Callers
  BY DEF TypeOK, CallsOK, Callers
<1>1. ASSUME NEW k \in Keys, NEW subnets \in SUBSET Subnets, NEW a \in Addresses, CreatePeer(c, k, subnets, a)
      PROVE  /\ call' \in [Callers -> Calls] /\ OthersWait(c) /\ Fitting(call'[c])
             /\ call'[c].step = "write" /\ call[c] = NoCall /\ process = "up" /\ minted' \subseteq Keys
             /\ raced' = (raced \/ \E d \in Admins \ {c} : call[d] # NoCall)
             /\ UNCHANGED <<server, peers, kernel, process, read, pending, missed, revoked>>
             /\ call'[c].does = "create" /\ call'[c].row.subnets \cap peerNetworks(call'[c].key) = {}
  <2> DEFINE row == [subnets |-> subnets, enabled |-> TRUE, address |-> a]
  <2>1. row \in PeerRows /\ row.subnets = subnets
    BY <1>1 DEF CreatePeer, ValidateAllowedIPs, PeerRows
  <2>2. Begin(c, "create", k, row, None) /\ minted' = minted \cup {k} /\ subnets \cap peerNetworks(k) = {}
    BY <1>1 DEF CreatePeer, ValidateAllowedIPs
  <2>. HIDE DEF row
  <2>3. /\ call' \in [Callers -> Calls] /\ OthersWait(c) /\ Fitting(call'[c])
        /\ call'[c].step = "write" /\ call'[c].does = "create" /\ call'[c].key = k /\ call'[c].row = row
        /\ call[c] = NoCall /\ process = "up"
        /\ raced' = (raced \/ \E d \in Admins \ {c} : call[d] # NoCall)
        /\ UNCHANGED <<server, peers, kernel, process, read, pending, missed, revoked>>
    BY <1>c, <2>1, <2>2, BeginMoves DEF AnyRow, Doings
  <2>. QED
    BY <2>1, <2>2, <2>3 DEF TypeOK
<1>2. ASSUME NEW k \in Keys, NEW subnets \in SUBSET Subnets, NEW enabled \in BOOLEAN,
             UpdatePeer(c, k, subnets, enabled)
      PROVE  /\ call' \in [Callers -> Calls] /\ OthersWait(c) /\ Fitting(call'[c])
             /\ call'[c].step = "write" /\ call[c] = NoCall /\ process = "up" /\ minted' \subseteq Keys
             /\ raced' = (raced \/ \E d \in Admins \ {c} : call[d] # NoCall)
             /\ UNCHANGED <<server, peers, kernel, process, read, pending, missed, revoked>>
             /\ call'[c].does = "update"
             /\ call'[c].before = peers[call'[c].key] /\ call'[c].key \in Rows
             /\ \/ call'[c].row.subnets = peers[call'[c].key].subnets
                \/ call'[c].row.subnets \cap peerNetworks(call'[c].key) = {}
  <2> DEFINE row == [[peers[k] EXCEPT !.subnets = subnets] EXCEPT !.enabled = enabled]
  <2>1. k \in Rows /\ peers[k] \in PeerRows
    BY <1>2 DEF UpdatePeer, Rows, TypeOK
  <2>2. subnets = peers[k].subnets \/ (subnets # {} /\ subnets \cap peerNetworks(k) = {})
    BY <1>2 DEF UpdatePeer, ValidateAllowedIPs
  <2>3. row \in PeerRows /\ row.subnets = subnets
    BY <2>1, <2>2 DEF PeerRows
  <2>4. Begin(c, "update", k, row, peers[k]) /\ UNCHANGED minted
    BY <1>2, <2>1 DEF UpdatePeer, PeerRows
  <2>. HIDE DEF row
  <2>5. /\ call' \in [Callers -> Calls] /\ OthersWait(c) /\ Fitting(call'[c])
        /\ call'[c].step = "write" /\ call'[c].does = "update" /\ call'[c].key = k
        /\ call'[c].row = row /\ call'[c].before = peers[k]
        /\ call[c] = NoCall /\ process = "up"
        /\ raced' = (raced \/ \E d \in Admins \ {c} : call[d] # NoCall)
        /\ UNCHANGED <<server, peers, kernel, process, read, pending, missed, revoked>>
    BY <1>c, <2>1, <2>3, <2>4, BeginMoves DEF AnyRow, Doings
  <2>. QED
    BY <2>1, <2>2, <2>3, <2>4, <2>5 DEF TypeOK
<1>3. ASSUME NEW does \in {"delete", "setup", "port"}, NEW k \in Keys \cup {None}, NEW row \in Ports \cup {None},
             NEW before \in Ports \cup {None}, Begin(c, does, k, row, before), UNCHANGED minted,
             does = "delete" => k \in Keys, does # "delete" => row \in Ports,
             does = "port" => before \in Ports
      PROVE  /\ call' \in [Callers -> Calls] /\ OthersWait(c) /\ Fitting(call'[c])
             /\ call'[c].step = "write" /\ call[c] = NoCall /\ process = "up" /\ minted' \subseteq Keys
             /\ raced' = (raced \/ \E d \in Admins \ {c} : call[d] # NoCall)
             /\ UNCHANGED <<server, peers, kernel, process, read, pending, missed, revoked>>
             /\ call'[c].does \notin {"create", "update"}
  <2>1. does \in Doings /\ row \in AnyRow /\ before \in AnyRow
    BY DEF Doings, AnyRow
  <2>2. /\ call' \in [Callers -> Calls] /\ OthersWait(c) /\ Fitting(call'[c])
        /\ call'[c].step = "write" /\ call'[c].does = does
        /\ call[c] = NoCall /\ process = "up"
        /\ raced' = (raced \/ \E d \in Admins \ {c} : call[d] # NoCall)
        /\ UNCHANGED <<server, peers, kernel, process, read, pending, missed, revoked>>
    BY <1>c, <1>3, <2>1, BeginMoves
  <2>. QED
    BY <1>3, <2>2 DEF TypeOK
<1>4. ASSUME NEW k \in Keys, DeletePeer(c, k)
      PROVE  Begin(c, "delete", k, None, None) /\ UNCHANGED minted
  BY <1>4 DEF DeletePeer
<1>5. CASE EnsureServer(c)
  <2>1. Begin(c, "setup", None, DefaultPort, None) /\ UNCHANGED minted
    BY <1>5 DEF EnsureServer
  <2>. QED
    BY <1>3, <2>1, ParametersAssumption
<1>6. ASSUME NEW port \in Ports, UpdateServer(c, port)
      PROVE  Begin(c, "port", None, port, server) /\ server \in Ports /\ UNCHANGED minted
  BY <1>6 DEF UpdateServer, TypeOK
<1>. QED
  BY <1>1, <1>2, <1>3, <1>4, <1>5, <1>6 DEF Request

LEMMA RequestType ==
  ASSUME TypeOK, NEW c \in Admins, Request(c)
  PROVE  TypeOK'
<1>1. /\ call' \in [Callers -> Calls] /\ OthersWait(c) /\ Fitting(call'[c])
      /\ call'[c].step = "write" /\ minted' \subseteq Keys
      /\ UNCHANGED <<server, peers, kernel, process, read, pending, missed, revoked>>
  BY RequestMoves
<1>. QED
  BY <1>1, CallType DEF Callers, TypeOK, RowsOK, Rows

\* A statement either went through and reconciles, or was refused and ends the call.
LEMMA WriteMoves ==
  ASSUME TypeOK, NEW c \in Admins, Write(c) \/ UndoFails(c)
  PROVE  /\ call' \in [Callers -> Calls] /\ OthersWait(c) /\ Fitting(call'[c])
         /\ call[c].step \in {"write", "undo"}
         /\ UNCHANGED <<kernel, process, read, pending, missed, minted, raced>>
         /\ server' \in Ports \cup {None} /\ RowsOK' /\ revoked' \subseteq Keys
         /\ \/ call'[c].step = "reconcile"
            \/ call'[c] = NoCall /\ call'[c].step = "idle" /\ UNCHANGED <<server, peers, revoked>>
<1>c. CallsOK /\ c \in Callers /\ RowsOK /\ Fitting(call[c]) /\ call[c] \in Calls
  BY DEF TypeOK, CallsOK, Callers, RowsOK
<1>s. "reconcile" \in Steps \ {"write"}
  BY DEF Steps
<1>1. CASE WritePeer(c)
  <2>1. call[c].key \in Keys /\ call[c].row \in PeerRows /\ Writes(c, "write")
    BY <1>1, <1>c DEF WritePeer, Writes, Fitting
  <2>2. CASE Fits(call[c].key, call[c].row)
    <3>1. Save(call[c].key, call[c].row) /\ To(c, "reconcile") /\ UNCHANGED server
      BY <1>1, <2>2 DEF WritePeer
    <3>2. RowsOK'
      BY <1>c, <2>1, <2>2, <3>1, SaveType
    <3>3. call' \in [Callers -> Calls] /\ OthersWait(c) /\ Fitting(call'[c]) /\ call'[c].step = "reconcile"
      BY <1>c, <1>s, <3>1, ToMoves
    <3>. QED
      BY <2>1, <3>1, <3>2, <3>3 DEF Writes, Save, TypeOK
  <2>3. CASE ~Fits(call[c].key, call[c].row)
    <3>1. Return(c) /\ UNCHANGED <<server, peers, revoked>>
      BY <1>1, <2>3 DEF WritePeer
    <3>. QED
      BY <1>c, <2>1, <3>1, ReturnMoves DEF Writes, TypeOK, RowsOK, Rows
  <2>. QED
    BY <2>2, <2>3
<1>2. CASE RemovePeer(c)
  <2>1. call[c].key \in Keys /\ Writes(c, "write") /\ To(c, "reconcile") /\ UNCHANGED <<server, revoked>>
        /\ peers' = [peers EXCEPT ![call[c].key] = None]
    BY <1>2, <1>c DEF RemovePeer, Writes, Fitting
  <2>2. RowsOK'
    BY <1>c, <2>1, ClearType
  <2>. QED
    BY <1>c, <1>s, <2>1, <2>2, ToMoves DEF Writes, TypeOK
<1>3. CASE WriteServer(c)
  <2>1. call[c].row \in Ports /\ Writes(c, "write") /\ UNCHANGED <<peers, revoked>> /\ RowsOK'
    BY <1>3, <1>c DEF WriteServer, Writes, Fitting, RowsOK, Rows
  <2>2. CASE call[c].does = "setup" /\ server # None
    BY <1>3, <1>c, <2>1, <2>2, ReturnMoves DEF WriteServer, Writes, TypeOK
  <2>3. CASE ~(call[c].does = "setup" /\ server # None)
    BY <1>3, <1>c, <1>s, <2>1, <2>3, ToMoves DEF WriteServer, Writes, TypeOK
  <2>. QED
    BY <2>2, <2>3
<1>4. CASE rollbackRejectedPeer(c)
  <2>1. call[c].key \in Keys /\ Writes(c, "undo") /\ Recover(c) /\ UNCHANGED <<server, revoked>>
        /\ peers' = [peers EXCEPT ![call[c].key] = None]
    BY <1>4, <1>c DEF rollbackRejectedPeer, Writes, Fitting
  <2>2. RowsOK'
    BY <1>c, <2>1, ClearType
  <2>. QED
    BY <1>c, <2>1, <2>2, RecoverMoves DEF Writes, TypeOK
<1>5. CASE restorePeer(c)
  <2>1. call[c].key \in Keys /\ call[c].before \in PeerRows /\ Writes(c, "undo")
    BY <1>5, <1>c DEF restorePeer, Writes, Fitting
  <2>2. CASE Fits(call[c].key, call[c].before)
    <3>1. Save(call[c].key, call[c].before) /\ Recover(c) /\ UNCHANGED server
      BY <1>5, <2>2 DEF restorePeer
    <3>2. RowsOK'
      BY <1>c, <2>1, <2>2, <3>1, SaveType
    <3>3. call' \in [Callers -> Calls] /\ OthersWait(c) /\ Fitting(call'[c]) /\ call'[c].step = "reconcile"
      BY <1>c, <3>1, RecoverMoves
    <3>. QED
      BY <2>1, <3>1, <3>2, <3>3 DEF Writes, Save, TypeOK
  <2>3. CASE ~Fits(call[c].key, call[c].before)
    <3>1. Return(c) /\ UNCHANGED <<server, peers, revoked>>
      BY <1>5, <2>3 DEF restorePeer
    <3>. QED
      BY <1>c, <2>1, <3>1, ReturnMoves DEF Writes, TypeOK, RowsOK, Rows
  <2>. QED
    BY <2>2, <2>3
<1>6. CASE restoreServer(c)
  <2>1. call[c].before \in Ports /\ Writes(c, "undo") /\ Recover(c) /\ server' = call[c].before
        /\ UNCHANGED <<peers, revoked>> /\ RowsOK'
    BY <1>6, <1>c DEF restoreServer, Writes, Fitting, RowsOK, Rows
  <2>. QED
    BY <1>c, <2>1, RecoverMoves DEF Writes, TypeOK
<1>7. CASE UndoFails(c)
  <2>1. Return(c) /\ call[c].step = "undo"
        /\ UNCHANGED <<server, peers, kernel, process, read, pending, missed, minted, revoked, raced>>
    BY <1>7 DEF UndoFails
  <2>. QED
    BY <1>c, <2>1, ReturnMoves DEF TypeOK, RowsOK, Rows
<1>. QED
  BY <1>1, <1>2, <1>3, <1>4, <1>5, <1>6, <1>7 DEF Write

LEMMA WriteType ==
  ASSUME TypeOK, NEW c \in Admins, Write(c) \/ UndoFails(c)
  PROVE  TypeOK'
<1>1. /\ call' \in [Callers -> Calls] /\ OthersWait(c) /\ Fitting(call'[c])
      /\ UNCHANGED <<kernel, process, read, pending, missed, minted>>
      /\ server' \in Ports \cup {None} /\ RowsOK' /\ revoked' \subseteq Keys
  BY WriteMoves
<1>2. call'[c].step # "apply"
  BY WriteMoves
<1>. QED
  BY <1>1, <1>2, CallType DEF Callers, TypeOK

LEMMA InitType == Init => TypeOK
<1>. SUFFICES ASSUME Init PROVE TypeOK
  OBVIOUS
<1>1. Bare \in Tunnels
  BY DEF Bare, Tunnels
<1>2. server \in Ports \cup {None} /\ minted \subseteq Keys
  BY ParametersAssumption DEF Init
<1>3. \A x, y \in Rows : peers[x].address = peers[y].address => x = y
  BY DEF Init, Rows
<1>4. call \in [Callers -> Calls] /\ \A c \in Callers : Fitting(call[c]) /\ call[c].step # "apply"
  BY NoCallFits DEF Init, NoCall
<1>. QED
  BY <1>1, <1>2, <1>3, <1>4 DEF Init, TypeOK

LEMMA NextType == TypeOK /\ [Next]_vars => TypeOK'
<1>. SUFFICES ASSUME TypeOK, [Next]_vars PROVE TypeOK'
  OBVIOUS
<1>1. CASE UNCHANGED vars
  BY <1>1 DEF vars, TypeOK, Rows
<1>. QED
  BY <1>1, ProcessType, ReconcileType, RequestType, WriteType DEF Next

(* The shape of the state; no two peers ever have one tunnel address.      *)
THEOREM TypeCorrect == Spec => []TypeOK
BY InitType, NextType, PTL DEF Spec

-----------------------------------------------------------------------------
(* The interface and the rows.  What is stale is being done again, or is   *)
(* known to be stale; one reconcile at a time has read rows in hand.       *)

OneApplies == \A c, d \in Callers : call[c].step = "apply" /\ call[d].step = "apply" => c = d
Redone == \E c \in Callers : call[c].step = "reconcile"
StaleIsRedone == \A c \in Callers : call[c].step = "apply" => Redone \/ read[c] = TunnelConfig
Told ==
  \/ process = "down" \/ InStep \/ pending \/ missed \/ Redone
  \/ \E c \in Callers : call[c].step = "apply" /\ read[c] = TunnelConfig
RevokedIsGone ==
  \A k \in revoked : /\ peers[k] = None /\ kernel.peers[k] = None
                     /\ \A c \in Callers : call[c].step = "apply" => read[c].peers[k] = None
DeviceInv == TypeOK /\ OneApplies /\ StaleIsRedone /\ Told /\ RevokedIsGone

-----------------------------------------------------------------------------
(* Of those who claim a subnet exactly one is the last of the list.        *)

Before == {ss \in Nat \X Nat : ss[1] < ss[2]}

LEMMA Least ==
  ASSUME NEW T \in SUBSET Nat, T # {}
  PROVE  \E n \in T : \A k \in T : n <= k
<1>1. Before = OpToRel(<, Nat)
  BY Zenon DEF Before, OpToRel
<1>2. IsWellFoundedOn(Before, Nat)
  BY <1>1, NatLessThanWellFounded, Zenon
<1>3. PICK n \in T : \A k \in T : <<k, n>> \notin Before
  BY <1>2, WFMin
<1>4. ASSUME NEW k \in T PROVE n <= k
  <2>1. k \in Nat /\ n \in Nat /\ <<k, n>> \notin Before
    BY <1>3
  <2>2. <<k, n>>[1] = k /\ <<k, n>>[2] = n /\ <<k, n>> \in Nat \X Nat
    BY <2>1
  <2>3. ~ (k < n)
    BY <2>1, <2>2 DEF Before
  <2>. QED
    BY <2>1, <2>3
<1>. QED
  BY <1>4

LEMMA OneIsLast ==
  ASSUME NEW last \in Listings, NEW S \in SUBSET Keys, S # {}
  PROVE  \E k \in S : {i \in S : \A j \in S : last[i] <= last[j]} = {k}
<1>1. /\ \A k \in Keys : last[k] \in Nat
      /\ \A i, j \in Keys : last[i] = last[j] => i = j
  BY ParametersAssumption, FS_CardinalityType DEF Listings, Injection, IsInjective
<1>2. {last[i] : i \in S} \in SUBSET Nat /\ {last[i] : i \in S} # {}
  BY <1>1
<1>p. PICK m \in {last[i] : i \in S} : \A n \in {last[i] : i \in S} : m <= n
  BY <1>2, Least
<1>3. PICK k \in S : \A j \in S : last[k] <= last[j]
  BY <1>p
<1>4. \A i \in S : (\A j \in S : last[i] <= last[j]) => i = k
  <2>. SUFFICES ASSUME NEW i \in S, \A j \in S : last[i] <= last[j]
                PROVE  i = k
    OBVIOUS
  <2>1. last[i] <= last[k] /\ last[k] <= last[i] /\ last[i] \in Nat /\ last[k] \in Nat
    BY <1>1, <1>3
  <2>2. last[i] = last[k]
    BY <2>1
  <2>. QED
    BY <1>1, <2>2
<1>. QED
  BY <1>3, <1>4

\* What the rows ask for, configured in whatever order, carries what they say.
LEMMA ConfiguredCarries ==
  ASSUME TypeOK, NEW last \in Listings
  PROVE  Carries(Configured(TunnelConfig, last))
<1> DEFINE asked == [k \in Keys |-> IF peers[k] # None /\ peers[k].enabled THEN peers[k].subnets ELSE None]
           held(k) == {n \in asked[k] : \A j \in Keys : asked[j] # None /\ n \in asked[j] => last[k] <= last[j]}
           given == [k \in Keys |-> IF asked[k] = None THEN None ELSE held(k)]
<1>1. /\ Enabled \subseteq Keys
      /\ \A k \in Keys : asked[k] # None <=> k \in Enabled
      /\ \A k \in Enabled : asked[k] = peers[k].subnets /\ asked[k] \in SUBSET Subnets
  BY ParametersAssumption DEF TypeOK, PeerRows, Enabled, Rows
<1>2. TunnelConfig = [port |-> server, peers |-> asked, routes |-> RoutesOf(asked)]
  BY DEF TunnelConfig
<1>4. RoutesOf(asked) = UNION {peers[k].subnets : k \in Enabled}
  BY <1>1 DEF RoutesOf
<1>. HIDE DEF asked
<1>3. Configured(TunnelConfig, last) = [port |-> server, peers |-> given, routes |-> RoutesOf(asked)]
  <2>1. TunnelConfig.peers = asked
    BY <1>2
  <2>2. Configured(TunnelConfig, last) = [TunnelConfig EXCEPT !.peers = given]
    BY <2>1, Zenon DEF Configured
  <2>. HIDE DEF given
  <2>. QED
    BY <1>2, <2>2
<1>5. \A k \in Enabled : given[k] = held(k) /\ held(k) \in SUBSET Subnets /\ held(k) \subseteq peers[k].subnets
  BY <1>1
<1>6. \A k \in Keys : given[k] # None <=> k \in Enabled
  BY <1>1, <1>5, ParametersAssumption
<1>7. ASSUME NEW n \in RoutesOf(asked)
      PROVE  \E k \in Enabled : {j \in Enabled : n \in given[j]} = {k}
  <2> DEFINE S == {k \in Enabled : n \in peers[k].subnets}
  <2>1. S \in SUBSET Keys /\ S # {} /\ S \subseteq Enabled
    BY <1>1, <1>4, <1>7
  <2>2. \A j \in Enabled : n \in given[j] <=> j \in S /\ \A i \in S : last[j] <= last[i]
    BY <1>1, <1>5
  <2>3. {j \in Enabled : n \in given[j]} = {j \in S : \A i \in S : last[j] <= last[i]}
    BY <2>1, <2>2
  <2>. HIDE DEF S
  <2>4. PICK k \in S : {j \in S : \A i \in S : last[j] <= last[i]} = {k}
    BY <2>1, OneIsLast
  <2>. QED
    BY <2>1, <2>3, <2>4
<1>8. \A k \in Enabled : given[k] \subseteq peers[k].subnets
  BY <1>5
<1>. HIDE DEF given
<1>9. /\ Configured(TunnelConfig, last).port = server
      /\ Configured(TunnelConfig, last).peers = given
      /\ Configured(TunnelConfig, last).routes = RoutesOf(asked)
  BY <1>3
<1>. QED
  BY <1>4, <1>6, <1>7, <1>8, <1>9, Zenon DEF Carries

\* Only a reconcile that has the lock sets out to apply.
LEMMA StillOneApplies ==
  ASSUME DeviceInv, NEW c \in Callers, OthersWait(c), call'[c].step # "apply"
  PROVE  OneApplies'
BY DEF DeviceInv, OneApplies, OthersWait

LEMMA StillGone ==
  ASSUME DeviceInv, NEW c \in Callers, OthersWait(c), call'[c].step # "apply",
         UNCHANGED read, UNCHANGED kernel, \A k \in revoked' : k \in revoked /\ peers'[k] = None
  PROVE  RevokedIsGone'
BY DEF DeviceInv, RevokedIsGone, OthersWait

\* A step that has the device reconciled may do anything to the rows.
LEMMA RedoneIsEnough ==
  ASSUME NEW c \in Callers, call'[c].step = "reconcile"
  PROVE  StaleIsRedone' /\ Told'
BY DEF StaleIsRedone, Told, Redone

\* A step of a call that was not reconciling leaves things as they were.
LEMMA IdleIsHarmless ==
  ASSUME DeviceInv, NEW c \in Callers, OthersWait(c), call[c].step \notin {"reconcile", "apply"},
         call'[c].step # "apply",
         UNCHANGED <<server, peers, kernel, process, read, pending, missed>>
  PROVE  StaleIsRedone' /\ Told'
<1>1. Redone => Redone'
  BY DEF Redone, OthersWait
<1>2. TunnelConfig' = TunnelConfig /\ (InStep => InStep')
  BY DEF TunnelConfig, InStep, Carries, Enabled, Rows
<1>3. \A d \in Callers : call'[d].step = "apply" => call[d].step = "apply" /\ read'[d] = read[d]
  BY DEF OthersWait
<1>4. \A d \in Callers : call[d].step = "apply" => call'[d].step = "apply"
  BY DEF OthersWait
<1>5. StaleIsRedone'
  BY <1>1, <1>2, <1>3 DEF DeviceInv, StaleIsRedone
<1>6. Told'
  BY <1>1, <1>2, <1>4 DEF DeviceInv, Told
<1>. QED
  BY <1>5, <1>6

LEMMA ProcessDevice ==
  ASSUME DeviceInv, Start \/ Serving \/ Crash \/ ReconcileIfPending
  PROVE  OneApplies' /\ StaleIsRedone' /\ Told' /\ RevokedIsGone'
<1>c. TypeOK /\ CallsOK /\ Service \in Callers
  BY DEF DeviceInv, TypeOK, CallsOK, Callers
<1>1. ASSUME NEW does \in {"start", "tick"}, UNCHANGED <<peers, kernel, read, revoked>>,
             call' = [call EXCEPT ![Service] = [NoCall EXCEPT !.does = does, !.step = "reconcile"]]
      PROVE  OneApplies' /\ StaleIsRedone' /\ Told' /\ RevokedIsGone'
  <2>1. OthersWait(Service) /\ call'[Service].step = "reconcile"
    BY <1>1, <1>c, ServiceMoves
  <2>2. OneApplies'
    BY <1>c, <2>1, StillOneApplies
  <2>3. RevokedIsGone'
    BY <1>1, <1>c, <2>1, StillGone DEF DeviceInv, RevokedIsGone
  <2>. QED
    BY <1>c, <2>1, <2>2, <2>3, RedoneIsEnough
<1>2. CASE Serving
  <2>1. UNCHANGED <<server, peers, kernel, read, pending, missed, call, revoked>> /\ process # "down"
    BY <1>2 DEF Serving
  <2>2. TunnelConfig' = TunnelConfig /\ (InStep <=> InStep') /\ (Redone <=> Redone')
    BY <2>1 DEF TunnelConfig, InStep, Carries, Enabled, Rows, Redone
  <2>3. Told'
    BY <2>1, <2>2 DEF DeviceInv, Told
  <2>4. StaleIsRedone'
    BY <2>1, <2>2 DEF DeviceInv, StaleIsRedone
  <2>. QED
    BY <2>1, <2>3, <2>4 DEF DeviceInv, OneApplies, RevokedIsGone
<1>3. CASE Crash
  <2>1. /\ process' = "down" /\ kernel' = Bare /\ UNCHANGED <<peers, revoked>>
        /\ \A c \in Callers : call'[c].step # "apply"
    BY <1>3 DEF Crash, NoCall
  <2>2. RevokedIsGone'
    BY <1>c, <2>1 DEF DeviceInv, RevokedIsGone, Bare, TypeOK
  <2>. QED
    BY <2>1, <2>2 DEF OneApplies, StaleIsRedone, Told
<1>. QED
  BY <1>1, <1>2, <1>3 DEF Start, ReconcileIfPending

LEMMA ReconcileDevice ==
  ASSUME DeviceInv, NEW c \in Callers, Reconcile(c) \/ ReadFails(c) \/ ApplyRefused(c)
  PROVE  OneApplies' /\ StaleIsRedone' /\ Told' /\ RevokedIsGone'
<1>c. TypeOK /\ CallsOK /\ UNCHANGED <<server, peers, process>>
  BY DEF DeviceInv, TypeOK, CallsOK, Reconcile, ReadRows, NotConfigured, Apply, ReadFails, ApplyRefused, Unchanged
<1>t. TunnelConfig' = TunnelConfig
  BY <1>c DEF TunnelConfig
\* Where nobody has rows in hand nor will have.
<1>n. ASSUME \A d \in Callers : call'[d].step # "apply"
      PROVE  OneApplies' /\ StaleIsRedone'
  BY <1>n DEF OneApplies, StaleIsRedone
<1>1. CASE ReadRows(c)
  <2>1. /\ \A d \in Callers : call[d].step # "apply"
        /\ read' = [read EXCEPT ![c] = TunnelConfig] /\ UNCHANGED <<kernel, revoked>>
    BY <1>1 DEF ReadRows, Lock
  <2>2. OthersWait(c) /\ call'[c].step = "apply" /\ read'[c] = TunnelConfig
    BY <1>1, <1>c, <2>1, ToMoves DEF ReadRows, Steps, TypeOK
  <2>3. OneApplies'
    BY <2>1, <2>2 DEF OneApplies, OthersWait
  <2>4. StaleIsRedone' /\ Told'
    BY <1>t, <2>1, <2>2 DEF StaleIsRedone, Told, OthersWait
  <2>5. \A k \in Keys : peers[k] = None => TunnelConfig.peers[k] = None
    BY DEF TunnelConfig
  <2>6. RevokedIsGone'
    BY <1>c, <2>1, <2>2, <2>5 DEF DeviceInv, RevokedIsGone, OthersWait, TypeOK
  <2>. QED
    BY <2>3, <2>4, <2>6
<1>2. CASE NotConfigured(c)
  <2>1. /\ \A d \in Callers : call[d].step # "apply"
        /\ server = None /\ UNCHANGED <<kernel, revoked>>
    BY <1>2 DEF NotConfigured, Lock
  <2>2. \A d \in Callers : call'[d].step # "apply"
    BY <1>2, <1>c, <2>1, ReturnMoves DEF NotConfigured, OthersWait
  <2>3. Told'
    BY <1>c, <2>1 DEF Told, InStep
  <2>4. RevokedIsGone'
    BY <1>c, <2>1, <2>2 DEF DeviceInv, RevokedIsGone
  <2>. QED
    BY <1>n, <2>2, <2>3, <2>4
<1>3. CASE Apply(c)
  <2>1. /\ call[c].step = "apply" /\ Return(c) /\ read[c] \in Tunnels
        /\ revoked' = revoked \cup {k \in Keys : call[c].does = "delete" /\ call[c].key = k
                                              /\ peers[k] = None /\ read[c].peers[k] = None}
    BY <1>3, <1>c DEF Apply, TypeOK
  <2>k. PICK last \in Listings : kernel' = Configured(read[c], last)
    BY <1>3 DEF Apply
  <2>2. OthersWait(c) /\ call'[c].step = "idle"
    BY <1>c, <2>1, ReturnMoves
  <2>3. \A d \in Callers : call'[d].step # "apply"
    BY <2>1, <2>2 DEF DeviceInv, OneApplies, OthersWait
  <2>4. Redone => Redone'
    BY <2>1, <2>2 DEF Redone, OthersWait
  <2>5. read[c] = TunnelConfig => InStep'
    <3>1. ASSUME read[c] = TunnelConfig PROVE Carries(kernel')
      BY <1>c, <2>k, <3>1, ConfiguredCarries
    <3>2. Carries(kernel') => Carries(kernel)'
      BY <1>c DEF Carries, Enabled, Rows
    <3>. QED
      BY <3>1, <3>2 DEF InStep
  <2>6. Told'
    BY <2>1, <2>4, <2>5 DEF DeviceInv, StaleIsRedone, Told
  <2>7. \A k \in Keys : read[c].peers[k] = None => kernel'.peers[k] = None
    BY <2>1, <2>k, ConfiguredType
  <2>8. RevokedIsGone'
    BY <1>c, <2>1, <2>3, <2>7 DEF DeviceInv, RevokedIsGone, TypeOK
  <2>. QED
    BY <1>n, <2>3, <2>6, <2>8
<1>4. CASE ReadFails(c)
  <2>1. /\ \A d \in Callers : call[d].step # "apply"
        /\ missed' = TRUE /\ UNCHANGED <<kernel, revoked>>
    BY <1>4 DEF ReadFails, Lock
  <2>2. OthersWait(c) /\ call'[c].step # "apply"
    BY <1>4, <1>c, FailMoves DEF ReadFails
  <2>3. \A d \in Callers : call'[d].step # "apply"
    BY <2>1, <2>2 DEF OthersWait
  <2>4. RevokedIsGone'
    BY <1>c, <2>1, <2>3 DEF DeviceInv, RevokedIsGone
  <2>. QED
    BY <1>n, <2>1, <2>3, <2>4 DEF Told
<1>5. CASE ApplyRefused(c)
  <2>1. call[c].step = "apply" /\ pending' = TRUE /\ UNCHANGED revoked
    BY <1>5 DEF ApplyRefused
  <2>2. OthersWait(c) /\ call'[c].step # "apply"
    BY <1>5, <1>c, FailMoves DEF ApplyRefused
  <2>3. \A d \in Callers : call'[d].step # "apply"
    BY <2>1, <2>2 DEF DeviceInv, OneApplies, OthersWait
  <2>4. PICK last \in Listings : kernel' \in Partly(kernel, Configured(read[c], last))
    BY <1>5 DEF ApplyRefused
  <2>5. /\ Configured(read[c], last) \in Tunnels
        /\ \A k \in Keys : Configured(read[c], last).peers[k] = None <=> read[c].peers[k] = None
    BY <1>c, <2>1, ConfiguredType DEF TypeOK
  <2>6. kernel'.peers = kernel.peers \/ kernel'.peers = Configured(read[c], last).peers
    BY <1>c, <2>4, <2>5, PartlyType DEF TypeOK
  <2>7. RevokedIsGone'
    BY <1>c, <2>1, <2>3, <2>5, <2>6 DEF DeviceInv, RevokedIsGone, TypeOK
  <2>. QED
    BY <1>n, <2>1, <2>3, <2>7 DEF Told
<1>. QED
  BY <1>1, <1>2, <1>3, <1>4, <1>5 DEF Reconcile

LEMMA RequestDevice ==
  ASSUME DeviceInv, NEW c \in Admins, Request(c)
  PROVE  OneApplies' /\ StaleIsRedone' /\ Told' /\ RevokedIsGone'
<1>c. TypeOK /\ c \in Callers
  BY DEF DeviceInv, Callers
<1>1. /\ OthersWait(c) /\ call'[c].step = "write" /\ call[c] = NoCall
      /\ UNCHANGED <<server, peers, kernel, process, read, pending, missed, revoked>>
  BY <1>c, RequestMoves
<1>2. call[c].step \notin {"reconcile", "apply"}
  BY <1>1 DEF NoCall
<1>3. \A k \in revoked' : k \in revoked /\ peers'[k] = None
  BY <1>1 DEF DeviceInv, RevokedIsGone
<1>. QED
  BY <1>c, <1>1, <1>2, <1>3, StillOneApplies, StillGone, IdleIsHarmless

\* A key that was revoked is written again by nobody but who takes it off the list.
LEMMA WriteRevokes ==
  ASSUME DeviceInv, NEW c \in Admins, Write(c) \/ UndoFails(c)
  PROVE  \A k \in revoked' : k \in revoked /\ peers'[k] = None
<1>t. peers \in [Keys -> PeerRows \cup {None}] /\ revoked \subseteq Keys
  BY DEF DeviceInv, TypeOK
<1>g. \A k \in revoked : peers[k] = None
  BY DEF DeviceInv, RevokedIsGone
<1>1. ASSUME NEW k \in Keys, NEW row, Save(k, row)
      PROVE  \A x \in revoked' : x \in revoked /\ peers'[x] = None
  BY <1>1, <1>t, <1>g DEF Save
<1>2. ASSUME NEW k \in Keys, peers' = [peers EXCEPT ![k] = None], UNCHANGED revoked
      PROVE  \A x \in revoked' : x \in revoked /\ peers'[x] = None
  BY <1>2, <1>t, <1>g
<1>3. ASSUME UNCHANGED <<peers, revoked>>
      PROVE  \A x \in revoked' : x \in revoked /\ peers'[x] = None
  BY <1>3, <1>g
<1>4. call[c].does \in {"create", "update", "delete"} => call[c].key \in Keys
  BY DEF DeviceInv, TypeOK, Fitting, Callers
<1>5. CASE WritePeer(c)
  BY <1>1, <1>3, <1>4, <1>5 DEF WritePeer
<1>6. CASE RemovePeer(c)
  BY <1>2, <1>4, <1>6 DEF RemovePeer
<1>7. CASE rollbackRejectedPeer(c)
  BY <1>2, <1>4, <1>7 DEF rollbackRejectedPeer
<1>8. CASE restorePeer(c)
  BY <1>1, <1>3, <1>4, <1>8 DEF restorePeer
<1>9. CASE WriteServer(c) \/ restoreServer(c) \/ UndoFails(c)
  BY <1>3, <1>9 DEF WriteServer, restoreServer, UndoFails
<1>. QED
  BY <1>5, <1>6, <1>7, <1>8, <1>9 DEF Write

LEMMA WriteDevice ==
  ASSUME DeviceInv, NEW c \in Admins, Write(c) \/ UndoFails(c)
  PROVE  OneApplies' /\ StaleIsRedone' /\ Told' /\ RevokedIsGone'
<1>c. TypeOK /\ c \in Callers
  BY DEF DeviceInv, Callers
<1>1. /\ OthersWait(c) /\ call[c].step \in {"write", "undo"}
      /\ UNCHANGED <<kernel, process, read, pending, missed>>
      /\ \/ call'[c].step = "reconcile"
         \/ call'[c].step = "idle" /\ UNCHANGED <<server, peers, revoked>>
  BY <1>c, WriteMoves
<1>2. OneApplies' /\ RevokedIsGone'
  BY <1>c, <1>1, WriteRevokes, StillOneApplies, StillGone
<1>3. CASE call'[c].step = "reconcile"
  BY <1>c, <1>2, <1>3, RedoneIsEnough
<1>4. CASE call'[c].step = "idle" /\ UNCHANGED <<server, peers, revoked>>
  BY <1>c, <1>1, <1>2, <1>4, IdleIsHarmless
<1>. QED
  BY <1>1, <1>3, <1>4

LEMMA DeviceInvariant == Spec => []DeviceInv
<1>1. Init => DeviceInv
  <2>. SUFFICES ASSUME Init PROVE DeviceInv
    OBVIOUS
  <2>1. revoked = {} /\ process = "down" /\ \A c \in Callers : call[c].step = "idle"
    BY DEF Init, NoCall
  <2>. QED
    BY <2>1, InitType DEF DeviceInv, OneApplies, StaleIsRedone, Told, RevokedIsGone
<1>2. DeviceInv /\ [Next]_vars => DeviceInv'
  <2>. SUFFICES ASSUME DeviceInv, [Next]_vars PROVE DeviceInv'
    OBVIOUS
  <2>1. TypeOK'
    BY NextType DEF DeviceInv
  <2>2. CASE UNCHANGED vars
    <3>1. TunnelConfig' = TunnelConfig
      BY <2>2 DEF vars, TunnelConfig
    <3>2. OneApplies' /\ StaleIsRedone' /\ RevokedIsGone'
      BY <2>2, <3>1 DEF vars, DeviceInv, OneApplies, StaleIsRedone, RevokedIsGone, Redone
    <3>3. Told'
      BY <2>2, <3>1 DEF vars, DeviceInv, Told, InStep, Carries, Enabled, Rows, Redone
    <3>. QED
      BY <2>1, <3>2, <3>3 DEF DeviceInv
  <2>3. CASE Next
    <3>1. OneApplies' /\ StaleIsRedone' /\ Told' /\ RevokedIsGone'
      BY <2>3, ProcessDevice, ReconcileDevice, RequestDevice, WriteDevice DEF Next
    <3>. QED
      BY <2>1, <3>1 DEF DeviceInv
  <2>. QED
    BY <2>2, <2>3
<1>. QED
  BY <1>1, <1>2, PTL DEF Spec

(* Kernel state cannot drift from what is stored, except through a read    *)
(* that failed: whatever interleaved, at rest the interface carries what   *)
(* the rows say, each subnet by exactly one of the peers that claim it, or *)
(* the ticker will reconcile it.                                           *)
THEOREM KernelCannotDrift == Spec => []KernelFollowsRows
<1>1. DeviceInv => KernelFollowsRows
  BY DEF DeviceInv, Told, Redone, KernelFollowsRows, AtRest, NoCall
<1>. QED
  BY <1>1, DeviceInvariant, PTL

(* No reconcile that read the rows before a deletion brings a key back     *)
(* after that deletion was answered.                                       *)
THEOREM RevocationHolds == Spec => []RevokedStaysRevoked
<1>1. DeviceInv => RevokedStaysRevoked
  BY DEF DeviceInv, RevokedIsGone, RevokedStaysRevoked
<1>. QED
  BY <1>1, DeviceInvariant, PTL

-----------------------------------------------------------------------------
(* The subnets.  As long as requests come one at a time, what a request    *)
(* read is still so when it writes, and when it takes its change back.     *)

Disjoint == \A x, y \in Rows : x # y => peers[x].subnets \cap peers[y].subnets = {}
Alone == \A c, d \in Admins : call[c] # NoCall /\ call[d] # NoCall => c = d
WriteFits(c) ==
  call[c].step = "write" /\ call[c].does \in {"create", "update"}
  => call[c].row.subnets \cap peerNetworks(call[c].key) = {}
UndoFits(c) ==
  call[c].does = "update" => call[c].before.subnets \cap peerNetworks(call[c].key) = {}
SubnetInv == TypeOK /\ (~raced => Disjoint /\ Alone /\ \A c \in Admins : WriteFits(c) /\ UndoFits(c))

\* What a peer's own row says is not in what the others claim.
LEMMA OwnNetworks ==
  ASSUME Disjoint, NEW k \in Rows
  PROVE  peers[k].subnets \cap peerNetworks(k) = {}
BY DEF Disjoint, peerNetworks, Rows

\* Writing one row changes nothing of what the other rows claim.
LEMMA SavedIsDisjoint ==
  ASSUME TypeOK, Disjoint, NEW k \in Keys, NEW row \in PeerRows,
         row.subnets \cap peerNetworks(k) = {}, peers' = [peers EXCEPT ![k] = row]
  PROVE  Disjoint' /\ peerNetworks(k)' = peerNetworks(k)
<1>1. peers'[k] = row /\ \A x \in Keys \ {k} : peers'[x] = peers[x]
  BY DEF TypeOK
<1>2. Rows' \ {k} = Rows \ {k}
  BY <1>1 DEF Rows
<1>3. peerNetworks(k)' = peerNetworks(k)
  BY <1>1, <1>2 DEF peerNetworks, Rows
<1>4. \A x \in Rows' \ {k} : peers'[x].subnets \cap row.subnets = {} /\ x \in Rows /\ peers'[x] = peers[x]
  BY <1>1, <1>2 DEF peerNetworks, Rows
<1>5. ASSUME NEW x \in Rows', NEW y \in Rows', x # y
      PROVE  peers'[x].subnets \cap peers'[y].subnets = {}
  <2>1. CASE x = k
    BY <1>1, <1>4, <1>5, <2>1
  <2>2. CASE y = k
    BY <1>1, <1>4, <1>5, <2>2
  <2>3. CASE x # k /\ y # k
    BY <1>4, <1>5, <2>3 DEF Disjoint
  <2>. QED
    BY <2>1, <2>2, <2>3
<1>. QED
  BY <1>3, <1>5 DEF Disjoint

LEMMA ClearedIsDisjoint ==
  ASSUME TypeOK, Disjoint, NEW k \in Keys, peers' = [peers EXCEPT ![k] = None]
  PROVE  Disjoint'
<1>1. \A x \in Rows' : x \in Rows /\ peers'[x] = peers[x]
  BY DEF TypeOK, Rows
<1>. QED
  BY <1>1 DEF Disjoint

\* A step of one call, with every other admin at rest.
LEMMA AloneStep ==
  ASSUME NEW c \in Admins, \A d \in Admins \ {c} : call'[d] = NoCall,
         Disjoint', WriteFits(c)', UndoFits(c)'
  PROVE  Disjoint' /\ Alone' /\ \A d \in Admins : WriteFits(d)' /\ UndoFits(d)'
<1>1. \A d \in Admins \ {c} : WriteFits(d)' /\ UndoFits(d)'
  BY DEF WriteFits, UndoFits, NoCall
<1>. QED
  BY <1>1 DEF Alone

LEMMA RequestSubnets ==
  ASSUME SubnetInv, NEW c \in Admins, Request(c)
  PROVE  ~raced' => Disjoint' /\ Alone' /\ \A d \in Admins : WriteFits(d)' /\ UndoFits(d)'
<1>. SUFFICES ASSUME ~raced'
              PROVE  Disjoint' /\ Alone' /\ \A d \in Admins : WriteFits(d)' /\ UndoFits(d)'
  OBVIOUS
<1>1. /\ OthersWait(c) /\ call'[c].step = "write" /\ UNCHANGED peers
      /\ raced' = (raced \/ \E d \in Admins \ {c} : call[d] # NoCall)
      /\ call'[c].does = "create" => call'[c].row.subnets \cap peerNetworks(call'[c].key) = {}
      /\ call'[c].does = "update" =>
           /\ call'[c].before = peers[call'[c].key] /\ call'[c].key \in Rows
           /\ \/ call'[c].row.subnets = peers[call'[c].key].subnets
              \/ call'[c].row.subnets \cap peerNetworks(call'[c].key) = {}
  BY RequestMoves DEF SubnetInv
<1>2. \A d \in Admins \ {c} : call'[d] = NoCall
  BY <1>1 DEF OthersWait, Callers
<1>3. Disjoint /\ Disjoint'
  BY <1>1 DEF SubnetInv, Disjoint, Rows
<1>4. \A k : peerNetworks(k)' = peerNetworks(k)
  BY <1>1 DEF peerNetworks, Rows
<1>5. call'[c].does = "update" =>
        peers[call'[c].key].subnets \cap peerNetworks(call'[c].key) = {}
  BY <1>1, <1>3, OwnNetworks
<1>6. UndoFits(c)'
  BY <1>1, <1>4, <1>5 DEF UndoFits
<1>7. WriteFits(c)'
  BY <1>1, <1>4, <1>5 DEF WriteFits
<1>. QED
  BY <1>2, <1>3, <1>6, <1>7, AloneStep

LEMMA WriteSubnets ==
  ASSUME SubnetInv, NEW c \in Admins, Write(c) \/ UndoFails(c)
  PROVE  ~raced' => Disjoint' /\ Alone' /\ \A d \in Admins : WriteFits(d)' /\ UndoFits(d)'
<1>. SUFFICES ASSUME ~raced'
              PROVE  Disjoint' /\ Alone' /\ \A d \in Admins : WriteFits(d)' /\ UndoFits(d)'
  OBVIOUS
<1>t. TypeOK /\ CallsOK /\ c \in Callers /\ Fitting(call[c])
  BY DEF SubnetInv, TypeOK, CallsOK, Callers
<1>1. OthersWait(c) /\ UNCHANGED raced /\ call[c].step \in {"write", "undo"}
  BY <1>t, WriteMoves
<1>2. Disjoint /\ Alone /\ WriteFits(c) /\ UndoFits(c)
  BY <1>1 DEF SubnetInv
<1>3. \A d \in Admins \ {c} : call'[d] = NoCall
  BY <1>1, <1>2 DEF Alone, OthersWait, NoCall, Callers
<1>s. "reconcile" \in Steps \ {"write"}
  BY DEF Steps
<1>4. ASSUME Disjoint', call'[c].step # "write", call'[c].does # "update"
      PROVE  Disjoint' /\ Alone' /\ \A d \in Admins : WriteFits(d)' /\ UndoFits(d)'
  BY <1>3, <1>4, AloneStep DEF WriteFits, UndoFits
<1>5. CASE UNCHANGED peers /\ call'[c].step # "write" /\ (call'[c].does # "update")
  BY <1>2, <1>4, <1>5 DEF Disjoint, Rows
<1>6. CASE WritePeer(c)
  <2>1. call[c].key \in Keys /\ call[c].row \in PeerRows
        /\ call[c].row.subnets \cap peerNetworks(call[c].key) = {}
    BY <1>2, <1>6, <1>t DEF WritePeer, Writes, Fitting, WriteFits
  <2>2. CASE Fits(call[c].key, call[c].row)
    <3>1. To(c, "reconcile") /\ peers' = [peers EXCEPT ![call[c].key] = call[c].row]
      BY <1>6, <2>2 DEF WritePeer, Save
    <3>2. PICK k \in Keys, row \in PeerRows : k = call[c].key /\ row = call[c].row
      BY <2>1
    <3>3. Disjoint' /\ peerNetworks(k)' = peerNetworks(k)
      BY <1>2, <1>t, <2>1, <3>1, <3>2, SavedIsDisjoint
    <3>4. /\ call'[c].step = "reconcile" /\ call'[c].does = call[c].does
          /\ call'[c].key = k /\ call'[c].before = call[c].before
      BY <1>s, <1>t, <3>1, <3>2, ToMoves
    <3>5. call[c].does = "update" => call[c].before.subnets \cap peerNetworks(k) = {}
      BY <1>2, <3>2 DEF UndoFits
    <3>6. UndoFits(c)' /\ WriteFits(c)'
      BY <3>3, <3>4, <3>5 DEF UndoFits, WriteFits
    <3>. QED
      BY <1>3, <3>3, <3>6, AloneStep
  <2>3. CASE ~Fits(call[c].key, call[c].row)
    <3>1. Return(c) /\ UNCHANGED peers
      BY <1>6, <2>3 DEF WritePeer
    <3>. QED
      BY <1>5, <1>t, <3>1, ReturnMoves
  <2>. QED
    BY <2>2, <2>3
<1>7. CASE RemovePeer(c)
  <2>1. call[c].key \in Keys /\ call[c].does = "delete" /\ To(c, "reconcile")
        /\ peers' = [peers EXCEPT ![call[c].key] = None]
    BY <1>7, <1>t DEF RemovePeer, Writes, Fitting
  <2>2. Disjoint'
    BY <1>2, <1>t, <2>1, ClearedIsDisjoint
  <2>3. call'[c].step = "reconcile" /\ call'[c].does = "delete"
    BY <1>s, <1>t, <2>1, ToMoves
  <2>. QED
    BY <1>4, <2>2, <2>3
<1>8. CASE WriteServer(c)
  <2>1. UNCHANGED peers /\ call[c].does \in {"setup", "port"} /\ (Return(c) \/ To(c, "reconcile"))
    BY <1>8 DEF WriteServer, Writes
  <2>2. call'[c].step # "write" /\ call'[c].does # "update"
    BY <1>s, <1>t, <2>1, ReturnMoves, ToMoves
  <2>. QED
    BY <1>5, <2>1, <2>2
<1>9. CASE rollbackRejectedPeer(c)
  <2>1. call[c].key \in Keys /\ Recover(c) /\ peers' = [peers EXCEPT ![call[c].key] = None]
    BY <1>9, <1>t DEF rollbackRejectedPeer, Writes, Fitting
  <2>2. Disjoint'
    BY <1>2, <1>t, <2>1, ClearedIsDisjoint
  <2>3. call'[c].step = "reconcile" /\ call'[c].does = "recover"
    BY <1>t, <2>1, RecoverMoves
  <2>. QED
    BY <1>4, <2>2, <2>3
<1>10. CASE restorePeer(c)
  <2>1. call[c].key \in Keys /\ call[c].before \in PeerRows
        /\ call[c].before.subnets \cap peerNetworks(call[c].key) = {}
    BY <1>2, <1>10, <1>t DEF restorePeer, Writes, Fitting, UndoFits
  <2>2. CASE Fits(call[c].key, call[c].before)
    <3>1. Recover(c) /\ peers' = [peers EXCEPT ![call[c].key] = call[c].before]
      BY <1>10, <2>2 DEF restorePeer, Save
    <3>2. Disjoint'
      BY <1>2, <1>t, <2>1, <3>1, SavedIsDisjoint
    <3>3. call'[c].step = "reconcile" /\ call'[c].does = "recover"
      BY <1>t, <3>1, RecoverMoves
    <3>. QED
      BY <1>4, <3>2, <3>3
  <2>3. CASE ~Fits(call[c].key, call[c].before)
    <3>1. Return(c) /\ UNCHANGED peers
      BY <1>10, <2>3 DEF restorePeer
    <3>. QED
      BY <1>5, <1>t, <3>1, ReturnMoves
  <2>. QED
    BY <2>2, <2>3
<1>11. CASE restoreServer(c)
  BY <1>5, <1>11, <1>t, RecoverMoves DEF restoreServer
<1>12. CASE UndoFails(c)
  BY <1>5, <1>12, <1>t, ReturnMoves DEF UndoFails
<1>. QED
  BY <1>6, <1>7, <1>8, <1>9, <1>10, <1>11, <1>12 DEF Write

\* A reconcile, and the process, write no rows and end calls at most.
LEMMA OtherSubnets ==
  ASSUME SubnetInv, UNCHANGED <<peers, raced>>, NEW d \in Admins,
         \/ call'[d] = call[d] \/ call'[d] = NoCall
         \/ /\ call[d] # NoCall /\ call'[d].step # "write" /\ call'[d].does = call[d].does
            /\ call'[d].key = call[d].key /\ call'[d].before = call[d].before
  PROVE  ~raced' => WriteFits(d)' /\ UndoFits(d)' /\ (call'[d] # NoCall => call[d] # NoCall)
<1>1. \A k : peerNetworks(k)' = peerNetworks(k)
  BY DEF peerNetworks, Rows
<1>2. CASE call'[d] = call[d]
  BY <1>1, <1>2 DEF SubnetInv, WriteFits, UndoFits
<1>3. CASE call'[d] = NoCall
  BY <1>3 DEF WriteFits, UndoFits, NoCall
<1>4. CASE /\ call[d] # NoCall /\ call'[d].step # "write" /\ call'[d].does = call[d].does
           /\ call'[d].key = call[d].key /\ call'[d].before = call[d].before
  BY <1>1, <1>4 DEF SubnetInv, WriteFits, UndoFits
<1>. QED
  BY <1>2, <1>3, <1>4

LEMMA ReconcileSubnets ==
  ASSUME SubnetInv,
         \/ Start \/ Serving \/ Crash \/ ReconcileIfPending
         \/ \E c \in Callers : Reconcile(c) \/ ReadFails(c) \/ ApplyRefused(c)
  PROVE  ~raced' => Disjoint' /\ Alone' /\ \A d \in Admins : WriteFits(d)' /\ UndoFits(d)'
<1>t. CallsOK /\ Service \in Callers /\ Service \notin Admins
  BY ParametersAssumption DEF SubnetInv, TypeOK, CallsOK, Callers
<1> DEFINE Ends(d) == \/ call'[d] = call[d] \/ call'[d] = NoCall
                      \/ /\ call[d] # NoCall /\ call'[d].step # "write" /\ call'[d].does = call[d].does
                         /\ call'[d].key = call[d].key /\ call'[d].before = call[d].before
<1>1. ASSUME NEW c \in Callers, Reconcile(c) \/ ReadFails(c) \/ ApplyRefused(c)
      PROVE  UNCHANGED <<peers, raced>> /\ \A d \in Admins : Ends(d)
  <2>1. UNCHANGED <<peers, raced>> /\ call[c].step # "idle"
    BY <1>1 DEF Reconcile, ReadRows, NotConfigured, Apply, ReadFails, ApplyRefused, Unchanged
  <2>2. call[c] # NoCall
    BY <2>1 DEF NoCall
  <2>3. To(c, "apply") \/ Return(c) \/ Fail(c)
    BY <1>1 DEF Reconcile, ReadRows, NotConfigured, Apply, ReadFails, ApplyRefused
  <2>4. To(c, "apply") \/ To(c, "undo") \/ Return(c)
    BY <2>3 DEF Fail
  <2>5. OthersWait(c) /\ Ends(c)
    <3>1. CASE To(c, "apply")
      BY <1>t, <2>2, <3>1, ToMoves DEF Steps
    <3>2. CASE To(c, "undo")
      BY <1>t, <2>2, <3>2, ToMoves DEF Steps
    <3>3. CASE Return(c)
      BY <1>t, <3>3, ReturnMoves
    <3>. QED
      BY <2>4, <3>1, <3>2, <3>3
  <2>. QED
    BY <2>1, <2>5 DEF OthersWait, Callers
<1>2. UNCHANGED <<peers, raced>> /\ \A d \in Admins : Ends(d)
  <2>1. CASE Start \/ Serving \/ Crash \/ ReconcileIfPending
    <3>1. UNCHANGED <<peers, raced>>
      BY <2>1 DEF Start, Serving, Crash, ReconcileIfPending
    <3>2. \A d \in Admins : call'[d] = call[d] \/ call'[d] = NoCall
      BY <2>1, <1>t DEF Start, Serving, Crash, ReconcileIfPending, CallsOK, Callers
    <3>. QED
      BY <3>1, <3>2
  <2>. QED
    BY <1>1, <2>1
<1>3. ~raced' => \A d \in Admins : WriteFits(d)' /\ UndoFits(d)' /\ (call'[d] # NoCall => call[d] # NoCall)
  BY <1>2, OtherSubnets
<1>4. ~raced' => Disjoint' /\ Alone
  BY <1>2 DEF SubnetInv, Disjoint, Rows
<1>. QED
  BY <1>3, <1>4 DEF Alone

(* Requests one at a time never give two peers one subnet: not a disabled  *)
(* one's, not a restored one's, for any number of peers and subnets.       *)
THEOREM SubnetsStayDisjoint == Spec => []SubnetsAreDisjoint
<1>1. Init => SubnetInv
  <2>. SUFFICES ASSUME Init PROVE SubnetInv
    OBVIOUS
  <2>1. Disjoint
    BY DEF Init, Disjoint, Rows
  <2>2. \A c \in Admins : call[c] = NoCall
    BY DEF Init, Callers
  <2>3. Alone /\ \A c \in Admins : WriteFits(c) /\ UndoFits(c)
    BY <2>2 DEF Alone, WriteFits, UndoFits, NoCall
  <2>. QED
    BY <2>1, <2>3, InitType DEF SubnetInv
<1>2. SubnetInv /\ [Next]_vars => SubnetInv'
  <2>. SUFFICES ASSUME SubnetInv, [Next]_vars PROVE SubnetInv'
    OBVIOUS
  <2>1. TypeOK'
    BY NextType DEF SubnetInv
  <2>2. CASE UNCHANGED vars
    <3>1. \A k : peerNetworks(k)' = peerNetworks(k)
      BY <2>2 DEF vars, peerNetworks, Rows
    <3>2. \A c \in Admins : (WriteFits(c) => WriteFits(c)') /\ (UndoFits(c) => UndoFits(c)')
      BY <2>2, <3>1 DEF vars, WriteFits, UndoFits
    <3>. QED
      BY <2>1, <2>2, <3>2 DEF vars, SubnetInv, Disjoint, Alone, Rows
  <2>3. CASE Next
    <3>1. ~raced' => Disjoint' /\ Alone' /\ \A d \in Admins : WriteFits(d)' /\ UndoFits(d)'
      BY <2>3, RequestSubnets, WriteSubnets, ReconcileSubnets DEF Next
    <3>. QED
      BY <2>1, <3>1 DEF SubnetInv
  <2>. QED
    BY <2>2, <2>3
<1>3. SubnetInv => SubnetsAreDisjoint
  BY DEF SubnetInv, Disjoint, SubnetsAreDisjoint
<1>. QED
  BY <1>1, <1>2, <1>3, PTL DEF Spec
=============================================================================
