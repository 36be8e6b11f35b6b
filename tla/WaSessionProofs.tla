-------------------------- MODULE WaSessionProofs --------------------------
(***************************************************************************)
(* Theorems about WaSession for any numbers, devices, clicks and troubles. *)
(***************************************************************************)
EXTENDS WaSession, TLAPS

Account == [there : {"no", "yes", "gone"}, status : Statuses, jid : BOOLEAN]
Event ==
  [kind : {"Connected", "PairSuccess", "PairError", "Disconnected", "StreamReplaced", "LoggedOut", "TemporaryBan"},
   live : BOOLEAN]
Message == [action : Actions, account : Accounts]
Click == [action : Actions, account : Accounts, step : {"mark", "publish"}, before : Statuses]
Rescan == [step : {"idle", "ensure"}, todo : SUBSET Accounts, list : [Accounts -> BOOLEAN \cup {None}]]

(* The shape of the state.                                                 *)
AccountOK == account \in [Accounts -> Account]
StoredOK == stored \in [Accounts -> SUBSET Devices]
SessionOK == session \in [Accounts -> Sessions \cup {None}]
EventsOK == events \in [Accounts -> Seq(Event)]
RestOK == process \in {"down", "starting", "up"} /\ rescan \in Rescan
Shape == AccountOK /\ StoredOK /\ SessionOK /\ EventsOK /\ RestOK

(* What is true of one number, its devices, its session and its events.    *)

\* An event of a live client belongs to the session that is there, and a
\* logout has deleted its device.
HeardBy(evs, s) ==
  \A i \in DOMAIN evs : evs[i].live => s # None /\ (evs[i].kind = "LoggedOut" => s.deleted)
\* A session is of a number that was made; one whose device was deleted has no
\* device, no socket and no code.
Sane(acc, st, s) ==
  s # None =>
    /\ acc.there # "no"
    /\ s.device # NoDevice => s.device \in st
    /\ s.socket = "online" => s.device # NoDevice
    /\ s.deleted => s.device = NoDevice /\ s.socket = "closed" /\ ~s.code
    /\ s.code => s.device = NoDevice
    /\ s.loggedOut => s.deleted
Quiet(evs) == \A i \in DOMAIN evs : ~(evs[i].live /\ evs[i].kind = "LoggedOut")
\* The number is gone, or its session was logged out by the control loop, which
\* nobody else has been told.
ClosingAt(acc, s, evs) == acc.there = "gone" \/ (s # None /\ s.deleted /\ ~s.loggedOut /\ Quiet(evs))

Good(a) == HeardBy(events[a], session[a]) /\ Sane(account[a], stored[a], session[a])
Gone(a) == account[a].there = "gone"
Closing(a) == ClosingAt(account[a], session[a], events[a])

\* What a rescan did not find is gone, or has no session and gets none from it.
Fresh ==
  rescan.step = "ensure" =>
    \A a \in Accounts :
      IF rescan.list[a] = None THEN a \notin rescan.todo /\ (Gone(a) \/ session[a] = None)
      ELSE account[a].there # "no"

(* What is on its way through the control loop.                            *)
ControlOK == control \in Seq(Message) /\ \A i \in DOMAIN control : control[i].action = "delete" => Gone(control[i].account)
AdminOK == admin # None => admin \in Click /\ (admin.action = "delete" => Gone(admin.account))
WorkingOK ==
  working # None =>
    /\ working \in Work
    /\ working.step = "delete" => Gone(working.account)
    /\ working.step \in Leaving => Closing(working.account)

World == Shape /\ (\A a \in Accounts : Good(a)) /\ Fresh
Jobs == ControlOK /\ AdminOK /\ WorkingOK
Inv == World /\ Jobs

\* No session is dropped.
SessionsStay == \A b \in Accounts : session[b] # None => session'[b] # None

-----------------------------------------------------------------------------
(* Facts about events and records.                                         *)

LEMMA Elements ==
  ASSUME NEW S, NEW s \in Seq(S)
  PROVE  Len(s) \in Nat /\ DOMAIN s = 1..Len(s) /\ \A i \in DOMAIN s : s[i] \in S
OBVIOUS

LEMMA Appended ==
  ASSUME NEW S, NEW s \in Seq(S), NEW e \in S
  PROVE  /\ Append(s, e) \in Seq(S)
         /\ \A i \in DOMAIN Append(s, e) : Append(s, e)[i] = e \/ (i \in DOMAIN s /\ Append(s, e)[i] = s[i])
OBVIOUS

LEMMA Dropped ==
  ASSUME NEW S, NEW s \in Seq(S), s # <<>>
  PROVE  /\ Head(s) \in S /\ Tail(s) \in Seq(S) /\ 1 \in DOMAIN s /\ Head(s) = s[1]
         /\ \A i \in DOMAIN Tail(s) : i + 1 \in DOMAIN s /\ Tail(s)[i] = s[i + 1]
OBVIOUS

LEMMA Muted ==
  ASSUME NEW evs \in Seq(Event), NEW s
  PROVE  LET m == [i \in DOMAIN evs |-> [evs[i] EXCEPT !.live = FALSE]]
         IN m \in Seq(Event) /\ HeardBy(m, s) /\ Quiet(m)
<1>. DEFINE m == [i \in DOMAIN evs |-> [evs[i] EXCEPT !.live = FALSE]]
<1>1. Len(evs) \in Nat /\ DOMAIN evs = 1..Len(evs) /\ \A i \in DOMAIN evs : evs[i] \in Event
  BY Elements
<1>2. \A i \in DOMAIN evs : [evs[i] EXCEPT !.live = FALSE] \in Event /\ [evs[i] EXCEPT !.live = FALSE].live = FALSE
  BY <1>1 DEF Event
<1>3. m \in Seq(Event)
  BY <1>1, <1>2
<1>4. \A i \in DOMAIN m : m[i].live = FALSE
  BY <1>2
<1>. QED
  BY <1>3, <1>4 DEF HeardBy, Quiet

\* One more event of a session that is there.
LEMMA RaiseHeard ==
  ASSUME EventsOK, NEW a \in Accounts, NEW s, NEW t, HeardBy(events[a], s), t # None, s.deleted => t.deleted,
         NEW kind, [kind |-> kind, live |-> TRUE] \in Event, kind = "LoggedOut" => t.deleted, Raise(a, kind)
  PROVE  /\ EventsOK' /\ \A b \in Accounts \ {a} : events'[b] = events[b]
         /\ HeardBy(events'[a], t) /\ (Quiet(events[a]) /\ kind # "LoggedOut" => Quiet(events'[a]))
<1>. DEFINE e == [kind |-> kind, live |-> TRUE]
<1>1. events[a] \in Seq(Event) /\ e.kind = kind
  BY DEF EventsOK
<1>2. events' = [events EXCEPT ![a] = Append(events[a], e)]
  BY DEF Raise
<1>. HIDE DEF e
<1>3. /\ Append(events[a], e) \in Seq(Event)
      /\ \A i \in DOMAIN Append(events[a], e) :
           \/ Append(events[a], e)[i] = e
           \/ i \in DOMAIN events[a] /\ Append(events[a], e)[i] = events[a][i]
  BY <1>1, Appended DEF e
<1>4. EventsOK' /\ events'[a] = Append(events[a], e) /\ \A b \in Accounts \ {a} : events'[b] = events[b]
  BY <1>2, <1>3 DEF EventsOK
<1>5. HeardBy(Append(events[a], e), t)
  BY <1>1, <1>3 DEF HeardBy
<1>6. Quiet(events[a]) /\ kind # "LoggedOut" => Quiet(Append(events[a], e))
  BY <1>1, <1>3 DEF Quiet
<1>. QED
  BY <1>4, <1>5, <1>6

\* An event is handled.
LEMMA HandledHeard ==
  ASSUME EventsOK, NEW a \in Accounts, events[a] # <<>>, Handled(a),
         NEW s, NEW t, HeardBy(events[a], s), t # None <=> s # None, s.deleted => t.deleted
  PROVE  /\ EventsOK' /\ \A b \in Accounts \ {a} : events'[b] = events[b]
         /\ HeardBy(events'[a], t) /\ (Quiet(events[a]) => Quiet(events'[a]))
         /\ Head(events[a]) = events[a][1] /\ 1 \in DOMAIN events[a]
<1>1. events[a] \in Seq(Event) /\ events' = [events EXCEPT ![a] = Tail(events[a])]
  BY DEF EventsOK, Handled
<1>2. /\ Tail(events[a]) \in Seq(Event) /\ Head(events[a]) = events[a][1] /\ 1 \in DOMAIN events[a]
      /\ \A i \in DOMAIN Tail(events[a]) : i + 1 \in DOMAIN events[a] /\ Tail(events[a])[i] = events[a][i + 1]
  BY <1>1, Dropped
<1>3. EventsOK' /\ events'[a] = Tail(events[a]) /\ \A b \in Accounts \ {a} : events'[b] = events[b]
  BY <1>1, <1>2 DEF EventsOK
<1>4. HeardBy(Tail(events[a]), t)
  BY <1>2 DEF HeardBy
<1>5. Quiet(events[a]) => Quiet(Tail(events[a]))
  BY <1>2 DEF Quiet
<1>. QED
  BY <1>2, <1>3, <1>4, <1>5

\* One statement that leaves alone whether the number is there.
SameThere == AccountOK' /\ \A b \in Accounts : account'[b].there = account[b].there

LEMMA SetStatusThere ==
  ASSUME AccountOK, NEW a \in Accounts, NEW s \in Statuses, SetStatus(a, s)
  PROVE  SameThere
<1>1. account[a] \in Account
  BY DEF AccountOK
<1>. DEFINE e == [account[a] EXCEPT !.status = s]
<1>2. e \in Account /\ e.there = account[a].there
  BY <1>1 DEF Account
<1>3. account' = account \/ account' = [account EXCEPT ![a] = e]
  BY DEF SetStatus
<1>. HIDE DEF e
<1>. QED
  BY <1>2, <1>3 DEF AccountOK, SameThere

LEMMA SetConnectedThere ==
  ASSUME AccountOK, NEW a \in Accounts, NEW live \in BOOLEAN, SetConnected(a, live)
  PROVE  SameThere
<1>1. account[a] \in Account
  BY DEF AccountOK
<1>. DEFINE e == [[account[a] EXCEPT !.status = "connected"] EXCEPT !.jid = account[a].jid \/ (live /\ Linked(a))]
<1>2. e \in Account /\ e.there = account[a].there
  BY <1>1 DEF Account, Statuses
<1>3. account' = account \/ account' = [account EXCEPT ![a] = e]
  BY DEF SetConnected
<1>. HIDE DEF e
<1>. QED
  BY <1>2, <1>3 DEF AccountOK, SameThere

LEMMA AccountRests == AccountOK /\ UNCHANGED account => SameThere
BY DEF AccountOK, SameThere, Account, Statuses

\* A session's record is replaced.
LEMMA SessionMoves ==
  ASSUME SessionOK, NEW a \in Accounts, NEW e \in Sessions, session' = [session EXCEPT ![a] = e]
  PROVE  SessionOK' /\ session'[a] = e /\ e # None /\ \A b \in Accounts \ {a} : session'[b] = session[b]
<1>1. SessionOK' /\ session'[a] = e /\ \A b \in Accounts \ {a} : session'[b] = session[b]
  BY DEF SessionOK, Sessions, Devices
<1>2. e # None
  BY ParametersAssumption
<1>. QED
  BY <1>1, <1>2

-----------------------------------------------------------------------------
(* What other steps leave alone.                                           *)

\* The loop's promises stay while no number comes back and no session that
\* closes is disturbed.
LEMMA JobsRest ==
  ASSUME Jobs, UNCHANGED <<control, admin>>,
         \A a \in Accounts : (Gone(a) => Gone(a)') /\ (Closing(a) => Closing(a)'),
         \/ UNCHANGED working
         \/ working # None /\ working' = [working EXCEPT !.live = FALSE]
         \/ working' = None
  PROVE  Jobs'
<1>1. ControlOK'
  <2>1. \A i \in DOMAIN control : control[i] \in Message
    BY Elements DEF Jobs, ControlOK
  <2>. QED
    BY <2>1 DEF Jobs, ControlOK, Message, Actions
<1>2. AdminOK'
  BY DEF Jobs, AdminOK, Click, Actions, Statuses
<1>3. WorkingOK'
  <2>1. CASE working' = None
    BY <2>1 DEF WorkingOK
  <2>2. CASE working # None /\ working' = working
    <3>1. working.account \in Accounts /\ working \in Work
      BY <2>2 DEF Jobs, WorkingOK, Work
    <3>. QED
      BY <2>2, <3>1 DEF Jobs, WorkingOK, Work, Actions, Leaving
  <2>3. CASE working # None /\ working' = [working EXCEPT !.live = FALSE]
    <3>1. working.account \in Accounts /\ working \in Work
      BY <2>3 DEF Jobs, WorkingOK, Work
    <3>2. working' \in Work /\ working'.account = working.account /\ working'.step = working.step
      BY <2>3, <3>1 DEF Work
    <3>3. working.step = "delete" => Gone(working.account)'
      BY <2>3, <3>1 DEF Jobs, WorkingOK
    <3>4. working.step \in Leaving => Closing(working.account)'
      BY <2>3, <3>1 DEF Jobs, WorkingOK
    <3>5. working' \in Work'
      BY <3>2 DEF Work, Actions, Leaving
    <3>. QED
      BY <3>2, <3>3, <3>4, <3>5 DEF WorkingOK, Gone, Closing
  <2>. QED
    BY <2>1, <2>2, <2>3
<1>. QED
  BY <1>1, <1>2, <1>3 DEF Jobs

\* A step of one number, whose session comes and goes in none of these.
LEMMA Local ==
  ASSUME World, NEW a \in Accounts, SameThere, StoredOK', SessionOK', EventsOK', UNCHANGED <<process, rescan>>,
         \A b \in Accounts \ {a} : session'[b] = session[b] /\ events'[b] = events[b] /\ stored'[b] = stored[b],
         session'[a] = None <=> session[a] = None,
         HeardBy(events'[a], session'[a]), Sane(account[a], stored'[a], session'[a]),
         Closing(a) => ClosingAt(account[a], session'[a], events'[a])
  PROVE  World' /\ \A b \in Accounts : (Gone(b) => Gone(b)') /\ (Closing(b) => Closing(b)')
<1>1. Shape'
  BY DEF World, Shape, RestOK, Rescan, SameThere
<1>2. \A b \in Accounts : Good(b)'
  <2>1. Good(a)'
    BY DEF SameThere, Good, Sane
  <2>2. ASSUME NEW b \in Accounts \ {a} PROVE Good(b)'
    BY DEF World, SameThere, Good, Sane
  <2>. QED
    BY <2>1, <2>2
<1>3. Fresh'
  BY DEF World, Fresh, Gone, SameThere
<1>4. ASSUME NEW b \in Accounts PROVE (Gone(b) => Gone(b)') /\ (Closing(b) => Closing(b)')
  <2>1. Gone(b) => Gone(b)'
    BY DEF Gone, SameThere
  <2>2. CASE b = a
    BY <2>1, <2>2 DEF Closing, ClosingAt, SameThere
  <2>3. CASE b # a
    BY <2>1, <2>3 DEF Closing, ClosingAt, SameThere
  <2>. QED
    BY <2>1, <2>2, <2>3
<1>. QED
  BY <1>1, <1>2, <1>3, <1>4 DEF World

\* Something happens to a session's client, and raises an event.
LEMMA Raising ==
  ASSUME Inv, NEW a \in Accounts, session[a] # None, NEW e \in Sessions, session' = [session EXCEPT ![a] = e],
         NEW kind, [kind |-> kind, live |-> TRUE] \in Event, Raise(a, kind),
         session[a].deleted => e.deleted, e.loggedOut = session[a].loggedOut,
         kind = "LoggedOut" => e.deleted /\ ~session[a].deleted,
         StoredOK', \A b \in Accounts \ {a} : stored'[b] = stored[b], Sane(account[a], stored'[a], e),
         UNCHANGED <<account, process, rescan, control, working, admin>>
  PROVE  Inv' /\ SessionsStay
<1>1. SessionOK' /\ session'[a] = e /\ e # None /\ \A b \in Accounts \ {a} : session'[b] = session[b]
  BY SessionMoves DEF Inv, World, Shape
<1>2. HeardBy(events[a], session[a]) /\ EventsOK
  BY DEF Inv, World, Shape, Good
<1>3. /\ EventsOK' /\ \A b \in Accounts \ {a} : events'[b] = events[b]
      /\ HeardBy(events'[a], e) /\ (Quiet(events[a]) /\ kind # "LoggedOut" => Quiet(events'[a]))
  BY <1>1, <1>2, RaiseHeard
<1>4. Closing(a) => ClosingAt(account[a], e, events'[a])
  BY <1>1, <1>3 DEF Closing, ClosingAt
<1>5. SameThere
  BY AccountRests DEF Inv, World, Shape
<1>6. World' /\ \A b \in Accounts : (Gone(b) => Gone(b)') /\ (Closing(b) => Closing(b)')
  BY <1>1, <1>3, <1>4, <1>5, Local DEF Inv
<1>. QED
  BY <1>1, <1>6, JobsRest DEF Inv, SessionsStay

\* What every session is.
LEMMA SessionIs ==
  ASSUME Inv, NEW a \in Accounts, session[a] # None
  PROVE  /\ session[a] \in Sessions /\ Sane(account[a], stored[a], session[a])
         /\ account[a] \in Account /\ stored[a] \in SUBSET Devices /\ StoredOK
BY DEF Inv, World, Shape, SessionOK, AccountOK, StoredOK, Good

LEMMA WhatsAppInv ==
  ASSUME Inv, NEW a \in Accounts,
         Authenticate(a) \/ ApproveFails(a) \/ Expire(a) \/ Drop(a) \/ Replace(a) \/ Ban(a)
  PROVE  Inv' /\ SessionsStay
<1>. DEFINE s == session[a]
<1>1. session[a] # None /\ UNCHANGED <<account, process, rescan, control, working, admin, stored>>
  BY DEF Authenticate, ApproveFails, Expire, Drop, Replace, Ban, WhatsApp
<1>2. s \in Sessions /\ Sane(account[a], stored[a], s) /\ StoredOK
  BY <1>1, SessionIs
<1>3. StoredOK' /\ \A b \in Accounts \ {a} : stored'[b] = stored[b]
  BY <1>1, <1>2 DEF StoredOK
<1>4. CASE Authenticate(a)
  <2>. DEFINE e == [[s EXCEPT !.socket = "online"] EXCEPT !.replaced = FALSE]
  <2>1. e \in Sessions /\ e.deleted = s.deleted /\ e.loggedOut = s.loggedOut /\ Sane(account[a], stored[a], e)
    BY <1>1, <1>2, <1>4 DEF Authenticate, Sessions, Sane, Linked
  <2>2. session' = [session EXCEPT ![a] = e] /\ Raise(a, "Connected")
    BY <1>4 DEF Authenticate
  <2>. HIDE DEF e
  <2>. QED
    BY <1>1, <1>3, <2>1, <2>2, Raising DEF Event
<1>5. CASE ApproveFails(a)
  <2>. DEFINE e == [s EXCEPT !.code = FALSE]
  <2>1. e \in Sessions /\ e.deleted = s.deleted /\ e.loggedOut = s.loggedOut /\ Sane(account[a], stored[a], e)
    BY <1>1, <1>2 DEF Sessions, Sane
  <2>2. session' = [session EXCEPT ![a] = e] /\ Raise(a, "PairError")
    BY <1>5 DEF ApproveFails
  <2>. HIDE DEF e
  <2>. QED
    BY <1>1, <1>3, <2>1, <2>2, Raising DEF Event
<1>6. CASE Expire(a)
  <2>. DEFINE e == [[s EXCEPT !.socket = "closed"] EXCEPT !.code = FALSE]
  <2>1. e \in Sessions /\ e.deleted = s.deleted /\ e.loggedOut = s.loggedOut /\ Sane(account[a], stored[a], e)
    BY <1>1, <1>2 DEF Sessions, Sane
  <2>2. session' = [session EXCEPT ![a] = e] /\ Raise(a, "Disconnected")
    BY <1>6 DEF Expire
  <2>. HIDE DEF e
  <2>. QED
    BY <1>1, <1>3, <2>1, <2>2, Raising DEF Event
<1>7. CASE Drop(a)
  <2>. DEFINE e == [s EXCEPT !.socket = "closed"]
  <2>1. e \in Sessions /\ e.deleted = s.deleted /\ e.loggedOut = s.loggedOut /\ Sane(account[a], stored[a], e)
    BY <1>1, <1>2 DEF Sessions, Sane
  <2>2. session' = [session EXCEPT ![a] = e] /\ Raise(a, "Disconnected")
    BY <1>7 DEF Drop
  <2>. HIDE DEF e
  <2>. QED
    BY <1>1, <1>3, <2>1, <2>2, Raising DEF Event
<1>8. CASE Replace(a)
  <2>. DEFINE e == [[s EXCEPT !.socket = "closed"] EXCEPT !.replaced = TRUE]
  <2>1. e \in Sessions /\ e.deleted = s.deleted /\ e.loggedOut = s.loggedOut /\ Sane(account[a], stored[a], e)
    BY <1>1, <1>2 DEF Sessions, Sane
  <2>2. session' = [session EXCEPT ![a] = e] /\ Raise(a, "StreamReplaced")
    BY <1>8 DEF Replace
  <2>. HIDE DEF e
  <2>. QED
    BY <1>1, <1>3, <2>1, <2>2, Raising DEF Event
<1>9. CASE Ban(a)
  <2>1. session' = [session EXCEPT ![a] = s] /\ Raise(a, "TemporaryBan")
    BY <1>9 DEF Ban, Inv, World, Shape, SessionOK
  <2>. QED
    BY <1>1, <1>2, <1>3, <2>1, Raising DEF Event
<1>. QED
  BY <1>4, <1>5, <1>6, <1>7, <1>8, <1>9

LEMMA ApproveInv ==
  ASSUME Inv, NEW a \in Accounts, Approve(a)
  PROVE  Inv' /\ SessionsStay
<1>. DEFINE s == session[a]
<1>1. session[a] # None /\ UNCHANGED <<account, process, rescan, control, working, admin>>
  BY DEF Approve, WhatsApp
<1>2. s \in Sessions /\ Sane(account[a], stored[a], s) /\ StoredOK /\ s.code
  BY <1>1, SessionIs DEF Approve
<1>. PICK d \in Devices \ stored[a] :
       /\ stored' = [stored EXCEPT ![a] = @ \cup {d}]
       /\ session' = [session EXCEPT ![a].device = d, ![a].code = FALSE]
  BY DEF Approve
<1>. DEFINE e == [[s EXCEPT !.device = d] EXCEPT !.code = FALSE]
<1>3. stored'[a] = stored[a] \cup {d} /\ StoredOK' /\ \A b \in Accounts \ {a} : stored'[b] = stored[b]
  BY <1>2 DEF StoredOK
<1>4. /\ e \in Sessions /\ e.deleted = s.deleted /\ e.loggedOut = s.loggedOut
      /\ e.device = d /\ ~e.code /\ e.socket = s.socket /\ ~s.deleted
  BY <1>1, <1>2 DEF Sessions, Sane
<1>5. Sane(account[a], stored'[a], e)
  <2>1. d # NoDevice
    BY ParametersAssumption DEF Devices, NoDevice
  <2>. QED
    BY <1>1, <1>2, <1>3, <1>4, <2>1 DEF Sane
<1>6. session' = [session EXCEPT ![a] = e] /\ Raise(a, "PairSuccess")
  BY DEF Approve
<1>. HIDE DEF e
<1>. QED
  BY <1>1, <1>3, <1>4, <1>5, <1>6, Raising DEF Event

\* The device is given up, by the phone or by the loop.
LEMMA ForgottenIs ==
  ASSUME Inv, NEW a \in Accounts, Linked(a), Forgotten(a)
  PROVE  /\ session[a] # None /\ ~session[a].deleted
         /\ StoredOK' /\ \A b \in Accounts \ {a} : stored'[b] = stored[b]
         /\ \E e \in Sessions : /\ session' = [session EXCEPT ![a] = e]
                                /\ e.deleted /\ ~e.loggedOut /\ ~session[a].loggedOut
                                /\ Sane(account[a], stored'[a], e)
<1>. DEFINE s == session[a]
            e == [[[s EXCEPT !.device = NoDevice] EXCEPT !.deleted = TRUE] EXCEPT !.socket = "closed"]
<1>1. session[a] # None /\ s.device # NoDevice
  BY DEF Linked
<1>2. s \in Sessions /\ Sane(account[a], stored[a], s) /\ StoredOK
  BY <1>1, SessionIs
<1>3. ~s.deleted /\ ~s.loggedOut /\ ~s.code
  BY <1>1, <1>2 DEF Sane, Sessions
<1>4. /\ e \in Sessions /\ e.deleted /\ e.loggedOut = s.loggedOut /\ e.device = NoDevice /\ e.socket = "closed"
      /\ e.code = s.code
  BY <1>2 DEF Sessions
<1>5. session' = [session EXCEPT ![a] = e] /\ stored' = [stored EXCEPT ![a] = @ \ {session[a].device}]
  BY DEF Forgotten
<1>. HIDE DEF e
<1>6. StoredOK' /\ \A b \in Accounts \ {a} : stored'[b] = stored[b]
  BY <1>2, <1>5 DEF StoredOK
<1>7. Sane(account[a], stored'[a], e)
  BY <1>1, <1>2, <1>3, <1>4 DEF Sane
<1>. QED
  BY <1>1, <1>3, <1>4, <1>5, <1>6, <1>7

LEMMA UnlinkInv ==
  ASSUME Inv, NEW a \in Accounts, Unlink(a)
  PROVE  Inv' /\ SessionsStay
<1>1. Linked(a) /\ Forgotten(a) /\ UNCHANGED <<account, process, rescan, control, working, admin>>
  BY DEF Unlink, WhatsApp
<1>2. PICK e \in Sessions : /\ session' = [session EXCEPT ![a] = e]
                            /\ e.deleted /\ ~e.loggedOut /\ ~session[a].loggedOut
                            /\ Sane(account[a], stored'[a], e)
  BY <1>1, ForgottenIs
<1>3. /\ session[a] # None /\ ~session[a].deleted
      /\ StoredOK' /\ \A b \in Accounts \ {a} : stored'[b] = stored[b]
  BY <1>1, ForgottenIs
<1>4. e.loggedOut = session[a].loggedOut
  BY <1>2, <1>3, SessionIs DEF Sessions
<1>5. Raise(a, "LoggedOut")
  BY DEF Unlink
<1>. QED
  BY <1>1, <1>2, <1>3, <1>4, <1>5, Raising DEF Event

-----------------------------------------------------------------------------
(* The client and its goroutines.                                          *)

LEMMA Signalled ==
  ASSUME Inv, NEW a \in Accounts, events[a] # <<>>, NEW which, Signals(a, which),
         "loggedOut" \in which => Head(events[a]).kind = "LoggedOut"
  PROVE  \/ UNCHANGED session
         \/ /\ session[a] # None /\ Head(events[a]).live
            /\ \E e \in Sessions :
                 /\ session' = [session EXCEPT ![a] = e] /\ e.deleted = session[a].deleted
                 /\ Sane(account[a], stored[a], e)
                 /\ Head(events[a]).kind = "LoggedOut" \/ e.loggedOut = session[a].loggedOut
<1>1. CASE ~Head(events[a]).live
  BY <1>1 DEF Signals
<1>2. CASE Head(events[a]).live
  <2>. DEFINE s == session[a]
              e == [[[s EXCEPT !.dropped = @ \/ "dropped" \in which]
                        EXCEPT !.paired = s.paired \/ "paired" \in which]
                        EXCEPT !.loggedOut = s.loggedOut \/ "loggedOut" \in which]
  <2>1. Head(events[a]) = events[a][1] /\ 1 \in DOMAIN events[a] /\ HeardBy(events[a], s)
    BY Dropped DEF Inv, World, Shape, EventsOK, Good
  <2>2. session[a] # None /\ (Head(events[a]).kind = "LoggedOut" => s.deleted)
    BY <1>2, <2>1 DEF HeardBy
  <2>3. s \in Sessions /\ Sane(account[a], stored[a], s)
    BY <2>2, SessionIs
  <2>4. /\ e \in Sessions /\ e.deleted = s.deleted /\ e.device = s.device /\ e.socket = s.socket
        /\ e.code = s.code /\ e.loggedOut = (s.loggedOut \/ "loggedOut" \in which)
    BY <2>3 DEF Sessions
  <2>5. session' = [session EXCEPT ![a] = e]
    BY <1>2 DEF Signals
  <2>. HIDE DEF e
  <2>6. Sane(account[a], stored[a], e)
    BY <2>2, <2>3, <2>4 DEF Sane
  <2>7. Head(events[a]).kind = "LoggedOut" \/ e.loggedOut = s.loggedOut
    BY <2>3, <2>4 DEF Sessions
  <2>. QED
    BY <1>2, <2>2, <2>4, <2>5, <2>6, <2>7
<1>. QED
  BY <1>1, <1>2

LEMMA HandleInv ==
  ASSUME Inv, NEW a \in Accounts, events[a] # <<>>, Handled(a), SameThere,
         \/ UNCHANGED session
         \/ /\ session[a] # None /\ Head(events[a]).live
            /\ \E e \in Sessions :
                 /\ session' = [session EXCEPT ![a] = e] /\ e.deleted = session[a].deleted
                 /\ Sane(account[a], stored[a], e)
                 /\ Head(events[a]).kind = "LoggedOut" \/ e.loggedOut = session[a].loggedOut
  PROVE  Inv' /\ SessionsStay
<1>1. EventsOK /\ HeardBy(events[a], session[a]) /\ Sane(account[a], stored[a], session[a])
  BY DEF Inv, World, Shape, Good
<1>2. UNCHANGED <<stored, process, rescan, control, working, admin>> /\ StoredOK' /\ SessionOK
  BY DEF Handled, Inv, World, Shape, StoredOK
<1>3. CASE UNCHANGED session
  <2>1. /\ EventsOK' /\ \A b \in Accounts \ {a} : events'[b] = events[b]
        /\ HeardBy(events'[a], session[a]) /\ (Quiet(events[a]) => Quiet(events'[a]))
    BY <1>1, HandledHeard
  <2>2. Closing(a) => ClosingAt(account[a], session'[a], events'[a])
    BY <1>3, <2>1 DEF Closing, ClosingAt
  <2>3. SessionOK'
    BY <1>2, <1>3 DEF SessionOK, Sessions, Devices
  <2>. QED
    BY <1>1, <1>2, <1>3, <2>1, <2>2, <2>3, Local, JobsRest DEF Inv, SessionsStay
<1>4. CASE ~UNCHANGED session
  <2>. PICK e \in Sessions :
         /\ session[a] # None /\ Head(events[a]).live
         /\ session' = [session EXCEPT ![a] = e] /\ e.deleted = session[a].deleted
         /\ Sane(account[a], stored[a], e)
         /\ Head(events[a]).kind = "LoggedOut" \/ e.loggedOut = session[a].loggedOut
    BY <1>4
  <2>1. SessionOK' /\ session'[a] = e /\ e # None /\ \A b \in Accounts \ {a} : session'[b] = session[b]
    BY <1>2, SessionMoves
  <2>2. /\ EventsOK' /\ \A b \in Accounts \ {a} : events'[b] = events[b]
        /\ HeardBy(events'[a], e) /\ (Quiet(events[a]) => Quiet(events'[a]))
        /\ Head(events[a]) = events[a][1] /\ 1 \in DOMAIN events[a]
    BY <1>1, <2>1, HandledHeard
  <2>3. Quiet(events[a]) => e.loggedOut = session[a].loggedOut
    BY <2>2 DEF Quiet
  <2>4. Closing(a) => ClosingAt(account[a], e, events'[a])
    BY <2>1, <2>2, <2>3 DEF Closing, ClosingAt
  <2>. QED
    BY <1>1, <1>2, <2>1, <2>2, <2>4, Local, JobsRest DEF Inv, SessionsStay
<1>. QED
  BY <1>3, <1>4

LEMMA routeSessionInv ==
  ASSUME Inv, NEW a \in Accounts, routeSession(a)
  PROVE  Inv' /\ SessionsStay
<1>1. events[a] # <<>> /\ Handled(a)
  BY DEF routeSession, PairSuccess, PairError, Connected, Disconnected, StreamReplaced, LoggedOut, TemporaryBan, Handle
<1>2. SameThere
  <2>1. AccountOK /\ events[a] \in Seq(Event)
    BY DEF Inv, World, Shape, EventsOK
  <2>2. Head(events[a]) \in Event
    BY <1>1, <2>1, Dropped
  <2>3. Head(events[a]).live \in BOOLEAN /\ "disconnected" \in Statuses /\ "banned" \in Statuses
    BY <2>2 DEF Event, Statuses
  <2>. QED
    BY <2>1, <2>3, SetStatusThere, SetConnectedThere, AccountRests
       DEF routeSession, PairSuccess, PairError, Connected, Disconnected, StreamReplaced, LoggedOut, TemporaryBan
<1>3. CASE LoggedOut(a)
  <2>1. Signals(a, {"loggedOut", "dropped"}) /\ Head(events[a]).kind = "LoggedOut"
    BY <1>3 DEF LoggedOut, Handle
  <2>. QED
    BY <1>1, <1>2, <2>1, Signalled, HandleInv
<1>4. CASE PairSuccess(a)
  <2>1. Signals(a, {"paired"}) /\ "loggedOut" \notin {"paired"}
    BY <1>4 DEF PairSuccess
  <2>. QED
    BY <1>1, <1>2, <2>1, Signalled, HandleInv
<1>5. CASE Disconnected(a)
  <2>1. Signals(a, {"dropped"}) /\ "loggedOut" \notin {"dropped"}
    BY <1>5 DEF Disconnected
  <2>. QED
    BY <1>1, <1>2, <2>1, Signalled, HandleInv
<1>6. CASE UNCHANGED session
  BY <1>1, <1>2, <1>6, HandleInv
<1>7. LoggedOut(a) \/ PairSuccess(a) \/ Disconnected(a) \/ UNCHANGED session
  BY DEF routeSession, PairError, Connected, StreamReplaced, TemporaryBan
<1>. QED
  BY <1>3, <1>4, <1>5, <1>6, <1>7

\* A step that changes a session and raises nothing.
LEMMA SessionOnly ==
  ASSUME World, NEW a \in Accounts, session[a] # None, NEW e \in Sessions, session' = [session EXCEPT ![a] = e],
         e.deleted = session[a].deleted, e.loggedOut = session[a].loggedOut, Sane(account[a], stored[a], e),
         SameThere, UNCHANGED <<stored, events, process, rescan>>
  PROVE  World' /\ SessionsStay /\ \A b \in Accounts : (Gone(b) => Gone(b)') /\ (Closing(b) => Closing(b)')
<1>1. SessionOK' /\ session'[a] = e /\ e # None /\ \A b \in Accounts \ {a} : session'[b] = session[b]
  BY SessionMoves DEF World, Shape
<1>2. StoredOK' /\ EventsOK'
  BY DEF World, Shape, StoredOK, EventsOK, Event
<1>3. HeardBy(events'[a], e)
  BY <1>1 DEF World, Good, HeardBy
<1>4. Closing(a) => ClosingAt(account[a], e, events'[a])
  BY <1>1 DEF Closing, ClosingAt
<1>. QED
  BY <1>1, <1>2, <1>3, <1>4, Local DEF SessionsStay

LEMMA superviseInv ==
  ASSUME Inv, NEW a \in Accounts, supervise(a)
  PROVE  Inv' /\ SessionsStay
<1>. DEFINE s == session[a]
<1>1. session[a] # None /\ UNCHANGED <<account, stored, process, events, rescan, control, working, admin>>
  BY DEF supervise, TakeDrop, reconnect, GiveUp, TakePaired, Supervisor
<1>2. s \in Sessions /\ Sane(account[a], stored[a], s) /\ SameThere
  BY <1>1, SessionIs, AccountRests DEF Inv, World, Shape
<1>3. \E e \in Sessions : /\ session' = [session EXCEPT ![a] = e]
                          /\ e.deleted = s.deleted /\ e.loggedOut = s.loggedOut /\ Sane(account[a], stored[a], e)
  <2>1. CASE TakeDrop(a)
    <3>. DEFINE e == [[s EXCEPT !.dropped = FALSE] EXCEPT !.sup = IF NeedsPairing(a) THEN "unpaired" ELSE "retrying"]
    <3>1. e \in Sessions /\ e.deleted = s.deleted /\ e.loggedOut = s.loggedOut /\ Sane(account[a], stored[a], e)
      BY <1>1, <1>2 DEF Sessions, Sane
    <3>2. session' = [session EXCEPT ![a] = e]
      BY <2>1 DEF TakeDrop
    <3>. QED
      BY <3>1, <3>2
  <2>2. CASE reconnect(a)
    <3>. DEFINE e == [[s EXCEPT !.sup = "waiting"] EXCEPT !.socket = IF s.socket = "closed" THEN "open" ELSE s.socket]
    <3>1. s.device # NoDevice
      BY <2>2 DEF reconnect, NeedsPairing
    <3>2. e \in Sessions /\ e.deleted = s.deleted /\ e.loggedOut = s.loggedOut /\ Sane(account[a], stored[a], e)
      BY <1>1, <1>2, <3>1 DEF Sessions, Sane
    <3>3. session' = [session EXCEPT ![a] = e]
      BY <2>2 DEF reconnect
    <3>. QED
      BY <3>2, <3>3
  <2>3. CASE GiveUp(a)
    <3>. DEFINE e == [s EXCEPT !.sup = "unpaired"]
    <3>1. e \in Sessions /\ e.deleted = s.deleted /\ e.loggedOut = s.loggedOut /\ Sane(account[a], stored[a], e)
      BY <1>1, <1>2 DEF Sessions, Sane
    <3>2. session' = [session EXCEPT ![a] = e]
      BY <2>3 DEF GiveUp
    <3>. QED
      BY <3>1, <3>2
  <2>4. CASE TakePaired(a)
    <3>. DEFINE e == [[s EXCEPT !.paired = FALSE] EXCEPT !.sup = "waiting"]
    <3>1. e \in Sessions /\ e.deleted = s.deleted /\ e.loggedOut = s.loggedOut /\ Sane(account[a], stored[a], e)
      BY <1>1, <1>2 DEF Sessions, Sane
    <3>2. session' = [session EXCEPT ![a] = e]
      BY <2>4 DEF TakePaired
    <3>. QED
      BY <3>1, <3>2
  <2>. QED
    BY <2>1, <2>2, <2>3, <2>4 DEF supervise
<1>. QED
  BY <1>1, <1>2, <1>3, SessionOnly, JobsRest DEF Inv

\* A session that may go is dropped: it is logged out, or its number is gone.
LEMMA RestartWorld ==
  ASSUME World, NEW a \in Accounts, Restart(a), UNCHANGED <<account, stored, process, rescan>>
  PROVE  /\ World' /\ session'[a] = None /\ \A b \in Accounts \ {a} : session'[b] = session[b]
         /\ \A b \in Accounts : (Gone(b) => Gone(b)') /\ (b # a \/ Gone(b) => (Closing(b) => Closing(b)'))
<1>1. events[a] \in Seq(Event) /\ EventsOK /\ SessionOK
  BY DEF World, Shape, EventsOK
<1>. DEFINE m == [i \in DOMAIN events[a] |-> [events[a][i] EXCEPT !.live = FALSE]]
<1>2. m \in Seq(Event) /\ HeardBy(m, None)
  BY <1>1, Muted
<1>3. events' = [events EXCEPT ![a] = m] /\ session' = [session EXCEPT ![a] = None]
  BY DEF Restart
<1>. HIDE DEF m
<1>4. /\ EventsOK' /\ events'[a] = m /\ \A b \in Accounts \ {a} : events'[b] = events[b]
      /\ SessionOK' /\ session'[a] = None /\ \A b \in Accounts \ {a} : session'[b] = session[b]
  BY <1>1, <1>2, <1>3 DEF EventsOK, SessionOK
<1>5. Shape'
  BY <1>4 DEF World, Shape, AccountOK, StoredOK, RestOK, Account, Statuses, Rescan
<1>6. \A b \in Accounts : Good(b)'
  <2>1. Good(a)'
    BY <1>2, <1>4 DEF Good, Sane
  <2>2. ASSUME NEW b \in Accounts \ {a} PROVE Good(b)'
    BY <1>4 DEF World, Good
  <2>. QED
    BY <2>1, <2>2
<1>7. Fresh'
  BY <1>4 DEF World, Fresh, Gone
<1>8. \A b \in Accounts : (Gone(b) => Gone(b)') /\ (b # a \/ Gone(b) => (Closing(b) => Closing(b)'))
  BY <1>4 DEF Gone, Closing, ClosingAt
<1>. QED
  BY <1>4, <1>5, <1>6, <1>7, <1>8 DEF World

LEMMA watchForLogoutInv ==
  ASSUME Inv, NEW a \in Accounts, watchForLogout(a)
  PROVE  Inv' /\ session[a].deleted /\ \A b \in Accounts \ {a} : session'[b] = session[b]
<1>1. session[a] # None /\ session[a].loggedOut /\ Restart(a) /\ UNCHANGED <<account, stored, process, rescan, control, admin>>
  BY DEF watchForLogout
<1>2. session[a].deleted
  BY <1>1, SessionIs DEF Sane
<1>3. /\ World' /\ \A b \in Accounts \ {a} : session'[b] = session[b]
      /\ \A b \in Accounts : (Gone(b) => Gone(b)') /\ (b # a \/ Gone(b) => (Closing(b) => Closing(b)'))
  BY <1>1, RestartWorld DEF Inv
<1>4. Closing(a) => Gone(a)
  BY <1>1 DEF Closing, ClosingAt, Gone
<1>5. working' = working \/ (working # None /\ working' = [working EXCEPT !.live = FALSE])
  BY DEF watchForLogout, Orphan
<1>6. \A b \in Accounts : (Gone(b) => Gone(b)') /\ (Closing(b) => Closing(b)')
  BY <1>3, <1>4
<1>. QED
  BY <1>1, <1>2, <1>3, <1>5, <1>6, JobsRest DEF Inv

-----------------------------------------------------------------------------
(* The control loop.                                                       *)

\* A message moves on, while what its step promises holds.
LEMMA StepsOn ==
  ASSUME Jobs, UNCHANGED <<control, admin>>, NEW b \in Accounts, working # None, working.account = b,
         \A a \in Accounts : (Gone(a) => Gone(a)') /\ (Closing(a) => Closing(a)'),
         NEW step \in {"open", "announce", "nudge", "ask"} \cup Leaving, NextStep(step),
         step \in Leaving => Closing(b)'
  PROVE  Jobs'
<1>1. ControlOK' /\ AdminOK'
  <2>1. Jobs /\ UNCHANGED <<control, admin>>
    OBVIOUS
  <2>2. \A i \in DOMAIN control : control[i] \in Message
    BY Elements DEF Jobs, ControlOK
  <2>3. ControlOK'
    BY <2>2 DEF Jobs, ControlOK, Message, Actions
  <2>4. AdminOK'
    BY DEF Jobs, AdminOK, Click, Actions, Statuses
  <2>. QED
    BY <2>3, <2>4
<1>2. working \in Work /\ working' = [working EXCEPT !.step = step]
  BY DEF Jobs, WorkingOK, NextStep
<1>3. working' \in Work /\ working'.account = working.account /\ working'.step = step /\ step # "delete"
  BY <1>2 DEF Work, Leaving
<1>4. WorkingOK'
  <2>1. working' \in Work'
    BY <1>3 DEF Work, Actions, Leaving
  <2>2. step \in Leaving => Closing(working.account)'
    BY <1>3 DEF Closing
  <2>. QED
    BY <1>3, <2>1, <2>2 DEF WorkingOK, Leaving
<1>. QED
  BY <1>1, <1>4 DEF Jobs

\* Nothing but the row, the loop's message and the admin's request moves.
LEMMA RowOnly ==
  ASSUME World, SameThere, UNCHANGED <<stored, session, events, process, rescan>>
  PROVE  World' /\ \A b \in Accounts : (Gone(b) => Gone(b)') /\ (Closing(b) => Closing(b)')
<1>1. Shape'
  BY DEF World, Shape, StoredOK, SessionOK, EventsOK, RestOK, Sessions, Devices, Event, Rescan, SameThere
<1>2. \A b \in Accounts : Good(b)'
  BY DEF World, SameThere, Good, Sane, HeardBy
<1>3. Fresh'
  BY DEF World, Fresh, Gone, SameThere
<1>4. \A b \in Accounts : (Gone(b) => Gone(b)') /\ (Closing(b) => Closing(b)')
  BY DEF Gone, Closing, ClosingAt, SameThere, Quiet
<1>. QED
  BY <1>1, <1>2, <1>3, <1>4 DEF World

\* What is under way when a step of the loop is taken.
LEMMA AtIs ==
  ASSUME Inv, NEW a \in Accounts, NEW step, At(a, step)
  PROVE  /\ working \in Work /\ working # None /\ working.account = a /\ working.step = step
         /\ UNCHANGED <<process, rescan, control, admin>>
         /\ (step = "delete" => Gone(a)) /\ (step \in Leaving => Closing(a))
BY DEF At, Inv, Jobs, WorkingOK

\* The steps that write at most the row and end, or move to a step that
\* promises nothing.
LEMMA RowStepsInv ==
  ASSUME Inv, NEW a \in Accounts, Pair(a) \/ Announce(a) \/ PairFails(a) \/ UnpairFails(a)
  PROVE  Inv' /\ UNCHANGED session
<1>1. \E step : At(a, step)
  BY DEF Pair, Announce, PairFails, UnpairFails
<1>2. working \in Work /\ working # None /\ UNCHANGED <<process, rescan, control, admin>>
  BY <1>1, AtIs
<1>b. working.account = a
  BY <1>1, AtIs
<1>3. UNCHANGED <<stored, session, events>>
  BY DEF Pair, Announce, PairFails, UnpairFails
<1>4. SameThere
  <2>1. AccountOK /\ "disconnected" \in Statuses
    BY DEF Inv, World, Shape, Statuses
  <2>2. Alive(a) \in BOOLEAN
    BY <1>2 DEF Alive, Work
  <2>. QED
    BY <2>1, <2>2, SetStatusThere, SetConnectedThere, AccountRests DEF Pair, Announce, PairFails, UnpairFails
<1>5. World' /\ \A b \in Accounts : (Gone(b) => Gone(b)') /\ (Closing(b) => Closing(b)')
  BY <1>2, <1>3, <1>4, RowOnly DEF Inv
<1>6. CASE Pair(a)
  <2>1. \E step \in {"open", "announce", "nudge"} : NextStep(step)
    BY <1>6 DEF Pair
  <2>. QED
    BY <1>2, <1>b, <1>3, <1>5, <2>1, StepsOn DEF Inv, Leaving
<1>7. CASE ~Pair(a)
  <2>1. working' = None
    BY <1>7 DEF Announce, PairFails, UnpairFails
  <2>. QED
    BY <1>2, <1>3, <1>5, <2>1, JobsRest DEF Inv
<1>. QED
  BY <1>6, <1>7

\* The steps of an unpairing that has worked.
LEMMA LeavingInv ==
  ASSUME Inv, NEW a \in Accounts, Record(a) \/ ClearNumber(a)
  PROVE  Inv' /\ UNCHANGED session
<1>1. At(a, "record") \/ At(a, "clear")
  BY DEF Record, ClearNumber
<1>2. working # None /\ working.account = a /\ UNCHANGED <<process, rescan, control, admin>> /\ Closing(a)
  BY <1>1, AtIs DEF Leaving
<1>3. UNCHANGED <<stored, session, events>> /\ \E step \in Leaving : NextStep(step)
  BY DEF Record, ClearNumber, Leaving
<1>4. SameThere
  <2>1. AccountOK /\ "disconnected" \in Statuses /\ account[a] \in Account
    BY DEF Inv, World, Shape, Statuses, AccountOK
  <2>2. CASE Record(a)
    BY <2>1, <2>2, SetStatusThere DEF Record
  <2>3. CASE ClearNumber(a)
    <3>. DEFINE e == [account[a] EXCEPT !.jid = FALSE]
    <3>1. e \in Account /\ e.there = account[a].there
      BY <2>1 DEF Account
    <3>2. account' = [account EXCEPT ![a] = e]
      BY <2>3 DEF ClearNumber
    <3>. HIDE DEF e
    <3>. QED
      BY <2>1, <3>1, <3>2 DEF AccountOK, SameThere
  <2>. QED
    BY <2>2, <2>3
<1>5. World' /\ \A b \in Accounts : (Gone(b) => Gone(b)') /\ (Closing(b) => Closing(b)')
  BY <1>2, <1>3, <1>4, RowOnly DEF Inv
<1>6. Closing(a)'
  BY <1>2, <1>5
<1>7. Jobs'
  BY <1>2, <1>3, <1>5, <1>6, StepsOn DEF Inv, Leaving
<1>. QED
  BY <1>3, <1>5, <1>7 DEF Inv

\* The steps that change the session and keep it.
LEMMA PairingStepsInv ==
  ASSUME Inv, NEW a \in Accounts, Nudge(a) \/ OpenToPair(a) \/ PairPhone(a)
  PROVE  Inv' /\ SessionsStay
<1>. DEFINE s == session[a]
<1>1. \E step : At(a, step)
  BY DEF Nudge, OpenToPair, PairPhone
<1>2. /\ working \in Work /\ working # None /\ working.account = a /\ UNCHANGED <<process, rescan, control, admin>>
      /\ UNCHANGED <<stored, events>>
  BY <1>1, AtIs DEF Nudge, OpenToPair, PairPhone
<1>3. SameThere
  <2>1. AccountOK /\ "disconnected" \in Statuses
    BY DEF Inv, World, Shape, Statuses
  <2>. QED
    BY <2>1, SetStatusThere, AccountRests DEF Nudge, OpenToPair, PairPhone
<1>4. \/ UNCHANGED session
      \/ s # None /\ \E e \in Sessions : /\ session' = [session EXCEPT ![a] = e]
                          /\ e.deleted = s.deleted /\ e.loggedOut = s.loggedOut /\ Sane(account[a], stored[a], e)
  <2>1. CASE s = None
    BY <2>1 DEF Nudge, OpenToPair, PairPhone, Alive
  <2>2. CASE s # None
    <3>1. s \in Sessions /\ Sane(account[a], stored[a], s)
      BY <2>2, SessionIs
    <3>2. CASE Nudge(a)
      <4>. DEFINE e == [s EXCEPT !.dropped = TRUE]
      <4>1. e \in Sessions /\ e.deleted = s.deleted /\ e.loggedOut = s.loggedOut /\ Sane(account[a], stored[a], e)
        BY <2>2, <3>1 DEF Sessions, Sane
      <4>2. UNCHANGED session \/ session' = [session EXCEPT ![a] = e]
        BY <3>2 DEF Nudge
      <4>. QED
        BY <2>2, <4>1, <4>2
    <3>3. CASE OpenToPair(a)
      <4>. DEFINE e == [s EXCEPT !.socket = IF s.socket = "closed" THEN "open" ELSE s.socket]
      <4>1. ~s.deleted
        BY <3>3 DEF OpenToPair
      <4>2. e \in Sessions /\ e.deleted = s.deleted /\ e.loggedOut = s.loggedOut /\ Sane(account[a], stored[a], e)
        BY <2>2, <3>1, <4>1 DEF Sessions, Sane
      <4>3. session' = [session EXCEPT ![a] = e]
        BY <3>3 DEF OpenToPair
      <4>. QED
        BY <2>2, <4>2, <4>3
    <3>4. CASE PairPhone(a)
      <4>. DEFINE e == [s EXCEPT !.code = TRUE]
      <4>1. s.device = NoDevice /\ s.socket # "closed"
        BY <3>4 DEF PairPhone, NeedsPairing, IsConnected
      <4>2. e \in Sessions /\ e.deleted = s.deleted /\ e.loggedOut = s.loggedOut /\ Sane(account[a], stored[a], e)
        BY <2>2, <3>1, <4>1 DEF Sessions, Sane
      <4>3. session' = [session EXCEPT ![a] = e]
        BY <3>4 DEF PairPhone
      <4>. QED
        BY <2>2, <4>2, <4>3
    <3>. QED
      BY <3>2, <3>3, <3>4
  <2>. QED
    BY <2>1, <2>2
<1>5. World' /\ \A b \in Accounts : (Gone(b) => Gone(b)') /\ (Closing(b) => Closing(b)')
  <2>1. CASE UNCHANGED session
    BY <1>2, <1>3, <2>1, RowOnly DEF Inv
  <2>2. CASE ~UNCHANGED session
    BY <1>2, <1>3, <1>4, <2>2, SessionOnly DEF Inv
  <2>. QED
    BY <2>1, <2>2
<1>6. Jobs'
  <2>1. CASE OpenToPair(a)
    <3>1. NextStep("ask")
      BY <2>1 DEF OpenToPair
    <3>. QED
      BY <1>2, <1>5, <3>1, StepsOn DEF Inv, Leaving
  <2>2. CASE ~OpenToPair(a)
    <3>1. working' = None
      BY <2>2 DEF Nudge, PairPhone
    <3>. QED
      BY <1>2, <1>5, <3>1, JobsRest DEF Inv
  <2>. QED
    BY <2>1, <2>2
<1>7. SessionsStay
  <2>1. SessionOK
    BY DEF Inv, World, Shape
  <2>. QED
    BY <1>4, <2>1, SessionMoves DEF SessionsStay
<1>. QED
  BY <1>5, <1>6, <1>7 DEF Inv

\* The loop logs the device out: an unpairing that worked, or the last words to
\* a number that is gone.
LEMMA LogoutWorld ==
  ASSUME Inv, NEW a \in Accounts, Logout(a), UNCHANGED <<account, events, process, rescan>>
  PROVE  /\ World' /\ Closing(a)' /\ SessionsStay
         /\ \A b \in Accounts : (Gone(b) => Gone(b)') /\ (Closing(b) => Closing(b)')
<1>1. Linked(a) /\ Forgotten(a)
  BY DEF Logout
<1>2. PICK e \in Sessions : /\ session' = [session EXCEPT ![a] = e]
                            /\ e.deleted /\ ~e.loggedOut /\ ~session[a].loggedOut
                            /\ Sane(account[a], stored'[a], e)
  BY <1>1, ForgottenIs
<1>3. /\ session[a] # None /\ ~session[a].deleted
      /\ StoredOK' /\ \A b \in Accounts \ {a} : stored'[b] = stored[b]
  BY <1>1, ForgottenIs
<1>4. SessionOK' /\ session'[a] = e /\ e # None /\ \A b \in Accounts \ {a} : session'[b] = session[b]
  BY <1>2, SessionMoves DEF Inv, World, Shape
<1>5. EventsOK' /\ SameThere
  BY AccountRests DEF Inv, World, Shape, EventsOK, Event
<1>6. HeardBy(events[a], e) /\ Quiet(events[a])
  BY <1>3, <1>4 DEF Inv, World, Good, HeardBy, Quiet
<1>7. ClosingAt(account[a], e, events[a])
  BY <1>2, <1>4, <1>6 DEF ClosingAt
<1>8. World' /\ \A b \in Accounts : (Gone(b) => Gone(b)') /\ (Closing(b) => Closing(b)')
  BY <1>2, <1>3, <1>4, <1>5, <1>6, <1>7, Local DEF Inv
<1>9. Closing(a)'
  BY <1>4, <1>7 DEF Closing
<1>. QED
  BY <1>3, <1>4, <1>8, <1>9 DEF SessionsStay

LEMMA LogoutInv ==
  ASSUME Inv, NEW a \in Accounts, Unpair(a) \/ GiveUpPairing(a)
  PROVE  Inv' /\ SessionsStay
<1>1. At(a, "disconnect") \/ At(a, "delete")
  BY DEF Unpair, GiveUpPairing
<1>2. working # None /\ working.account = a /\ UNCHANGED <<process, rescan, control, admin, account, events>>
  BY <1>1, AtIs DEF Unpair, GiveUpPairing
<1>3. \E step \in Leaving : NextStep(step)
  BY DEF Unpair, GiveUpPairing, Leaving
<1>4. CASE Logout(a)
  <2>1. /\ World' /\ Closing(a)' /\ SessionsStay
        /\ \A b \in Accounts : (Gone(b) => Gone(b)') /\ (Closing(b) => Closing(b)')
    BY <1>2, <1>4, LogoutWorld
  <2>2. Jobs'
    BY <1>2, <1>3, <2>1, StepsOn DEF Inv, Leaving
  <2>. QED
    BY <2>1, <2>2 DEF Inv
<1>5. CASE ~Logout(a)
  <2>1. At(a, "delete") /\ UNCHANGED <<stored, session>>
    BY <1>5 DEF Unpair, GiveUpPairing
  <2>2. Closing(a)
    BY <2>1, AtIs DEF Closing, ClosingAt, Gone
  <2>3. SameThere
    BY <1>2, AccountRests DEF Inv, World, Shape
  <2>4. World' /\ \A b \in Accounts : (Gone(b) => Gone(b)') /\ (Closing(b) => Closing(b)')
    BY <1>2, <2>1, <2>3, RowOnly DEF Inv
  <2>5. Closing(a)'
    BY <2>2, <2>4
  <2>6. Jobs'
    BY <1>2, <1>3, <2>4, <2>5, StepsOn DEF Inv, Leaving
  <2>. QED
    BY <2>1, <2>4, <2>6 DEF Inv, SessionsStay
<1>. QED
  BY <1>4, <1>5

\* The session is restarted on request: nothing but a dead one goes.
LEMMA RestartAskedInv ==
  ASSUME Inv, NEW a \in Accounts, RestartAsked(a)
  PROVE  /\ Inv' /\ \A b \in Accounts \ {a} : session'[b] = session[b]
         /\ session[a] # None => session[a].deleted \/ Gone(a)
<1>1. At(a, "restart") /\ Restart(a) /\ working' = None /\ UNCHANGED <<account, stored>>
  BY DEF RestartAsked
<1>2. UNCHANGED <<process, rescan, control, admin>> /\ Closing(a)
  BY <1>1, AtIs DEF Leaving
<1>3. World' /\ \A b \in Accounts \ {a} : session'[b] = session[b]
  BY <1>1, <1>2, RestartWorld DEF Inv
<1>4. \A b \in Accounts : Gone(b) => Gone(b)'
  BY <1>1, <1>2, RestartWorld DEF Inv
<1>5. Jobs'
  <2>1. \A i \in DOMAIN control : control[i] \in Message
    BY Elements DEF Inv, Jobs, ControlOK
  <2>2. ControlOK'
    BY <1>2, <1>4, <2>1 DEF Inv, Jobs, ControlOK, Message, Actions
  <2>3. AdminOK'
    BY <1>2, <1>4 DEF Inv, Jobs, AdminOK, Click, Actions, Statuses
  <2>4. WorkingOK'
    BY <1>1 DEF WorkingOK
  <2>. QED
    BY <2>2, <2>3, <2>4 DEF Jobs
<1>6. session[a] # None => session[a].deleted \/ Gone(a)
  BY <1>2 DEF Closing, ClosingAt, Gone
<1>. QED
  BY <1>3, <1>5, <1>6 DEF Inv

\* The loop takes the next message.
LEMMA TakeControlInv ==
  ASSUME Inv, TakeControl
  PROVE  Inv' /\ UNCHANGED session
<1>. DEFINE m == Head(control)
<1>1. UNCHANGED <<account, stored, process, session, events, rescan, admin, spent>> /\ control # <<>> /\ control' = Tail(control)
  BY DEF TakeControl
<1>2. control \in Seq(Message) /\ \A i \in DOMAIN control : control[i].action = "delete" => Gone(control[i].account)
  BY DEF Inv, Jobs, ControlOK
<1>3. /\ m \in Message /\ Tail(control) \in Seq(Message) /\ 1 \in DOMAIN control /\ m = control[1]
      /\ \A i \in DOMAIN Tail(control) : i + 1 \in DOMAIN control /\ Tail(control)[i] = control[i + 1]
  BY <1>1, <1>2, Dropped
<1>4. SameThere
  BY <1>1, AccountRests DEF Inv, World, Shape
<1>5. World' /\ \A b \in Accounts : (Gone(b) => Gone(b)') /\ (Closing(b) => Closing(b)')
  BY <1>1, <1>4, RowOnly DEF Inv
<1>6. ControlOK'
  <2>1. \A i \in DOMAIN Tail(control) : Tail(control)[i] \in Message
    BY <1>3, Elements
  <2>2. \A i \in DOMAIN Tail(control) : Tail(control)[i].action = "delete" => Gone(Tail(control)[i].account)
    BY <1>2, <1>3
  <2>. QED
    BY <1>1, <1>3, <2>1, <2>2 DEF ControlOK, Gone, Message
<1>7. AdminOK'
  BY <1>1 DEF Inv, Jobs, AdminOK, Click, Gone
<1>8. WorkingOK'
  <2>. DEFINE w == [account |-> m.account, live |-> TRUE, step |-> m.action]
  <2>1. working' = None \/ working' = w
    BY DEF TakeControl
  <2>2. w \in Work /\ w.account = m.account /\ w.step = m.action /\ w.step \notin Leaving
    BY <1>3 DEF Message, Work, Actions, Leaving
  <2>3. m.action = "delete" => Gone(m.account)
    BY <1>2, <1>3
  <2>. HIDE DEF w
  <2>. QED
    BY <1>1, <2>1, <2>2, <2>3 DEF WorkingOK, Gone, Work
<1>. QED
  BY <1>1, <1>5, <1>6, <1>7, <1>8 DEF Inv, Jobs

-----------------------------------------------------------------------------
(* The process and its rescan.                                             *)

\* Nothing of the loop or the admin moves.
LEMMA JobsStay ==
  ASSUME Inv, UNCHANGED <<account, session, events, control, working, admin>>
  PROVE  Jobs'
<1>1. \A a \in Accounts : (Gone(a) => Gone(a)') /\ (Closing(a) => Closing(a)')
  BY DEF Gone, Closing
<1>. QED
  BY <1>1, JobsRest DEF Inv

\* A rescan begins, goes on or ends.
LEMMA RescanMoves ==
  ASSUME Inv, UNCHANGED <<account, stored, session, events, control, working, admin>>,
         process' \in {"down", "starting", "up"}, rescan' \in Rescan, Fresh'
  PROVE  Inv'
<1>1. Shape'
  BY DEF Inv, World, Shape, AccountOK, StoredOK, SessionOK, EventsOK, RestOK,
         Account, Statuses, Sessions, Devices, Event, Rescan
<1>2. \A a \in Accounts : Good(a)'
  BY DEF Inv, World, Good
<1>. QED
  BY <1>1, <1>2, JobsStay DEF Inv, World

LEMMA RestingIs == Resting \in Rescan /\ Resting.step = "idle"
BY DEF Resting, Rescan

LEMMA RescanInv ==
  ASSUME Inv, Start \/ ReadAccounts \/ ReadFails
  PROVE  Inv' /\ UNCHANGED session
<1>1. UNCHANGED <<account, stored, session, events, control, working, admin>>
  BY DEF Start, ReadAccounts, ReadFails
<1>2. rescan \in Rescan /\ process \in {"down", "starting", "up"} /\ AccountOK
  BY DEF Inv, World, Shape, RestOK
<1>3. CASE Start
  <2>1. rescan' = rescan /\ process' = "starting"
    BY <1>3 DEF Start
  <2>2. Fresh'
    BY <1>1, <2>1 DEF Inv, World, Fresh, Gone
  <2>. QED
    BY <1>1, <1>2, <2>1, <2>2, RescanMoves
<1>4. CASE ReadAccounts
  <2>. DEFINE known == {a \in Accounts : Exists(a)}
              list == [a \in Accounts |-> IF a \in known THEN account[a].jid ELSE None]
  <2>1. rescan' = [step |-> "ensure", todo |-> known, list |-> list] /\ process' = process
    BY <1>4 DEF ReadAccounts
  <2>2. \A a \in Accounts : account[a] \in Account /\ account[a].jid \in BOOLEAN /\ list[a] \in BOOLEAN \cup {None}
    BY <1>2 DEF AccountOK, Account
  <2>3. known \in SUBSET Accounts /\ list \in [Accounts -> BOOLEAN \cup {None}]
    BY <2>2
  <2>4. \A a \in Accounts : IF list[a] = None THEN ~Exists(a) /\ a \notin known ELSE Exists(a)
    BY <2>2, ParametersAssumption
  <2>5. \A a \in Accounts : ~Exists(a) => Gone(a) \/ session[a] = None
    BY <2>2 DEF Inv, World, Good, Sane, Exists, Gone, Account
  <2>. HIDE DEF list, known
  <2>6. rescan'.todo = known /\ rescan'.list = list /\ rescan' \in Rescan
    BY <2>1, <2>3 DEF Rescan
  <2>7. Fresh'
    BY <1>1, <2>4, <2>5, <2>6 DEF Fresh, Gone, Exists
  <2>. QED
    BY <1>1, <1>2, <2>1, <2>6, <2>7, RescanMoves
<1>5. CASE ReadFails
  <2>1. rescan' = Resting /\ process' = "up"
    BY <1>5 DEF ReadFails, EndSync
  <2>2. Fresh'
    BY <2>1, RestingIs DEF Fresh
  <2>. QED
    BY <1>1, <2>1, <2>2, RestingIs, RescanMoves
<1>. QED
  BY <1>1, <1>3, <1>4, <1>5

\* One row of the list: a session is opened for it if it has none.
LEMMA EnsureInv ==
  ASSUME Inv, NEW a \in Accounts, Ensure(a)
  PROVE  Inv' /\ SessionsStay
<1>1. /\ rescan.step = "ensure" /\ a \in rescan.todo /\ rescan' = [rescan EXCEPT !.todo = @ \ {a}]
      /\ UNCHANGED <<stored, process, events, control, working, admin>>
  BY DEF Ensure
<1>2. rescan \in Rescan /\ AccountOK /\ StoredOK /\ SessionOK /\ EventsOK /\ Good(a)
  BY DEF Inv, World, Shape, RestOK
<1>3. /\ rescan' \in Rescan /\ rescan'.step = "ensure" /\ rescan'.list = rescan.list
      /\ rescan'.todo \subseteq rescan.todo
  BY <1>1, <1>2 DEF Rescan
<1>4. rescan.list[a] # None /\ account[a].there # "no"
  BY <1>1 DEF Inv, World, Fresh
<1>5. \/ UNCHANGED <<account, session>>
      \/ session[a] = None /\ \E d \in deviceFor(a, rescan.list[a]), opened \in BOOLEAN :
           /\ session' = [session EXCEPT ![a] = NewSession(d, opened)]
           /\ UNCHANGED account \/ SetStatus(a, "disconnected")
  BY DEF Ensure, ensure
<1>6. CASE UNCHANGED <<account, session>>
  <2>1. Fresh'
    BY <1>1, <1>3, <1>6 DEF Inv, World, Fresh, Gone
  <2>. QED
    BY <1>1, <1>2, <1>3, <1>6, <2>1, RescanMoves DEF Inv, World, Shape, RestOK, SessionsStay
<1>7. CASE session[a] = None /\ \E d \in deviceFor(a, rescan.list[a]), opened \in BOOLEAN :
           /\ session' = [session EXCEPT ![a] = NewSession(d, opened)]
           /\ UNCHANGED account \/ SetStatus(a, "disconnected")
  <2>. PICK d \in deviceFor(a, rescan.list[a]), opened \in BOOLEAN :
           /\ session' = [session EXCEPT ![a] = NewSession(d, opened)]
           /\ UNCHANGED account \/ SetStatus(a, "disconnected")
    BY <1>7
  <2>. DEFINE e == NewSession(d, opened)
  <2>1. d = NoDevice \/ (d \in stored[a] /\ d \in Devices)
    BY <1>2 DEF deviceFor, StoredOK
  <2>2. e \in Sessions /\ e.device = d /\ e.socket # "online" /\ ~e.deleted /\ ~e.code /\ ~e.loggedOut
    BY <2>1 DEF NewSession, Sessions
  <2>3. session' = [session EXCEPT ![a] = e]
    OBVIOUS
  <2>. HIDE DEF e
  <2>4. Sane(account[a], stored[a], e)
    BY <1>4, <2>1, <2>2 DEF Sane
  <2>5. SessionOK' /\ session'[a] = e /\ e # None /\ \A b \in Accounts \ {a} : session'[b] = session[b]
    BY <1>2, <2>2, <2>3, SessionMoves
  <2>6. SameThere
    BY <1>2, SetStatusThere, AccountRests DEF Statuses
  <2>7. Shape'
    BY <1>1, <1>2, <1>3, <2>5, <2>6 DEF Inv, World, Shape, StoredOK, EventsOK, RestOK, Event, Rescan, SameThere
  <2>8. \A b \in Accounts : Good(b)'
    <3>1. Good(a)'
      BY <1>1, <1>2, <1>7, <2>4, <2>5, <2>6 DEF Good, HeardBy, Sane, SameThere
    <3>2. ASSUME NEW b \in Accounts \ {a} PROVE Good(b)'
      BY <1>1, <2>5, <2>6 DEF Inv, World, Good, Sane, SameThere
    <3>. QED
      BY <3>1, <3>2
  <2>9. Fresh'
    BY <1>1, <1>3, <1>4, <2>5, <2>6 DEF Inv, World, Fresh, Gone, SameThere
  <2>10. \A b \in Accounts : (Gone(b) => Gone(b)') /\ (Closing(b) => Closing(b)')
    BY <1>1, <1>7, <2>5, <2>6 DEF Gone, Closing, ClosingAt, SameThere
  <2>11. Jobs'
    BY <1>1, <2>10, JobsRest DEF Inv
  <2>. QED
    BY <2>5, <2>7, <2>8, <2>9, <2>11 DEF Inv, World, SessionsStay
<1>. QED
  BY <1>5, <1>6, <1>7

\* The end of a rescan: what it did not find is gone for good.
LEMMA closeOrphansInv ==
  ASSUME Inv, closeOrphans
  PROVE  Inv' /\ \A a \in Accounts : session[a] # None /\ session'[a] = None => Gone(a)
<1>. DEFINE muted(a) == [i \in DOMAIN events[a] |-> [events[a][i] EXCEPT !.live = FALSE]]
<1>1. /\ rescan.step = "ensure" /\ rescan' = Resting /\ process' = "up"
      /\ session' = [a \in Accounts |-> IF a \in orphaned THEN None ELSE session[a]]
      /\ events' = [a \in Accounts |-> IF a \in orphaned THEN muted(a) ELSE events[a]]
      /\ UNCHANGED <<account, stored, control, admin>>
  BY DEF closeOrphans, EndSync
<1>2. \A a \in Accounts : a \in orphaned => Gone(a)
  BY <1>1 DEF orphaned, Inv, World, Fresh
<1>3. SessionOK /\ EventsOK /\ \A a \in Accounts : events[a] \in Seq(Event)
  BY DEF Inv, World, Shape, EventsOK
<1>4. \A a \in Accounts : muted(a) \in Seq(Event) /\ HeardBy(muted(a), None)
  BY <1>3, Muted
<1>. HIDE DEF muted
<1>5. SessionOK' /\ EventsOK'
  BY <1>1, <1>3, <1>4 DEF SessionOK, EventsOK, Sessions, Devices, Event
<1>6. Shape'
  BY <1>1, <1>5, RestingIs DEF Inv, World, Shape, AccountOK, StoredOK, RestOK, Account, Statuses, Devices, Rescan
<1>7. ASSUME NEW a \in Accounts PROVE Good(a)'
  <2>1. CASE a \in orphaned
    BY <1>1, <1>4, <2>1 DEF Good, Sane
  <2>2. CASE a \notin orphaned
    BY <1>1, <2>2 DEF Inv, World, Good
  <2>. QED
    BY <2>1, <2>2
<1>8. Fresh'
  BY <1>1, RestingIs DEF Fresh
<1>9. \A a \in Accounts : (Gone(a) => Gone(a)') /\ (Closing(a) => Closing(a)')
  BY <1>1, <1>2 DEF Gone, Closing, ClosingAt
<1>10. working' = working \/ (working # None /\ working' = [working EXCEPT !.live = FALSE])
  BY DEF closeOrphans
<1>11. Jobs'
  BY <1>1, <1>9, <1>10, JobsRest DEF Inv
<1>12. \A a \in Accounts : session[a] # None /\ session'[a] = None => Gone(a)
  BY <1>1, <1>2
<1>. QED
  BY <1>6, <1>7, <1>8, <1>11, <1>12 DEF Inv, World

\* The process dies: the rows, the devices and the admin's request stay.
LEMMA CrashInv ==
  ASSUME Inv, Crash
  PROVE  Inv'
<1>1. /\ process' = "down" /\ rescan' = Resting /\ control' = <<>> /\ working' = None
      /\ session' = [a \in Accounts |-> None] /\ events' = [a \in Accounts |-> <<>>]
      /\ UNCHANGED <<account, stored, admin>>
  BY DEF Crash
<1>2. Shape'
  BY <1>1, RestingIs DEF Inv, World, Shape, AccountOK, StoredOK, SessionOK, EventsOK, RestOK,
     Account, Statuses, Devices, Rescan
<1>3. \A a \in Accounts : Good(a)'
  BY <1>1 DEF Good, HeardBy, Sane
<1>4. Fresh'
  BY <1>1, RestingIs DEF Fresh
<1>5. ControlOK' /\ WorkingOK'
  BY <1>1 DEF ControlOK, WorkingOK
<1>6. AdminOK'
  BY <1>1 DEF Inv, Jobs, AdminOK, Click, Gone
<1>. QED
  BY <1>2, <1>3, <1>4, <1>5, <1>6 DEF Inv, World, Jobs

-----------------------------------------------------------------------------
(* The admin.                                                              *)

\* The API writes a row or the queue, and its own request.
LEMMA AdminMoves ==
  ASSUME Inv, UNCHANGED <<stored, process, session, events, rescan, working>>, AccountOK',
         \A a \in Accounts : /\ account[a].there # "no" => account'[a].there # "no"
                             /\ Gone(a) => Gone(a)'
                             /\ session[a] = None \/ account[a].there # "no",
         ControlOK', AdminOK'
  PROVE  Inv'
<1>1. Shape'
  BY DEF Inv, World, Shape, StoredOK, SessionOK, EventsOK, RestOK, Sessions, Devices, Event, Rescan
<1>2. \A a \in Accounts : Good(a)'
  BY DEF Inv, World, Good, Sane
<1>3. Fresh'
  BY DEF Inv, World, Fresh, Gone
<1>4. \A a \in Accounts : Closing(a) => Closing(a)'
  BY DEF Closing, ClosingAt, Gone
<1>5. WorkingOK'
  <2>1. CASE working = None
    BY <2>1 DEF WorkingOK
  <2>2. CASE working # None
    <3>1. working \in Work /\ working.account \in Accounts
      BY <2>2 DEF Inv, Jobs, WorkingOK, Work
    <3>2. working.step = "delete" => Gone(working.account)'
      BY <2>2, <3>1 DEF Inv, Jobs, WorkingOK
    <3>3. working.step \in Leaving => Closing(working.account)'
      BY <1>4, <2>2, <3>1 DEF Inv, Jobs, WorkingOK
    <3>. QED
      BY <2>2, <3>1, <3>2, <3>3 DEF WorkingOK, Work, Actions, Leaving
  <2>. QED
    BY <2>1, <2>2
<1>. QED
  BY <1>1, <1>2, <1>3, <1>5 DEF Inv, World, Jobs

\* What is queued stays true while no number comes back.
LEMMA ControlStays ==
  ASSUME ControlOK, UNCHANGED control, \A a \in Accounts : Gone(a) => Gone(a)'
  PROVE  ControlOK'
<1>1. \A i \in DOMAIN control : control[i] \in Message
  BY Elements DEF ControlOK
<1>. QED
  BY <1>1 DEF ControlOK, Message, Actions

LEMMA SessionsAreMade ==
  ASSUME Inv
  PROVE  \A a \in Accounts : session[a] = None \/ account[a].there # "no"
BY DEF Inv, World, Good, Sane

LEMMA ServeInv ==
  ASSUME Inv, NEW a \in Accounts, CreateAccount(a) \/ Connect(a) \/ Disconnect(a) \/ DeleteAccount(a)
  PROVE  Inv' /\ UNCHANGED session
<1>1. UNCHANGED <<stored, process, session, events, rescan, working, control>>
  BY DEF CreateAccount, Connect, Disconnect, DeleteAccount, Serve
<1>2. AccountOK /\ account[a] \in Account
  BY DEF Inv, World, Shape, AccountOK
<1>3. AccountOK' /\ \A b \in Accounts \ {a} : account'[b] = account[b]
  <2>1. CASE CreateAccount(a)
    <3>. DEFINE e == [account[a] EXCEPT !.there = "yes"]
    <3>1. e \in Account
      BY <1>2 DEF Account
    <3>2. account' = [account EXCEPT ![a] = e]
      BY <2>1 DEF CreateAccount
    <3>. HIDE DEF e
    <3>. QED
      BY <1>2, <3>1, <3>2 DEF AccountOK
  <2>2. CASE DeleteAccount(a)
    <3>. DEFINE e == [account[a] EXCEPT !.there = "gone"]
    <3>1. e \in Account
      BY <1>2 DEF Account
    <3>2. account' = [account EXCEPT ![a] = e]
      BY <2>2 DEF DeleteAccount
    <3>. HIDE DEF e
    <3>. QED
      BY <1>2, <3>1, <3>2 DEF AccountOK
  <2>3. CASE UNCHANGED account
    BY <1>2, <2>3 DEF AccountOK, Account, Statuses
  <2>. QED
    BY <2>1, <2>2, <2>3 DEF Connect, Disconnect
<1>4. /\ account[a].there # "no" => account'[a].there # "no"
      /\ Gone(a) => Gone(a)'
  <2>1. CASE CreateAccount(a)
    BY <2>1 DEF CreateAccount, Gone
  <2>2. CASE DeleteAccount(a)
    <3>1. account' = [account EXCEPT ![a].there = "gone"]
      BY <2>2 DEF DeleteAccount
    <3>2. account'[a].there = "gone"
      BY <1>2, <3>1 DEF AccountOK, Account
    <3>. QED
      BY <3>2 DEF Gone
  <2>3. CASE UNCHANGED account
    BY <2>3 DEF Gone
  <2>. QED
    BY <2>1, <2>2, <2>3 DEF Connect, Disconnect
<1>5. \A b \in Accounts : (account[b].there # "no" => account'[b].there # "no") /\ (Gone(b) => Gone(b)')
  BY <1>3, <1>4 DEF Gone
<1>6. AdminOK'
  <2>1. CASE CreateAccount(a)
    BY <2>1 DEF CreateAccount, AdminOK
  <2>2. CASE ~CreateAccount(a)
    <3>1. PICK action \in Actions, step \in {"mark", "publish"} :
            /\ admin' = [action |-> action, account |-> a, step |-> step, before |-> account[a].status]
            /\ action = "delete" => DeleteAccount(a)
      BY <2>2 DEF Connect, Disconnect, DeleteAccount, Serve, Actions
    <3>2. account[a].status \in Statuses
      BY <1>2 DEF Account
    <3>3. admin' \in Click /\ admin'.action = action /\ admin'.account = a
      BY <3>1, <3>2 DEF Click
    <3>4. DeleteAccount(a) => Gone(a)'
      BY <1>2 DEF DeleteAccount, Gone, AccountOK, Account
    <3>. QED
      BY <3>1, <3>3, <3>4 DEF AdminOK, Gone, Click, Actions, Statuses
  <2>. QED
    BY <2>1, <2>2
<1>7. ControlOK'
  BY <1>1, <1>5, ControlStays DEF Inv, Jobs
<1>. QED
  BY <1>1, <1>3, <1>5, <1>6, <1>7, SessionsAreMade, AdminMoves

\* The request goes on.
LEMMA AdminStepsInv ==
  ASSUME Inv, MarkPairing \/ publishControl \/ rollbackStatus
  PROVE  Inv' /\ UNCHANGED session
<1>1. UNCHANGED <<stored, process, session, events, rescan, working>> /\ admin # None
  BY DEF MarkPairing, publishControl, rollbackStatus, AdminAt
<1>2. admin \in Click /\ (admin.action = "delete" => Gone(admin.account)) /\ AccountOK
  BY <1>1 DEF Inv, Jobs, AdminOK, World, Shape
<1>3. admin.account \in Accounts /\ admin.action \in Actions /\ admin.before \in Statuses /\ "pairing" \in Statuses
  BY <1>2 DEF Click, Statuses
<1>4. SameThere
  BY <1>2, <1>3, SetStatusThere, AccountRests DEF MarkPairing, publishControl, rollbackStatus
<1>5. \A a \in Accounts : (account[a].there # "no" => account'[a].there # "no") /\ (Gone(a) => Gone(a)')
  BY <1>4 DEF SameThere, Gone
<1>6. AdminOK'
  <2>1. CASE MarkPairing
    <3>1. admin' = [admin EXCEPT !.step = "publish"]
      BY <2>1 DEF MarkPairing
    <3>2. admin' \in Click /\ admin'.action = admin.action /\ admin'.account = admin.account
      BY <1>2, <3>1 DEF Click
    <3>3. \A a \in Accounts : a = admin.account /\ admin.action = "delete" => Gone(a)'
      BY <1>2, <1>5
    <3>. QED
      BY <1>3, <3>2, <3>3 DEF AdminOK, Gone, Click, Actions, Statuses
  <2>2. CASE publishControl \/ rollbackStatus
    BY <2>2 DEF publishControl, rollbackStatus, AdminOK
  <2>. QED
    BY <2>1, <2>2
<1>7. ControlOK'
  <2>1. CASE UNCHANGED control
    BY <1>5, <2>1, ControlStays DEF Inv, Jobs
  <2>2. CASE ~UNCHANGED control
    <3>. DEFINE m == [action |-> admin.action, account |-> admin.account]
    <3>1. control' = Append(control, m) /\ UNCHANGED account
      BY <2>2 DEF MarkPairing, publishControl, rollbackStatus
    <3>2. m \in Message /\ (m.action = "delete" => Gone(m.account))
      BY <1>2, <1>3 DEF Message
    <3>3. control \in Seq(Message) /\ \A i \in DOMAIN control : control[i].action = "delete" => Gone(control[i].account)
      BY DEF Inv, Jobs, ControlOK
    <3>. HIDE DEF m
    <3>4. /\ Append(control, m) \in Seq(Message)
          /\ \A i \in DOMAIN Append(control, m) :
               \/ Append(control, m)[i] = m
               \/ i \in DOMAIN control /\ Append(control, m)[i] = control[i]
      BY <3>2, <3>3, Appended
    <3>5. \A i \in DOMAIN Append(control, m) :
            Append(control, m)[i].action = "delete" => Gone(Append(control, m)[i].account)
      BY <3>2, <3>3, <3>4
    <3>. QED
      BY <3>1, <3>4, <3>5 DEF ControlOK, Gone, Message, Actions
  <2>. QED
    BY <2>1, <2>2
<1>. QED
  BY <1>1, <1>4, <1>5, <1>6, <1>7, SessionsAreMade, AdminMoves DEF SameThere

-----------------------------------------------------------------------------
(* The theorems.                                                           *)

LEMMA InitInv == Init => Inv
<1>. SUFFICES ASSUME Init PROVE Inv
  OBVIOUS
<1>. PICK linked \in SUBSET Accounts, made \in SUBSET Accounts :
       /\ linked \subseteq made /\ (MaxLinks = 0 => linked = {})
       /\ account = [a \in Accounts |-> [there |-> IF a \in made THEN "yes" ELSE "no",
                                         status |-> "disconnected", jid |-> a \in linked]]
       /\ stored = [a \in Accounts |-> IF a \in linked THEN {1} ELSE {}]
  BY DEF Init
<1>1. /\ process = "down" /\ session = [a \in Accounts |-> None] /\ events = [a \in Accounts |-> <<>>]
      /\ rescan = Resting /\ control = <<>> /\ working = None /\ admin = None
  BY DEF Init
<1>2. AccountOK
  BY DEF AccountOK, Account, Statuses
<1>3. StoredOK
  <2>1. linked # {} => 1 \in Devices
    BY ParametersAssumption DEF Devices
  <2>. QED
    BY <2>1 DEF StoredOK
<1>4. SessionOK /\ EventsOK /\ RestOK
  BY <1>1, RestingIs DEF SessionOK, EventsOK, RestOK
<1>5. \A a \in Accounts : Good(a)
  <2>1. \A a \in Accounts : session[a] = None /\ events[a] = <<>>
    BY <1>1
  <2>2. DOMAIN <<>> = {}
    OBVIOUS
  <2>3. \A a \in Accounts : HeardBy(events[a], session[a])
    BY <2>1, <2>2 DEF HeardBy
  <2>4. \A a \in Accounts : Sane(account[a], stored[a], session[a])
    BY <2>1 DEF Sane
  <2>. QED
    BY <2>3, <2>4 DEF Good
<1>6. Fresh
  BY <1>1, RestingIs DEF Fresh
<1>7. Jobs
  BY <1>1 DEF Jobs, ControlOK, AdminOK, WorkingOK
<1>. QED
  BY <1>2, <1>3, <1>4, <1>5, <1>6, <1>7 DEF Inv, World, Shape

LEMMA Stutter == Inv /\ UNCHANGED vars => Inv'
<1>. SUFFICES ASSUME Inv, UNCHANGED vars PROVE Inv'
  OBVIOUS
<1>1. UNCHANGED <<account, stored, process, session, events, rescan, control, working, admin>>
  BY DEF vars
<1>2. rescan' \in Rescan /\ process' \in {"down", "starting", "up"} /\ Fresh'
  BY <1>1 DEF Inv, World, Shape, RestOK, Fresh, Gone
<1>. QED
  BY <1>1, <1>2, RescanMoves

\* What a step of the control loop keeps, and what it may drop.
LEMMA applyControlInv ==
  ASSUME Inv, NEW a \in Accounts, applyControl(a)
  PROVE  Inv' /\ \A b \in Accounts : session[b] # None /\ session'[b] = None => session[b].deleted \/ Gone(b)
<1>1. CASE RestartAsked(a)
  BY <1>1, RestartAskedInv
<1>2. CASE ~RestartAsked(a)
  BY <1>2, RowStepsInv, LeavingInv, PairingStepsInv, LogoutInv DEF applyControl, SessionsStay
<1>. QED
  BY <1>1, <1>2

\* The sessions a step drops are dead.
Drops ==
  \A b \in Accounts : session[b] # None /\ session'[b] = None /\ process' # "down" => session[b].deleted \/ Gone(b)

LEMMA Step ==
  ASSUME Inv, [Next]_vars
  PROVE  Inv' /\ Drops
<1>1. CASE UNCHANGED vars
  BY <1>1, Stutter DEF vars, Drops
<1>2. CASE Start \/ ReadAccounts \/ ReadFails
  BY <1>2, RescanInv DEF Drops
<1>3. CASE Crash
  BY <1>3, CrashInv DEF Crash, Drops
<1>4. CASE closeOrphans
  BY <1>4, closeOrphansInv DEF Drops
<1>5. CASE \E a \in Accounts : Ensure(a)
  BY <1>5, EnsureInv DEF Drops, SessionsStay
<1>6. CASE TakeControl
  BY <1>6, TakeControlInv DEF Drops
<1>7. CASE MarkPairing \/ publishControl \/ rollbackStatus
  BY <1>7, AdminStepsInv DEF Drops
<1>8. ASSUME NEW a \in Accounts, CreateAccount(a) \/ Connect(a) \/ Disconnect(a) \/ DeleteAccount(a)
      PROVE  Inv' /\ Drops
  BY <1>8, ServeInv DEF Drops
<1>9. ASSUME NEW a \in Accounts,
             \/ Authenticate(a) \/ ApproveFails(a) \/ Expire(a) \/ Drop(a) \/ Replace(a) \/ Ban(a)
             \/ Approve(a) \/ Unlink(a) \/ routeSession(a) \/ supervise(a)
      PROVE  Inv' /\ Drops
  BY <1>9, WhatsAppInv, ApproveInv, UnlinkInv, routeSessionInv, superviseInv DEF Drops, SessionsStay
<1>10. ASSUME NEW a \in Accounts, watchForLogout(a)
       PROVE  Inv' /\ Drops
  BY <1>10, watchForLogoutInv DEF Drops
<1>11. ASSUME NEW a \in Accounts, applyControl(a)
       PROVE  Inv' /\ Drops
  BY <1>11, applyControlInv DEF Drops
<1>. HIDE DEF Drops
<1>. QED
  BY <1>1, <1>2, <1>3, <1>4, <1>5, <1>6, <1>7, <1>8, <1>9, <1>10, <1>11 DEF Next, Environment, sync

LEMMA InvStays == Spec => []Inv
<1>1. Inv /\ [Next]_vars => Inv'
  BY Step
<1>. QED
  BY InitInv, <1>1, PTL DEF Spec

\* The state keeps its shape: rows, devices and sessions stay what the code
\* holds, a session has only a device that whatsmeow stores, and is online only
\* with one.
THEOREM TypeCorrect == Spec => []TypeOK
<1>1. Inv => TypeOK
  <2>. SUFFICES ASSUME Inv PROVE TypeOK
    OBVIOUS
  <2>1. ASSUME NEW a \in Accounts
        PROVE  /\ account[a].there \in {"no", "yes", "gone"} /\ account[a].status \in Statuses
               /\ account[a].jid \in BOOLEAN /\ stored[a] \subseteq Devices
    <3>1. account[a] \in Account /\ stored[a] \in SUBSET Devices
      BY DEF Inv, World, Shape, AccountOK, StoredOK
    <3>. QED
      BY <3>1 DEF Account
  <2>2. ASSUME NEW a \in Accounts
        PROVE  /\ session[a] # None => session[a] \in Sessions
               /\ Linked(a) => session[a].device \in stored[a]
               /\ session[a] # None /\ session[a].socket = "online" => Linked(a)
    BY SessionIs DEF Sane, Linked
  <2>3. /\ process \in {"down", "starting", "up"} /\ working \in Work \cup {None}
        /\ rescan.step \in {"idle", "ensure"} /\ rescan.todo \subseteq Accounts
    BY DEF Inv, World, Shape, RestOK, Rescan, Jobs, WorkingOK
  <2>. QED
    BY <2>1, <2>2, <2>3 DEF TypeOK
<1>. QED
  BY InvStays, <1>1, PTL

\* Whatever the numbers, the devices a phone may link, the clicks and the
\* troubles: a rescan, a logout or a request takes a session down only when its
\* device is deleted or its row is gone.
THEOREM DeadAreDropped == Spec => OnlyTheDeadAreDropped
<1>1. Inv /\ [Next]_vars
      => [\A a \in Accounts :
            session[a] # None /\ session'[a] = None /\ process' # "down"
            => session[a].deleted \/ ~Exists(a)]_vars
  BY Step DEF Drops, Gone, Exists
<1>. QED
  BY InvStays, <1>1, PTL DEF Spec, OnlyTheDeadAreDropped

-----------------------------------------------------------------------------
(* What still tells the goroutines.                                        *)

Pending(evs, kind) == \E i \in DOMAIN evs : evs[i].kind = kind /\ evs[i].live

\* A code is of an open socket; a link whose socket is closed, and a supervisor
\* that waits for a device there is, have somebody about to say so.
Noted(s, evs) ==
  s # None =>
    /\ s.code => s.socket # "closed"
    /\ s.device # NoDevice =>
         /\ s.socket = "closed" => s.replaced \/ s.dropped \/ s.sup = "retrying" \/ Pending(evs, "Disconnected")
         /\ s.sup = "unpaired" => s.paired \/ Pending(evs, "PairSuccess")

\* The same of a device that was deleted, by a client or by the control loop.
Unpairing(a) == working # None /\ working.account = a /\ working.step \in Leaving
Ended(s, evs) == s # None /\ s.deleted => s.loggedOut \/ Pending(evs, "LoggedOut")

NotedAt(a) == Noted(session[a], events[a])
EndedAt(a) == Exists(a) /\ ~Unpairing(a) => Ended(session[a], events[a])
Told == \A a \in Accounts : NotedAt(a) /\ EndedAt(a)

\* What a raised event and a handled one leave in the queue.
LEMMA RaisePends ==
  ASSUME EventsOK, NEW a \in Accounts, NEW kind, Raise(a, kind)
  PROVE  /\ Pending(events'[a], kind) /\ \A b \in Accounts \ {a} : events'[b] = events[b]
         /\ \A k : Pending(events[a], k) => Pending(events'[a], k)
<1>. DEFINE e == [kind |-> kind, live |-> TRUE]
<1>1. events[a] \in Seq(Event) /\ e.kind = kind /\ e.live
  BY DEF EventsOK
<1>2. events' = [events EXCEPT ![a] = Append(events[a], e)]
  BY DEF Raise
<1>. HIDE DEF e
<1>3. events'[a] = Append(events[a], e) /\ \A b \in Accounts \ {a} : events'[b] = events[b]
  BY <1>2 DEF EventsOK
<1>4. /\ Len(events[a]) + 1 \in DOMAIN Append(events[a], e) /\ Append(events[a], e)[Len(events[a]) + 1] = e
      /\ \A i \in DOMAIN events[a] : i \in DOMAIN Append(events[a], e) /\ Append(events[a], e)[i] = events[a][i]
  BY <1>1
<1>. QED
  BY <1>1, <1>3, <1>4 DEF Pending

LEMMA HandledPends ==
  ASSUME EventsOK, NEW a \in Accounts, events[a] # <<>>, Handled(a)
  PROVE  /\ \A b \in Accounts \ {a} : events'[b] = events[b]
         /\ \A k : Pending(events[a], k) => Pending(events'[a], k) \/ (Head(events[a]).kind = k /\ Head(events[a]).live)
<1>1. events[a] \in Seq(Event) /\ events' = [events EXCEPT ![a] = Tail(events[a])]
  BY DEF EventsOK, Handled
<1>2. events'[a] = Tail(events[a]) /\ \A b \in Accounts \ {a} : events'[b] = events[b]
  BY <1>1 DEF EventsOK
<1>3. Head(events[a]) = events[a][1]
  BY <1>1
<1>4. \A i \in DOMAIN events[a] : i = 1 \/ (i - 1 \in DOMAIN Tail(events[a]) /\ Tail(events[a])[i - 1] = events[a][i])
  BY <1>1
<1>5. ASSUME NEW k, Pending(events[a], k)
      PROVE  Pending(Tail(events[a]), k) \/ (Head(events[a]).kind = k /\ Head(events[a]).live)
  <2>. PICK i \in DOMAIN events[a] : events[a][i].kind = k /\ events[a][i].live
    BY <1>5 DEF Pending
  <2>1. CASE i = 1
    BY <1>3, <2>1
  <2>2. CASE i # 1
    <3>1. i - 1 \in DOMAIN Tail(events[a]) /\ Tail(events[a])[i - 1] = events[a][i]
      BY <1>4, <2>2
    <3>. QED
      BY <3>1 DEF Pending
  <2>. QED
    BY <2>1, <2>2
<1>. QED
  BY <1>2, <1>5

-----------------------------------------------------------------------------
(* What keeps it.                                                          *)

\* No row comes back to a session, and no unpairing ends but with its session.
Minded ==
  \A b \in Accounts : /\ session[b] # None /\ Exists(b)' => Exists(b)
                      /\ Unpairing(b) => Unpairing(b)' \/ session'[b] = None

LEMMA OneNumber ==
  ASSUME Told, Minded, NEW a \in Accounts, NotedAt(a)', EndedAt(a)',
         \A b \in Accounts \ {a} :
           session'[b] = None \/ (session'[b] = session[b] /\ events'[b] = events[b])
  PROVE  Told'
<1>1. ASSUME NEW b \in Accounts \ {a} PROVE NotedAt(b)' /\ EndedAt(b)'
  <2>1. CASE session'[b] = None
    BY <2>1 DEF NotedAt, EndedAt, Noted, Ended
  <2>2. CASE session'[b] # None /\ session'[b] = session[b] /\ events'[b] = events[b]
    <3>1. NotedAt(b)'
      BY <2>2 DEF Told, NotedAt
    <3>2. EndedAt(b)'
      BY <2>2 DEF Told, EndedAt, Minded
    <3>. QED
      BY <3>1, <3>2
  <2>. QED
    BY <2>1, <2>2
<1>. QED
  BY <1>1 DEF Told

LEMMA NobodyChanges ==
  ASSUME Told, Minded,
         \A b \in Accounts : session'[b] = None \/ (session'[b] = session[b] /\ events'[b] = events[b])
  PROVE  Told'
<1>1. ASSUME NEW b \in Accounts PROVE NotedAt(b)' /\ EndedAt(b)'
  <2>1. CASE session'[b] = None
    BY <2>1 DEF NotedAt, EndedAt, Noted, Ended
  <2>2. CASE session'[b] # None /\ session'[b] = session[b] /\ events'[b] = events[b]
    <3>1. NotedAt(b)'
      BY <2>2 DEF Told, NotedAt
    <3>2. EndedAt(b)'
      BY <2>2 DEF Told, EndedAt, Minded
    <3>. QED
      BY <3>1, <3>2
  <2>. QED
    BY <2>1, <2>2
<1>. QED
  BY <1>1 DEF Told

LEMMA SameIsMinded ==
  ASSUME SameThere, UNCHANGED working \/ working = None \/ \A b \in Accounts : ~Unpairing(b)
  PROVE  Minded
BY DEF SameThere, Minded, Unpairing, Exists

-----------------------------------------------------------------------------
(* WhatsApp and the phone.                                                 *)

\* A session whose device stays as it is, deleted or not.
LEMMA RaisingTold ==
  ASSUME Inv, Told, NEW a \in Accounts, session[a] # None, NEW e \in Sessions, session' = [session EXCEPT ![a] = e],
         NEW kind, Raise(a, kind), UNCHANGED <<account, working>>,
         Noted(e, events'[a]), e.deleted => session[a].deleted \/ kind = "LoggedOut",
         session[a].loggedOut => e.loggedOut
  PROVE  Told'
<1>1. SessionOK' /\ session'[a] = e /\ e # None /\ \A b \in Accounts \ {a} : session'[b] = session[b]
  BY SessionMoves DEF Inv, World, Shape
<1>2. /\ Pending(events'[a], kind) /\ \A b \in Accounts \ {a} : events'[b] = events[b]
      /\ \A k : Pending(events[a], k) => Pending(events'[a], k)
  BY RaisePends DEF Inv, World, Shape
<1>3. Minded
  BY SameIsMinded, AccountRests DEF Inv, World, Shape
<1>4. NotedAt(a)'
  BY <1>1 DEF NotedAt
<1>5. EndedAt(a)'
  BY <1>1, <1>2 DEF Told, EndedAt, Ended, Exists, Unpairing
<1>. QED
  BY <1>1, <1>2, <1>3, <1>4, <1>5, OneNumber

\* What the invariants say of a session that is there.
LEMMA ToldIs ==
  ASSUME Inv, Told, NEW a \in Accounts, session[a] # None
  PROVE  /\ session[a] \in Sessions /\ Sane(account[a], stored[a], session[a])
         /\ EventsOK /\ SessionOK /\ Noted(session[a], events[a]) /\ EndedAt(a)
BY SessionIs DEF Inv, World, Shape, Told, NotedAt

LEMMA DeviceIs == ASSUME NEW d \in Devices PROVE d # NoDevice
BY ParametersAssumption DEF Devices, NoDevice

LEMMA WhatsAppTold ==
  ASSUME Inv, Told, NEW a \in Accounts,
         \/ Authenticate(a) \/ Approve(a) \/ ApproveFails(a) \/ Expire(a)
         \/ Drop(a) \/ Replace(a) \/ Ban(a) \/ Unlink(a)
  PROVE  Told'
<1>. DEFINE s == session[a]
            Keeps(e) == /\ e.deleted = s.deleted /\ e.loggedOut = s.loggedOut /\ e.dropped = s.dropped
                        /\ e.paired = s.paired /\ e.sup = s.sup
<1>1. s # None /\ UNCHANGED <<account, working>>
  BY DEF Authenticate, Approve, ApproveFails, Expire, Drop, Replace, Ban, Unlink, WhatsApp
<1>2. s \in Sessions /\ Sane(account[a], stored[a], s) /\ EventsOK /\ SessionOK /\ Noted(s, events[a])
  BY <1>1, ToldIs
<1>3. CASE Authenticate(a)
  <2>. DEFINE e == [[s EXCEPT !.socket = "online"] EXCEPT !.replaced = FALSE]
  <2>1. e \in Sessions /\ Keeps(e) /\ e.device = s.device /\ e.code = s.code /\ e.socket = "online"
    BY <1>2 DEF Sessions
  <2>2. session' = [session EXCEPT ![a] = e] /\ Raise(a, "Connected")
    BY <1>3 DEF Authenticate
  <2>. HIDE DEF e
  <2>3. Noted(e, events'[a])
    BY <1>1, <1>2, <2>1, <2>2, RaisePends DEF Noted
  <2>. QED
    BY <1>1, <2>1, <2>2, <2>3, RaisingTold
<1>4. CASE Approve(a)
  <2>. PICK d \in Devices \ stored[a] :
         /\ stored' = [stored EXCEPT ![a] = @ \cup {d}]
         /\ session' = [session EXCEPT ![a].device = d, ![a].code = FALSE]
    BY <1>4 DEF Approve
  <2>. DEFINE e == [[s EXCEPT !.device = d] EXCEPT !.code = FALSE]
  <2>1. e \in Sessions /\ Keeps(e) /\ ~e.code /\ e.socket = s.socket
    BY <1>2 DEF Sessions
  <2>2. session' = [session EXCEPT ![a] = e] /\ Raise(a, "PairSuccess") /\ s.code
    BY <1>4 DEF Approve
  <2>. HIDE DEF e
  <2>3. Noted(e, events'[a])
    BY <1>1, <1>2, <2>1, <2>2, RaisePends DEF Noted
  <2>. QED
    BY <1>1, <2>1, <2>2, <2>3, RaisingTold
<1>5. CASE ApproveFails(a)
  <2>. DEFINE e == [s EXCEPT !.code = FALSE]
  <2>1. e \in Sessions /\ Keeps(e) /\ e.device = s.device /\ ~e.code /\ e.socket = s.socket /\ e.replaced = s.replaced
    BY <1>2 DEF Sessions
  <2>2. session' = [session EXCEPT ![a] = e] /\ Raise(a, "PairError")
    BY <1>5 DEF ApproveFails
  <2>. HIDE DEF e
  <2>3. Noted(e, events'[a])
    BY <1>1, <1>2, <2>1, <2>2, RaisePends DEF Noted
  <2>. QED
    BY <1>1, <2>1, <2>2, <2>3, RaisingTold
<1>6. CASE Expire(a)
  <2>. DEFINE e == [[s EXCEPT !.socket = "closed"] EXCEPT !.code = FALSE]
  <2>1. e \in Sessions /\ Keeps(e) /\ e.device = s.device /\ ~e.code
    BY <1>2 DEF Sessions
  <2>2. session' = [session EXCEPT ![a] = e] /\ Raise(a, "Disconnected") /\ s.device = NoDevice
    BY <1>6 DEF Expire, NeedsPairing
  <2>. HIDE DEF e
  <2>3. Noted(e, events'[a])
    BY <2>1, <2>2 DEF Noted
  <2>. QED
    BY <1>1, <2>1, <2>2, <2>3, RaisingTold
<1>7. CASE Drop(a)
  <2>. DEFINE e == [s EXCEPT !.socket = "closed"]
  <2>1. e \in Sessions /\ Keeps(e) /\ e.device = s.device /\ e.code = s.code
    BY <1>2 DEF Sessions
  <2>2. session' = [session EXCEPT ![a] = e] /\ Raise(a, "Disconnected") /\ s.device # NoDevice
    BY <1>7 DEF Drop, Linked
  <2>. HIDE DEF e
  <2>3. Noted(e, events'[a])
    BY <1>1, <1>2, <2>1, <2>2, RaisePends DEF Noted, Sane
  <2>. QED
    BY <1>1, <2>1, <2>2, <2>3, RaisingTold
<1>8. CASE Replace(a)
  <2>. DEFINE e == [[s EXCEPT !.socket = "closed"] EXCEPT !.replaced = TRUE]
  <2>1. e \in Sessions /\ Keeps(e) /\ e.device = s.device /\ e.code = s.code /\ e.replaced
    BY <1>2 DEF Sessions
  <2>2. session' = [session EXCEPT ![a] = e] /\ Raise(a, "StreamReplaced") /\ s.device # NoDevice
    BY <1>8 DEF Replace, Linked
  <2>. HIDE DEF e
  <2>3. Noted(e, events'[a])
    BY <1>1, <1>2, <2>1, <2>2, RaisePends DEF Noted, Sane
  <2>. QED
    BY <1>1, <2>1, <2>2, <2>3, RaisingTold
<1>9. CASE Ban(a)
  <2>1. session' = [session EXCEPT ![a] = s] /\ Raise(a, "TemporaryBan")
    BY <1>2, <1>9 DEF Ban, SessionOK
  <2>2. Noted(s, events'[a])
    BY <1>1, <1>2, <2>1, RaisePends DEF Noted
  <2>. QED
    BY <1>1, <1>2, <2>1, <2>2, RaisingTold
<1>10. CASE Unlink(a)
  <2>1. Linked(a) /\ Forgotten(a) /\ Raise(a, "LoggedOut")
    BY <1>10 DEF Unlink
  <2>2. PICK e \in Sessions : /\ session' = [session EXCEPT ![a] = e]
                              /\ e.deleted /\ ~e.loggedOut /\ ~session[a].loggedOut
                              /\ Sane(account[a], stored'[a], e)
    BY <2>1, ForgottenIs
  <2>3. e # None
    BY <2>2, ParametersAssumption
  <2>4. Noted(e, events'[a])
    BY <2>2, <2>3 DEF Noted, Sane
  <2>. QED
    BY <1>1, <2>1, <2>2, <2>4, RaisingTold
<1>. QED
  BY <1>3, <1>4, <1>5, <1>6, <1>7, <1>8, <1>9, <1>10

-----------------------------------------------------------------------------
(* The client, its supervisor and the control loop.                        *)

\* What an event tells is noted where it says.
LEMMA routeSessionTold ==
  ASSUME Inv, Told, NEW a \in Accounts, routeSession(a)
  PROVE  Told'
<1>. DEFINE s == session[a]
            h == Head(events[a])
            Tells(which) == /\ h.kind = "Disconnected" => "dropped" \in which
                            /\ h.kind = "PairSuccess" => "paired" \in which
                            /\ h.kind = "LoggedOut" => "loggedOut" \in which
<1>1. events[a] # <<>> /\ Handled(a) /\ UNCHANGED working
  BY DEF routeSession, PairSuccess, PairError, Connected, Disconnected, StreamReplaced, LoggedOut, TemporaryBan,
         Handle, Handled
<1>2. SameThere
  <2>1. AccountOK /\ events[a] \in Seq(Event)
    BY DEF Inv, World, Shape, EventsOK
  <2>2. h \in Event
    BY <1>1, <2>1, Dropped
  <2>3. h.live \in BOOLEAN /\ "disconnected" \in Statuses /\ "banned" \in Statuses
    BY <2>2 DEF Event, Statuses
  <2>. QED
    BY <2>1, <2>3, SetStatusThere, SetConnectedThere, AccountRests
       DEF routeSession, PairSuccess, PairError, Connected, Disconnected, StreamReplaced, LoggedOut, TemporaryBan
<1>3. Minded
  BY <1>1, <1>2, SameIsMinded
<1>4. /\ \A b \in Accounts \ {a} : events'[b] = events[b]
      /\ \A k : Pending(events[a], k) => Pending(events'[a], k) \/ (h.kind = k /\ h.live)
  BY <1>1, HandledPends DEF Inv, World, Shape
<1>5. \/ UNCHANGED session /\ h.kind \notin {"Disconnected", "PairSuccess", "LoggedOut"}
      \/ \E which : Signals(a, which) /\ Tells(which)
  BY DEF routeSession, PairSuccess, PairError, Connected, Disconnected, StreamReplaced, LoggedOut, TemporaryBan, Handle
<1>6. CASE UNCHANGED session /\ (h.live => h.kind \notin {"Disconnected", "PairSuccess", "LoggedOut"})
  <2>1. NotedAt(a)'
    BY <1>4, <1>6 DEF Told, NotedAt, Noted
  <2>2. EndedAt(a)'
    BY <1>1, <1>2, <1>4, <1>6 DEF Told, EndedAt, Ended, Exists, Unpairing, SameThere
  <2>. QED
    BY <1>3, <1>4, <1>6, <2>1, <2>2, OneNumber
<1>7. ASSUME h.live, NEW which, Signals(a, which), Tells(which)
      PROVE  Told'
  <2>. DEFINE e == [[[s EXCEPT !.dropped = @ \/ "dropped" \in which]
                        EXCEPT !.paired = s.paired \/ "paired" \in which]
                        EXCEPT !.loggedOut = s.loggedOut \/ "loggedOut" \in which]
  <2>1. s # None
    BY <1>1, <1>7, Dropped DEF Inv, World, Shape, EventsOK, Good, HeardBy
  <2>2. s \in Sessions /\ SessionOK /\ Noted(s, events[a]) /\ EndedAt(a)
    BY <2>1, ToldIs
  <2>3. /\ e \in Sessions /\ e.deleted = s.deleted /\ e.device = s.device /\ e.socket = s.socket
        /\ e.code = s.code /\ e.replaced = s.replaced /\ e.sup = s.sup
        /\ e.dropped = (s.dropped \/ "dropped" \in which) /\ e.paired = (s.paired \/ "paired" \in which)
        /\ e.loggedOut = (s.loggedOut \/ "loggedOut" \in which)
    BY <2>2 DEF Sessions
  <2>4. session' = [session EXCEPT ![a] = e]
    BY <1>7 DEF Signals
  <2>. HIDE DEF e
  <2>5. session'[a] = e /\ \A b \in Accounts \ {a} : session'[b] = session[b]
    BY <2>2, <2>3, <2>4, SessionMoves
  <2>6. NotedAt(a)'
    BY <1>4, <1>7, <2>1, <2>2, <2>3, <2>5 DEF NotedAt, Noted
  <2>7. EndedAt(a)'
    BY <1>1, <1>2, <1>4, <1>7, <2>1, <2>2, <2>3, <2>5 DEF EndedAt, Ended, Exists, Unpairing, SameThere
  <2>. QED
    BY <1>3, <1>4, <2>5, <2>6, <2>7, OneNumber
<1>8. ASSUME ~h.live, NEW which, Signals(a, which)
      PROVE  UNCHANGED session
  BY <1>8 DEF Signals
<1>. QED
  BY <1>5, <1>6, <1>7, <1>8

\* A session changes, nothing is raised or handled, and no device is deleted.
LEMMA SessionTold ==
  ASSUME Inv, Told, NEW a \in Accounts, session[a] # None, NEW e \in Sessions, session' = [session EXCEPT ![a] = e],
         UNCHANGED events, SameThere, UNCHANGED working \/ ~Unpairing(a), Minded,
         Noted(e, events[a]), e.deleted = session[a].deleted, e.loggedOut = session[a].loggedOut
  PROVE  Told'
<1>1. SessionOK' /\ session'[a] = e /\ e # None /\ \A b \in Accounts \ {a} : session'[b] = session[b]
  BY SessionMoves DEF Inv, World, Shape
<1>2. NotedAt(a)'
  BY <1>1 DEF NotedAt
<1>3. EndedAt(a)'
  BY <1>1 DEF Told, EndedAt, Ended, Exists, Unpairing, SameThere
<1>. QED
  BY <1>1, <1>2, <1>3, OneNumber

\* A drop that is taken is looked after: reconnect loops while there is a device.
LEMMA superviseTold ==
  ASSUME Inv, Told, NEW a \in Accounts, supervise(a)
  PROVE  Told'
<1>. DEFINE s == session[a]
            Keeps(e) == /\ e.deleted = s.deleted /\ e.loggedOut = s.loggedOut /\ e.device = s.device
                        /\ e.code = s.code /\ e.replaced = s.replaced
<1>1. s # None /\ UNCHANGED <<account, stored, process, events, rescan, control, working, admin>>
  BY DEF supervise, TakeDrop, reconnect, GiveUp, TakePaired, Supervisor
<1>2. s \in Sessions /\ Noted(s, events[a])
  BY <1>1, ToldIs
<1>3. SameThere /\ Minded
  BY <1>1, AccountRests, SameIsMinded DEF Inv, World, Shape
<1>4. CASE TakeDrop(a)
  <2>. DEFINE e == [[s EXCEPT !.dropped = FALSE] EXCEPT !.sup = IF NeedsPairing(a) THEN "unpaired" ELSE "retrying"]
  <2>1. /\ e \in Sessions /\ Keeps(e) /\ e.socket = s.socket
        /\ e.sup = IF s.device = NoDevice THEN "unpaired" ELSE "retrying"
    BY <1>2 DEF Sessions, NeedsPairing
  <2>2. session' = [session EXCEPT ![a] = e]
    BY <1>4 DEF TakeDrop
  <2>. HIDE DEF e
  <2>3. Noted(e, events[a])
    BY <1>1, <1>2, <2>1 DEF Noted
  <2>. QED
    BY <1>1, <1>3, <2>1, <2>2, <2>3, SessionTold
<1>5. CASE reconnect(a)
  <2>. DEFINE e == [[s EXCEPT !.sup = "waiting"] EXCEPT !.socket = IF s.socket = "closed" THEN "open" ELSE s.socket]
  <2>1. e \in Sessions /\ Keeps(e) /\ e.socket # "closed" /\ e.sup = "waiting"
    BY <1>2 DEF Sessions
  <2>2. session' = [session EXCEPT ![a] = e]
    BY <1>5 DEF reconnect
  <2>. HIDE DEF e
  <2>3. Noted(e, events[a])
    BY <2>1 DEF Noted
  <2>. QED
    BY <1>1, <1>3, <2>1, <2>2, <2>3, SessionTold
<1>6. CASE GiveUp(a)
  <2>. DEFINE e == [s EXCEPT !.sup = "unpaired"]
  <2>1. e \in Sessions /\ Keeps(e) /\ e.socket = s.socket /\ s.device = NoDevice
    BY <1>2, <1>6 DEF Sessions, GiveUp, NeedsPairing
  <2>2. session' = [session EXCEPT ![a] = e]
    BY <1>6 DEF GiveUp
  <2>. HIDE DEF e
  <2>3. Noted(e, events[a])
    BY <1>1, <1>2, <2>1 DEF Noted
  <2>. QED
    BY <1>1, <1>3, <2>1, <2>2, <2>3, SessionTold
<1>7. CASE TakePaired(a)
  <2>. DEFINE e == [[s EXCEPT !.paired = FALSE] EXCEPT !.sup = "waiting"]
  <2>1. /\ e \in Sessions /\ Keeps(e) /\ e.socket = s.socket /\ e.dropped = s.dropped
        /\ e.sup = "waiting" /\ s.sup = "unpaired"
    BY <1>2, <1>7 DEF Sessions, TakePaired, Supervisor
  <2>2. session' = [session EXCEPT ![a] = e]
    BY <1>7 DEF TakePaired
  <2>. HIDE DEF e
  <2>3. Noted(e, events[a])
    BY <1>1, <1>2, <2>1 DEF Noted
  <2>. QED
    BY <1>1, <1>3, <2>1, <2>2, <2>3, SessionTold
<1>. QED
  BY <1>4, <1>5, <1>6, <1>7 DEF supervise

\* A nudge is a drop; what asks for a code has an open socket.
LEMMA PairingTold ==
  ASSUME Inv, Told, NEW a \in Accounts, Nudge(a) \/ OpenToPair(a) \/ PairPhone(a)
  PROVE  Told'
<1>. DEFINE s == session[a]
            Keeps(e) == /\ e.deleted = s.deleted /\ e.loggedOut = s.loggedOut /\ e.device = s.device
                        /\ e.sup = s.sup /\ e.paired = s.paired /\ e.replaced = s.replaced
<1>1. UNCHANGED events /\ \A b \in Accounts : ~Unpairing(b)
  BY DEF Nudge, OpenToPair, PairPhone, At, Unpairing, Leaving
<1>2. SameThere
  <2>1. AccountOK /\ "disconnected" \in Statuses
    BY DEF Inv, World, Shape, Statuses
  <2>. QED
    BY <2>1, SetStatusThere, AccountRests DEF Nudge, OpenToPair, PairPhone
<1>3. Minded
  BY <1>1, <1>2, SameIsMinded
<1>4. CASE UNCHANGED session
  BY <1>1, <1>3, <1>4, NobodyChanges
<1>5. CASE ~UNCHANGED session
  <2>1. s # None
    BY <1>5 DEF Nudge, OpenToPair, PairPhone, Alive
  <2>2. s \in Sessions /\ Noted(s, events[a])
    BY <2>1, ToldIs
  <2>3. CASE Nudge(a)
    <3>. DEFINE e == [s EXCEPT !.dropped = TRUE]
    <3>1. e \in Sessions /\ Keeps(e) /\ e.code = s.code /\ e.socket = s.socket /\ e.dropped
      BY <2>2 DEF Sessions
    <3>2. session' = [session EXCEPT ![a] = e]
      BY <1>5, <2>3 DEF Nudge
    <3>. HIDE DEF e
    <3>3. Noted(e, events[a])
      BY <2>1, <2>2, <3>1 DEF Noted
    <3>. QED
      BY <1>1, <1>2, <1>3, <2>1, <3>1, <3>2, <3>3, SessionTold
  <2>4. CASE OpenToPair(a)
    <3>. DEFINE e == [s EXCEPT !.socket = IF s.socket = "closed" THEN "open" ELSE s.socket]
    <3>1. e \in Sessions /\ Keeps(e) /\ e.socket # "closed"
      BY <2>2 DEF Sessions
    <3>2. session' = [session EXCEPT ![a] = e]
      BY <2>4 DEF OpenToPair
    <3>. HIDE DEF e
    <3>3. Noted(e, events[a])
      BY <2>1, <2>2, <3>1 DEF Noted
    <3>. QED
      BY <1>1, <1>2, <1>3, <2>1, <3>1, <3>2, <3>3, SessionTold
  <2>5. CASE PairPhone(a)
    <3>. DEFINE e == [s EXCEPT !.code = TRUE]
    <3>1. e \in Sessions /\ Keeps(e) /\ e.socket = s.socket /\ s.socket # "closed" /\ s.device = NoDevice
      BY <2>2, <2>5 DEF Sessions, PairPhone, NeedsPairing, IsConnected
    <3>2. session' = [session EXCEPT ![a] = e]
      BY <2>5 DEF PairPhone
    <3>. HIDE DEF e
    <3>3. Noted(e, events[a])
      BY <3>1 DEF Noted
    <3>. QED
      BY <1>1, <1>2, <1>3, <2>1, <3>1, <3>2, <3>3, SessionTold
  <2>. QED
    BY <2>3, <2>4, <2>5
<1>. QED
  BY <1>4, <1>5

\* The loop deletes a device, and goes on to restart the session.
LEMMA LogoutTold ==
  ASSUME Inv, Told, NEW a \in Accounts, Unpair(a) \/ GiveUpPairing(a)
  PROVE  Told'
<1>1. At(a, "disconnect") \/ At(a, "delete")
  BY DEF Unpair, GiveUpPairing
<1>2. working \in Work /\ working.account = a /\ UNCHANGED <<account, events>>
  BY <1>1, AtIs DEF Unpair, GiveUpPairing
<1>3. \A b \in Accounts : ~Unpairing(b)
  BY <1>1 DEF At, Unpairing, Leaving
<1>4. SameThere
  BY <1>2, AccountRests DEF Inv, World, Shape
<1>5. Minded
  BY <1>3, <1>4, SameIsMinded
<1>6. Unpairing(a)'
  <2>1. PICK step \in Leaving : working' = [working EXCEPT !.step = step]
    BY DEF Unpair, GiveUpPairing, NextStep, Leaving
  <2>2. working' \in Work /\ working'.account = a /\ working'.step = step
    BY <1>2, <2>1 DEF Work
  <2>3. working # None
    BY <1>1 DEF At
  <2>4. working' # None
    BY <2>2, ParametersAssumption
  <2>. QED
    BY <2>2, <2>4 DEF Unpairing, Leaving
<1>7. CASE UNCHANGED session
  BY <1>2, <1>5, <1>7, NobodyChanges
<1>8. CASE ~UNCHANGED session
  <2>1. Linked(a) /\ Forgotten(a)
    BY <1>8 DEF Unpair, GiveUpPairing, Logout
  <2>2. PICK e \in Sessions : /\ session' = [session EXCEPT ![a] = e]
                              /\ e.deleted /\ ~e.loggedOut /\ ~session[a].loggedOut
                              /\ Sane(account[a], stored'[a], e)
    BY <2>1, ForgottenIs
  <2>3. session'[a] = e /\ e # None /\ \A b \in Accounts \ {a} : session'[b] = session[b]
    BY <2>2, SessionMoves DEF Inv, World, Shape
  <2>4. NotedAt(a)'
    BY <2>2, <2>3 DEF NotedAt, Noted, Sane
  <2>5. EndedAt(a)'
    BY <1>6 DEF EndedAt
  <2>. QED
    BY <1>2, <1>5, <2>3, <2>4, <2>5, OneNumber
<1>. QED
  BY <1>7, <1>8

\* The steps of the loop that leave the sessions alone.
LEMMA RowStepsTold ==
  ASSUME Inv, Told, NEW a \in Accounts,
         Pair(a) \/ Announce(a) \/ PairFails(a) \/ UnpairFails(a) \/ Record(a) \/ ClearNumber(a)
  PROVE  Told'
<1>1. PICK step : At(a, step)
  BY DEF Pair, Announce, PairFails, UnpairFails, Record, ClearNumber
<1>2. working \in Work /\ working # None /\ working.account = a /\ UNCHANGED <<session, events>>
  BY <1>1, AtIs DEF Pair, Announce, PairFails, UnpairFails, Record, ClearNumber
<1>3. AccountOK /\ "disconnected" \in Statuses /\ account[a] \in Account
  BY DEF Inv, World, Shape, Statuses, AccountOK
<1>4. SameThere
  <2>1. Alive(a) \in BOOLEAN
    BY <1>2 DEF Alive, Work
  <2>2. CASE ClearNumber(a)
    <3>. DEFINE e == [account[a] EXCEPT !.jid = FALSE]
    <3>1. e \in Account /\ e.there = account[a].there
      BY <1>3 DEF Account
    <3>2. account' = [account EXCEPT ![a] = e]
      BY <2>2 DEF ClearNumber
    <3>. HIDE DEF e
    <3>. QED
      BY <1>3, <3>1, <3>2 DEF AccountOK, SameThere
  <2>. QED
    BY <1>3, <2>1, <2>2, SetStatusThere, SetConnectedThere, AccountRests
       DEF Pair, Announce, PairFails, UnpairFails, Record
<1>5. CASE Record(a) \/ ClearNumber(a)
  <2>1. PICK next \in Leaving : working' = [working EXCEPT !.step = next]
    BY <1>5 DEF Record, ClearNumber, NextStep, Leaving
  <2>2. working' \in Work /\ working'.account = a /\ working'.step = next
    BY <1>2, <2>1 DEF Work
  <2>3. working' # None
    BY <2>2, ParametersAssumption
  <2>4. Minded
    BY <1>2, <1>4, <2>2, <2>3 DEF Minded, SameThere, Exists, Unpairing
  <2>. QED
    BY <1>2, <2>4, NobodyChanges
<1>6. CASE ~(Record(a) \/ ClearNumber(a))
  <2>1. \A b \in Accounts : ~Unpairing(b)
    BY <1>6 DEF Pair, Announce, PairFails, UnpairFails, At, Unpairing, Leaving
  <2>2. Minded
    BY <1>4, <2>1, SameIsMinded
  <2>. QED
    BY <1>2, <2>2, NobodyChanges
<1>. QED
  BY <1>5, <1>6

\* The last step of an unpairing, and the watch, take the session with them.
LEMMA RestartTold ==
  ASSUME Inv, Told, NEW a \in Accounts, RestartAsked(a) \/ watchForLogout(a)
  PROVE  Told'
<1>1. Restart(a) /\ UNCHANGED account
  BY DEF RestartAsked, watchForLogout
<1>2. SessionOK /\ EventsOK
  BY DEF Inv, World, Shape
<1>3. session'[a] = None /\ \A b \in Accounts \ {a} : session'[b] = session[b] /\ events'[b] = events[b]
  BY <1>1, <1>2 DEF Restart, SessionOK, EventsOK
<1>4. \A b \in Accounts : Unpairing(b) => Unpairing(b)' \/ session'[b] = None
  <2>1. CASE RestartAsked(a)
    BY <1>3, <2>1 DEF RestartAsked, At, Unpairing
  <2>2. CASE watchForLogout(a)
    BY <1>3, <2>2 DEF watchForLogout, Orphan, Unpairing
  <2>. QED
    BY <2>1, <2>2
<1>5. Minded
  BY <1>1, <1>4 DEF Minded, Exists
<1>. QED
  BY <1>3, <1>5, NobodyChanges

\* A fresh session is open, or its supervisor has been nudged.
LEMMA EnsureTold ==
  ASSUME Inv, Told, NEW a \in Accounts, Ensure(a)
  PROVE  Told'
<1>1. UNCHANGED <<events, working>> /\ SessionOK /\ AccountOK /\ StoredOK
  BY DEF Ensure, Inv, World, Shape
<1>2. SameThere
  BY <1>1, SetStatusThere, AccountRests DEF Ensure, ensure, Statuses
<1>3. Minded
  BY <1>1, <1>2, SameIsMinded
<1>4. CASE UNCHANGED session
  BY <1>1, <1>3, <1>4, NobodyChanges
<1>5. CASE ~UNCHANGED session
  <2>. PICK d \in deviceFor(a, rescan.list[a]), opened \in BOOLEAN :
         session' = [session EXCEPT ![a] = NewSession(d, opened)]
    BY <1>5 DEF Ensure, ensure
  <2>. DEFINE e == NewSession(d, opened)
  <2>1. d \in Devices \cup {NoDevice}
    BY <1>1 DEF deviceFor, StoredOK
  <2>2. /\ e \in Sessions /\ ~e.deleted /\ ~e.code /\ e.sup = "waiting"
        /\ e.socket = "closed" => e.dropped
    BY <2>1 DEF NewSession, Sessions
  <2>3. session' = [session EXCEPT ![a] = e]
    OBVIOUS
  <2>. HIDE DEF e
  <2>4. session'[a] = e /\ \A b \in Accounts \ {a} : session'[b] = session[b]
    BY <1>1, <2>2, <2>3, SessionMoves
  <2>5. NotedAt(a)' /\ EndedAt(a)'
    BY <2>2, <2>4 DEF NotedAt, Noted, EndedAt, Ended
  <2>. QED
    BY <1>1, <1>3, <2>4, <2>5, OneNumber
<1>. QED
  BY <1>4, <1>5

\* The steps of the process, its rescan, the admin and the queue.
LEMMA OthersTold ==
  ASSUME Inv, Told,
         \/ UNCHANGED vars \/ Start \/ ReadAccounts \/ ReadFails \/ Crash \/ closeOrphans \/ TakeControl
         \/ MarkPairing \/ publishControl \/ rollbackStatus
         \/ \E a \in Accounts : CreateAccount(a) \/ Connect(a) \/ Disconnect(a) \/ DeleteAccount(a)
  PROVE  Told'
<1>1. AccountOK
  BY DEF Inv, World, Shape
<1>2. CASE Crash
  <2>1. \A b \in Accounts : session'[b] = None
    BY <1>2 DEF Crash
  <2>. QED
    BY <2>1 DEF Told, NotedAt, EndedAt, Noted, Ended
<1>3. CASE closeOrphans
  <2>1. UNCHANGED account /\ \A b \in Accounts : session'[b] = None \/ (session'[b] = session[b] /\ events'[b] = events[b])
    BY <1>3 DEF closeOrphans
  <2>2. ASSUME NEW b \in Accounts, Unpairing(b) PROVE Unpairing(b)'
    <3>1. working \in Work /\ working # None
      BY <2>2 DEF Unpairing, Inv, Jobs, WorkingOK
    <3>2. working' = working \/ working' = [working EXCEPT !.live = FALSE]
      BY <1>3 DEF closeOrphans
    <3>3. working' \in Work /\ working'.account = working.account /\ working'.step = working.step
      BY <3>1, <3>2 DEF Work
    <3>. QED
      BY <2>2, <3>3, ParametersAssumption DEF Unpairing
  <2>3. Minded
    BY <2>1, <2>2 DEF Minded, Exists
  <2>. QED
    BY <2>1, <2>3, NobodyChanges
<1>4. CASE UNCHANGED vars \/ Start \/ ReadAccounts \/ ReadFails \/ TakeControl \/ MarkPairing \/ publishControl \/ rollbackStatus
  <2>1. UNCHANGED <<session, events>>
    BY <1>4 DEF vars, Start, ReadAccounts, ReadFails, TakeControl, MarkPairing, publishControl, rollbackStatus, AdminAt
  <2>2. SameThere
    <3>1. CASE MarkPairing \/ rollbackStatus
      <4>1. admin \in Click
        BY <3>1 DEF MarkPairing, rollbackStatus, AdminAt, Inv, Jobs, AdminOK
      <4>2. admin.account \in Accounts /\ admin.before \in Statuses /\ "pairing" \in Statuses
        BY <4>1 DEF Click, Statuses
      <4>. QED
        BY <1>1, <3>1, <4>2, SetStatusThere, AccountRests DEF MarkPairing, rollbackStatus
    <3>2. CASE ~(MarkPairing \/ rollbackStatus)
      BY <1>1, <1>4, <3>2, AccountRests DEF vars, Start, ReadAccounts, ReadFails, TakeControl, publishControl
    <3>. QED
      BY <3>1, <3>2
  <2>3. UNCHANGED working \/ working = None
    BY <1>4 DEF vars, Start, ReadAccounts, ReadFails, TakeControl, MarkPairing, publishControl, rollbackStatus, AdminAt
  <2>4. Minded
    BY <2>2, <2>3, SameIsMinded
  <2>. QED
    BY <2>1, <2>4, NobodyChanges
<1>5. ASSUME NEW a \in Accounts, CreateAccount(a) \/ Connect(a) \/ Disconnect(a) \/ DeleteAccount(a)
      PROVE  Told'
  <2>1. UNCHANGED <<session, events, working>>
    BY <1>5 DEF CreateAccount, Connect, Disconnect, DeleteAccount, Serve
  <2>2. \A b \in Accounts : session[b] # None /\ Exists(b)' => Exists(b)
    <3>1. CASE CreateAccount(a)
      BY <1>1, <3>1, SessionsAreMade DEF CreateAccount, AccountOK, Exists
    <3>2. CASE DeleteAccount(a)
      <4>1. account' = [account EXCEPT ![a].there = "gone"] /\ account[a] \in Account
        BY <1>1, <3>2 DEF DeleteAccount, AccountOK
      <4>2. account'[a].there = "gone" /\ \A b \in Accounts \ {a} : account'[b] = account[b]
        BY <1>1, <4>1 DEF Account, AccountOK
      <4>. QED
        BY <4>2 DEF Exists
    <3>3. CASE Connect(a) \/ Disconnect(a)
      BY <3>3 DEF Connect, Disconnect, Exists
    <3>. QED
      BY <1>5, <3>1, <3>2, <3>3
  <2>3. Minded
    BY <2>1, <2>2 DEF Minded, Unpairing
  <2>. QED
    BY <2>1, <2>3, NobodyChanges
<1>. QED
  BY <1>2, <1>3, <1>4, <1>5

LEMMA StepTold ==
  ASSUME Inv, Told, [Next]_vars
  PROVE  Told'
<1>1. ASSUME NEW a \in Accounts, applyControl(a) PROVE Told'
  BY <1>1, PairingTold, LogoutTold, RowStepsTold, RestartTold DEF applyControl
<1>2. ASSUME NEW a \in Accounts,
             \/ Approve(a) \/ ApproveFails(a) \/ Drop(a) \/ Replace(a) \/ Ban(a) \/ Unlink(a)
             \/ Authenticate(a) \/ Expire(a) \/ routeSession(a) \/ supervise(a) \/ watchForLogout(a) \/ Ensure(a)
      PROVE  Told'
  BY <1>2, WhatsAppTold, routeSessionTold, superviseTold, RestartTold, EnsureTold
<1>. HIDE DEF Told
<1>. QED
  BY <1>1, <1>2, OthersTold DEF Next, Environment, sync

LEMMA InitTold == Init => Told
BY DEF Init, Told, NotedAt, EndedAt, Noted, Ended

LEMMA ToldStays == Spec => []Told
<1>1. Inv /\ Told /\ [Next]_vars => Told'
  BY StepTold
<1>. QED
  BY InitTold, InvStays, <1>1, PTL DEF Spec

LEMMA PendingAwaits == \A a, kind : Pending(events[a], kind) <=> Awaits(a, kind)
BY DEF Pending, Awaits

\* supervise, watchForLogout: for any numbers, devices, clicks and troubles, a
\* linked session whose socket is closed, one whose supervisor waits for a device
\* it has, and one of an existing number whose device was deleted, always have
\* somebody about to act on it; none of the three is ever forgotten between the
\* client, its goroutines and the control loop.
THEOREM NothingIsForgotten == Spec => []NothingGoesUnnoted
<1>1. Told => NothingGoesUnnoted
  <2>. SUFFICES ASSUME Told PROVE NothingGoesUnnoted
    OBVIOUS
  <2>1. DropIsNoted
    BY PendingAwaits DEF Told, NotedAt, Noted, DropIsNoted, Linked, IsConnected
  <2>2. LogoutIsNoted
    BY PendingAwaits DEF Told, EndedAt, Ended, Unpairing, LogoutIsNoted
  <2>. QED
    BY <2>1, <2>2 DEF NothingGoesUnnoted
<1>. QED
  BY ToldStays, <1>1, PTL

-----------------------------------------------------------------------------
(* What becomes of a deleted number.                                       *)

\* A row that was deleted does not come back.
LEMMA GoneStays ==
  ASSUME Inv, [Next]_vars, NEW a \in Accounts, Gone(a)
  PROVE  Gone(a)'
<1>1. AccountOK /\ \A b \in Accounts : account[b] \in Account
  BY DEF Inv, World, Shape, AccountOK
<1>2. ASSUME NEW b \in Accounts, NEW s, SetStatus(b, s) PROVE Gone(a)'
  BY <1>1, <1>2 DEF SetStatus, AccountOK, Account, Gone
<1>3. ASSUME NEW b \in Accounts, NEW live, SetConnected(b, live) PROVE Gone(a)'
  BY <1>1, <1>3 DEF SetConnected, AccountOK, Account, Gone
<1>4. ASSUME UNCHANGED account PROVE Gone(a)'
  BY <1>4 DEF Gone
<1>5. ASSUME NEW b \in Accounts, CreateAccount(b) \/ DeleteAccount(b) \/ ClearNumber(b) PROVE Gone(a)'
  BY <1>1, <1>5 DEF CreateAccount, DeleteAccount, ClearNumber, AccountOK, Account, Gone
<1>6. ASSUME MarkPairing \/ rollbackStatus PROVE Gone(a)'
  <2>1. admin \in Click /\ admin.account \in Accounts
    BY <1>6 DEF MarkPairing, rollbackStatus, AdminAt, Inv, Jobs, AdminOK, Click
  <2>. QED
    BY <1>2, <1>4, <1>6, <2>1 DEF MarkPairing, rollbackStatus
<1>7. ASSUME NEW b \in Accounts, routeSession(b) PROVE Gone(a)'
  BY <1>2, <1>3, <1>4, <1>7
     DEF routeSession, PairSuccess, PairError, Connected, Disconnected, StreamReplaced, LoggedOut, TemporaryBan
<1>8. ASSUME NEW b \in Accounts, applyControl(b) PROVE Gone(a)'
  BY <1>2, <1>3, <1>4, <1>5, <1>8
     DEF applyControl, Pair, Announce, Nudge, OpenToPair, PairPhone, PairFails, Unpair, UnpairFails, Record,
         GiveUpPairing, RestartAsked
<1>9. ASSUME NEW b \in Accounts, Ensure(b) PROVE Gone(a)'
  BY <1>2, <1>4, <1>9 DEF Ensure, ensure
<1>10. ASSUME NEW b \in Accounts,
              \/ Authenticate(b) \/ Approve(b) \/ ApproveFails(b) \/ Expire(b) \/ Drop(b) \/ Replace(b) \/ Ban(b)
              \/ Unlink(b) \/ supervise(b) \/ watchForLogout(b) \/ Connect(b) \/ Disconnect(b)
       PROVE  Gone(a)'
  <2>1. UNCHANGED account
    BY <1>10 DEF Authenticate, Approve, ApproveFails, Expire, Drop, Replace, Ban, Unlink, WhatsApp,
       supervise, TakeDrop, reconnect, GiveUp, TakePaired, Supervisor, watchForLogout, Connect, Disconnect
  <2>. QED
    BY <1>4, <2>1
<1>11. ASSUME Start \/ ReadAccounts \/ ReadFails \/ closeOrphans \/ Crash \/ TakeControl \/ publishControl \/ UNCHANGED vars
       PROVE  Gone(a)'
  <2>1. UNCHANGED account
    BY <1>11 DEF Start, ReadAccounts, ReadFails, closeOrphans, Crash, TakeControl, publishControl, vars
  <2>. QED
    BY <1>4, <2>1
<1>. HIDE DEF Gone
<1>. QED
  BY <1>5, <1>6, <1>7, <1>8, <1>9, <1>10, <1>11 DEF Next, Environment, sync

\* closeOrphans, ensure: once a deleted number has no session and the rescan
\* under way has not read it, no step of anybody ever gives it one.
THEOREM DeletedStaysLetGo == Spec => LetGoStays
<1>1. ASSUME Inv, [Next]_vars, NEW a \in Accounts, LetGo(a) PROVE LetGo(a)'
  <2>1. Gone(a)'
    BY <1>1, GoneStays DEF LetGo, Gone
  <2>2. CASE \E b \in Accounts : Ensure(b)
    <3>. PICK b \in Accounts : Ensure(b)
      BY <2>2
    <3>1. rescan.step = "ensure" /\ b \in rescan.todo /\ rescan' = [rescan EXCEPT !.todo = @ \ {b}]
      BY DEF Ensure
    <3>2. rescan.list[a] = None /\ a \notin rescan.todo
      BY <1>1, <3>1 DEF LetGo, Inv, World, Fresh
    <3>3. session'[a] = None
      BY <1>1, <3>1, <3>2 DEF Ensure, ensure, LetGo, Inv, World, Shape, SessionOK
    <3>4. rescan'.list = rescan.list
      BY <1>1, <3>1 DEF Inv, World, Shape, RestOK, Rescan
    <3>. QED
      BY <2>1, <3>2, <3>3, <3>4 DEF LetGo, Gone
  <2>3. CASE ReadAccounts
    <3>1. session'[a] = None /\ account' = account
      BY <1>1, <2>3 DEF ReadAccounts, LetGo
    <3>2. rescan'.list[a] = None
      BY <1>1, <2>3 DEF ReadAccounts, LetGo, Exists
    <3>. QED
      BY <2>1, <3>1, <3>2 DEF LetGo, Gone
  <2>4. CASE ReadFails \/ closeOrphans \/ Crash
    <3>1. session'[a] = None
      BY <1>1, <2>4 DEF ReadFails, closeOrphans, Crash, LetGo
    <3>2. rescan'.step = "idle"
      BY <2>4, RestingIs DEF ReadFails, closeOrphans, Crash, EndSync
    <3>. QED
      BY <2>1, <3>1, <3>2 DEF LetGo, Gone
  <2>5. CASE UNCHANGED rescan /\ session'[a] = None
    BY <1>1, <2>1, <2>5 DEF LetGo, Gone
  <2>6. ASSUME NEW b \in Accounts,
               \/ Authenticate(b) \/ Approve(b) \/ ApproveFails(b) \/ Expire(b) \/ Drop(b) \/ Replace(b) \/ Ban(b)
               \/ Unlink(b) \/ routeSession(b) \/ supervise(b) \/ watchForLogout(b) \/ applyControl(b)
        PROVE  UNCHANGED rescan /\ session'[a] = None
    <3>1. UNCHANGED rescan
      BY <2>6 DEF Authenticate, Approve, ApproveFails, Expire, Drop, Replace, Ban, Unlink, WhatsApp,
         routeSession, PairSuccess, PairError, Connected, Disconnected, StreamReplaced, LoggedOut, TemporaryBan,
         Handled, supervise, TakeDrop, reconnect, GiveUp, TakePaired, Supervisor, watchForLogout,
         applyControl, Pair, Announce, Nudge, OpenToPair, PairPhone, PairFails, Unpair, UnpairFails, Record,
         ClearNumber, GiveUpPairing, RestartAsked, At
    <3>2. session[a] = None /\ SessionOK /\ HeardBy(events[a], session[a]) /\ EventsOK
      BY <1>1 DEF LetGo, Inv, World, Shape, Good
    <3>3. CASE \/ Authenticate(b) \/ Approve(b) \/ ApproveFails(b) \/ Expire(b) \/ Drop(b) \/ Replace(b) \/ Ban(b)
               \/ Unlink(b) \/ supervise(b) \/ watchForLogout(b)
      <4>1. session[b] # None
        BY <3>3 DEF Authenticate, Approve, ApproveFails, Expire, Drop, Replace, Ban, Unlink, WhatsApp,
           supervise, TakeDrop, reconnect, GiveUp, TakePaired, Supervisor, watchForLogout
      <4>2. UNCHANGED session \/ \E e : session' = [session EXCEPT ![b] = e]
        BY <3>3 DEF Authenticate, Approve, ApproveFails, Expire, Drop, Replace, Ban, Unlink, Forgotten,
           supervise, TakeDrop, reconnect, GiveUp, TakePaired, watchForLogout, Restart
      <4>. QED
        BY <3>1, <3>2, <4>1, <4>2 DEF SessionOK
    <3>4. CASE routeSession(b)
      <4>1. UNCHANGED session \/ \E which : Signals(b, which)
        BY <3>4 DEF routeSession, PairSuccess, PairError, Connected, Disconnected, StreamReplaced, LoggedOut, TemporaryBan
      <4>2. events[b] # <<>>
        BY <3>4 DEF routeSession, PairSuccess, PairError, Connected, Disconnected, StreamReplaced, LoggedOut,
           TemporaryBan, Handle
      <4>3. events[b] \in Seq(Event) /\ Head(events[b]) = events[b][1] /\ 1 \in DOMAIN events[b]
        BY <3>2, <4>2, Dropped DEF EventsOK
      <4>4. Head(events[b]).live => b # a
        BY <3>2, <4>3 DEF HeardBy
      <4>. QED
        BY <3>1, <3>2, <4>1, <4>4 DEF Signals, SessionOK
    <3>5. CASE applyControl(b)
      <4>1. \/ UNCHANGED session \/ session' = [session EXCEPT ![b] = None]
            \/ Alive(b) /\ \E e : session' = [session EXCEPT ![b] = e]
        BY <3>5 DEF applyControl, Pair, Announce, Nudge, OpenToPair, PairPhone, PairFails, Unpair, UnpairFails, Record,
           ClearNumber, GiveUpPairing, RestartAsked, Restart, Logout, Forgotten
      <4>. QED
        BY <3>1, <3>2, <4>1 DEF Alive, SessionOK
    <3>. QED
      BY <2>6, <3>3, <3>4, <3>5
  <2>7. ASSUME NEW b \in Accounts, CreateAccount(b) \/ Connect(b) \/ Disconnect(b) \/ DeleteAccount(b)
        PROVE  UNCHANGED <<rescan, session>>
    BY <2>7 DEF CreateAccount, Connect, Disconnect, DeleteAccount, Serve
  <2>8. ASSUME Start \/ TakeControl \/ MarkPairing \/ publishControl \/ rollbackStatus \/ UNCHANGED vars
        PROVE  UNCHANGED <<rescan, session>>
    BY <2>8 DEF Start, TakeControl, MarkPairing, publishControl, rollbackStatus, AdminAt, vars
  <2>9. session[a] = None
    BY <1>1 DEF LetGo
  <2>10. CASE UNCHANGED <<rescan, session>>
    BY <2>5, <2>9, <2>10
  <2>. QED
    BY <1>1, <2>2, <2>3, <2>4, <2>5, <2>6, <2>7, <2>8, <2>10 DEF Next, Environment, sync
<1>2. Inv /\ [Next]_vars => [\A a \in Accounts : LetGo(a) => LetGo(a)']_vars
  BY <1>1
<1>. QED
  BY InvStays, <1>2, PTL DEF Spec, LetGoStays
=============================================================================
