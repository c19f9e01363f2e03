------------------------------- MODULE BleLink -------------------------------
(***************************************************************************)
(* The connection side of BleKeyboardHost: the application's main loop     *)
(* (begin, end, connect, disconnect, scans, bonds, the reconnect plan and  *)
(* poll()), the connection task that dials, pairs and subscribes, and the  *)
(* NimBLE host task that reports the link gone.  end() waits for the other *)
(* two and gives up after its budget, to be called again.                  *)
(***************************************************************************)
EXTENDS Naturals, SequencesExt

CONSTANTS Peer, NoPeer,
          MaxBonds,          \* kMaxBonds
          SelectedAttempts   \* kSelectedReconnectAttempts

ASSUME LinkAssumption ==
  /\ NoPeer \notin Peer
  /\ MaxBonds \in Nat \ {0} /\ SelectedAttempts \in Nat \ {0}

VARIABLES
  begun, stopping, stack,       \* begun_, g_teardownPending, NimBLEDevice::isInitialized()
  caller,                       \* where the main loop stands in end() or startScan()
  conn, target, busy,           \* the connection task, its target, g_connecting
  link, client, observed,       \* NimBLE's link, g_client # nullptr, g_disconnectObserved
  connected, connAddr,          \* connected_, connAddr_
  auto, plan, due, turn,        \* g_autoReconnect, g_selected..., back-off over, g_reconnectIdx
  bonds, scanning,
  missed, refused               \* the link was gone before onLinkUp(); a dial was refused by a live link
stackVars == <<begun, stopping, stack, caller>>
linkVars == <<link, client, observed>>
planVars == <<auto, plan, due, turn>>
hostVars == <<stackVars, conn, target, busy, linkVars, connected, connAddr, planVars, bonds, scanning, missed, refused>>

CallerStep == {"idle", "scanWait", "clear", "waitConn", "waitLink", "deinit", "finish"}
ConnStep == {"none", "idle", "notified", "dial", "bringUp", "linkUp", "done"}
NoPlan == [peer |-> NoPeer, left |-> 0, open |-> FALSE]
FreshPlan(p) == [peer |-> p, left |-> SelectedAttempts, open |-> TRUE]

LinkTypeOK ==
  /\ begun \in BOOLEAN /\ stopping \in BOOLEAN /\ stack \in BOOLEAN /\ caller \in CallerStep
  /\ conn \in ConnStep /\ target \in [peer : Peer \cup {NoPeer}, alt : BOOLEAN] /\ busy \in BOOLEAN
  /\ link \in {"down", "up", "closing", "gone"} /\ client \in BOOLEAN /\ observed \in BOOLEAN
  /\ connected \in BOOLEAN /\ connAddr \in Peer \cup {NoPeer}
  /\ auto \in BOOLEAN /\ due \in BOOLEAN /\ turn \in 0..MaxBonds
  /\ plan \in [peer : Peer \cup {NoPeer}, left : 0..SelectedAttempts, open : BOOLEAN]
  /\ bonds \in Seq(Peer) /\ Len(bonds) <= MaxBonds /\ scanning \in BOOLEAN
  /\ missed \in BOOLEAN /\ refused \in BOOLEAN

LinkInit ==
  /\ begun = FALSE /\ stopping = FALSE /\ stack = FALSE /\ caller = "idle"
  /\ conn = "none" /\ target = [peer |-> NoPeer, alt |-> FALSE] /\ busy = FALSE
  /\ link = "down" /\ client = FALSE /\ observed = TRUE
  /\ connected = FALSE /\ connAddr = NoPeer
  /\ auto = TRUE /\ plan = NoPlan /\ due = TRUE /\ turn = 0
  /\ bonds = <<>> /\ scanning = FALSE /\ missed = FALSE /\ refused = FALSE

Bonded(p) == \E i \in 1..Len(bonds) : bonds[i] = p
Hang == IF link = "up" THEN "closing" ELSE link   \* NimBLEClient::disconnect()

-----------------------------------------------------------------------------
(* Begin.  A begin() that fails unwinds what it had made.                  *)
Begin ==
  /\ caller = "idle" /\ ~begun /\ ~stopping
  /\ begun' = TRUE /\ stack' = TRUE /\ client' = TRUE /\ conn' = "idle"
  /\ auto' = TRUE /\ plan' = NoPlan
  /\ UNCHANGED <<stopping, caller, target, busy, link, observed, connected, connAddr, due, turn, bonds, scanning,
                 missed, refused>>

(* connectInternal(): one attempt at a time; the type of an unbonded peer  *)
(* may be unknown, and is then tried both ways.                            *)
Attempt(p) ==
  /\ begun /\ ~busy
  /\ busy' = TRUE /\ conn' = "notified"
  /\ \E alt \in BOOLEAN : (Bonded(p) => ~alt) /\ target' = [peer |-> p, alt |-> alt]

Connect(p) ==
  /\ caller = "idle" /\ Attempt(p)
  /\ plan' = NoPlan /\ auto' = TRUE
  /\ UNCHANGED <<stackVars, linkVars, connected, connAddr, due, turn, bonds, scanning, missed, refused>>

Disconnect ==
  /\ caller = "idle"
  /\ auto' = FALSE /\ plan' = NoPlan
  /\ link' = IF client THEN Hang ELSE link
  /\ UNCHANGED <<stackVars, conn, target, busy, client, observed, connected, connAddr, due, turn, bonds, scanning,
                 missed, refused>>

ArmSelectedPeerReconnect(p) ==
  /\ caller = "idle" /\ begun /\ ~connected /\ ~busy /\ ~scanning /\ Bonded(p) /\ plan.peer = NoPeer
  /\ plan' = FreshPlan(p) /\ due' = TRUE
  /\ UNCHANGED <<stackVars, conn, target, busy, linkVars, connected, connAddr, auto, turn, bonds, scanning, missed,
                 refused>>

Forget(p) ==
  /\ caller = "idle"
  /\ \E i \in 1..Len(bonds) : bonds[i] = p /\ bonds' = RemoveAt(bonds, i)
  /\ plan' = IF plan.peer = p THEN NoPlan ELSE plan
  /\ UNCHANGED <<stackVars, conn, target, busy, linkVars, connected, connAddr, auto, due, turn, scanning, missed,
                 refused>>

(* poll(): the selected peer while a plan is armed, else each bond in turn.*)
MayReconnect == caller = "idle" /\ begun /\ ~connected /\ ~scanning /\ due
PollPlan ==
  /\ MayReconnect /\ plan.peer # NoPeer /\ plan.left > 0 /\ plan.open
  /\ plan' = [plan EXCEPT !.left = @ - 1]
  /\ Attempt(plan.peer)
  /\ UNCHANGED <<stackVars, linkVars, connected, connAddr, auto, due, turn, bonds, scanning, missed, refused>>
MutPollBond ==
  /\ MayReconnect /\ plan.peer = NoPeer /\ auto /\ bonds # <<>>
  /\ LET next == turn IN turn < Len(bonds) /\ Attempt(bonds[next + 1]) /\ turn' = next + 1
  /\ due' = FALSE
  /\ UNCHANGED <<stackVars, linkVars, connected, connAddr, auto, plan, bonds, scanning, missed, refused>>

PollBond ==
  /\ MayReconnect /\ plan.peer = NoPeer /\ auto /\ bonds # <<>>
  /\ LET next == turn % Len(bonds) IN Attempt(bonds[next + 1]) /\ turn' = next + 1
  /\ due' = FALSE
  /\ UNCHANGED <<stackVars, linkVars, connected, connAddr, auto, plan, bonds, scanning, missed, refused>>
PollReconnect == PollPlan \/ PollBond

(* Time: the back-off ends, the plan's window closes, a scan runs out.     *)
BackoffEnds ==
  /\ ~due /\ due' = TRUE
  /\ UNCHANGED <<stackVars, conn, target, busy, linkVars, connected, connAddr, auto, plan, turn, bonds, scanning,
                 missed, refused>>
WindowCloses ==
  /\ plan.open /\ plan' = [plan EXCEPT !.open = FALSE]
  /\ UNCHANGED <<stackVars, conn, target, busy, linkVars, connected, connAddr, auto, due, turn, bonds, scanning,
                 missed, refused>>

(* startScan() hangs up on a pending attempt until it ends or patience     *)
(* does; the scan ends by itself or by stopScan().                         *)
StartScan ==
  /\ caller = "idle" /\ begun
  /\ IF busy THEN caller' = "scanWait" /\ link' = Hang /\ UNCHANGED scanning
             ELSE scanning' = TRUE /\ UNCHANGED <<caller, link>>
  /\ UNCHANGED <<begun, stopping, stack, conn, target, busy, client, observed, connected, connAddr, planVars, bonds,
                 missed, refused>>
ScanWait ==
  /\ caller = "scanWait"
  /\ \/ busy /\ link' = Hang /\ UNCHANGED <<caller, scanning>>
     \/ caller' = "idle" /\ scanning' = TRUE /\ UNCHANGED link
  /\ UNCHANGED <<begun, stopping, stack, conn, target, busy, client, observed, connected, connAddr, planVars, bonds,
                 missed, refused>>
StopScan ==
  /\ scanning /\ scanning' = FALSE
  /\ UNCHANGED <<stackVars, conn, target, busy, linkVars, connected, connAddr, planVars, bonds, missed, refused>>

-----------------------------------------------------------------------------
(* The connection task.  onConnectFailed() puts a plan's next attempt off. *)
Failed ==
  /\ conn' = "done" /\ connected' = FALSE
  /\ due' = IF plan.peer # NoPeer THEN FALSE ELSE due

Dial ==   \* NimBLE refuses a client that is still linked: connect() returns false
  /\ conn = "notified" /\ scanning' = FALSE
  /\ IF link = "down"
     THEN conn' = "dial" /\ observed' = FALSE /\ UNCHANGED <<connected, due, refused>>
     ELSE Failed /\ observed' = TRUE /\ refused' = TRUE
  /\ UNCHANGED <<stackVars, target, busy, link, client, connAddr, auto, plan, turn, bonds, missed>>
DialOk ==
  /\ conn = "dial" /\ conn' = "bringUp" /\ link' = "up"
  /\ UNCHANGED <<stackVars, target, busy, client, observed, connected, connAddr, planVars, bonds, scanning, missed,
                 refused>>
DialFails ==
  /\ conn = "dial"
  /\ IF target.alt
     THEN target' = [target EXCEPT !.alt = FALSE] /\ UNCHANGED <<conn, observed, connected, due>>
     ELSE Failed /\ observed' = TRUE /\ UNCHANGED target
  /\ UNCHANGED <<stackVars, busy, link, client, connAddr, auto, plan, turn, bonds, scanning, missed, refused>>

(* hasHidService(), secureConnection(), setupHid(): a wait that ends well  *)
(* only on a live link, and hangs up when it does not.                     *)
BringUpOk ==
  /\ conn = "bringUp" /\ link = "up" /\ conn' = "linkUp"
  /\ UNCHANGED <<stackVars, target, busy, linkVars, connected, connAddr, planVars, bonds, scanning, missed, refused>>
BringUpFails ==
  /\ conn = "bringUp" /\ link' = Hang /\ Failed
  /\ UNCHANGED <<stackVars, target, busy, client, observed, connAddr, auto, plan, turn, bonds, scanning, missed,
                 refused>>

OnLinkUp ==
  /\ conn = "linkUp" /\ conn' = "done"
  /\ connected' = TRUE /\ connAddr' = target.peer /\ turn' = 0
  /\ bonds' = IF Bonded(target.peer) \/ Len(bonds) = MaxBonds THEN bonds ELSE Append(bonds, target.peer)
  /\ missed' = (link = "down")
  /\ UNCHANGED <<stackVars, target, busy, linkVars, auto, plan, due, scanning, refused>>
MutDone ==
  /\ conn = "done" /\ conn' = "idle" /\ busy' = busy
  /\ UNCHANGED <<stackVars, target, linkVars, connected, connAddr, planVars, bonds, scanning, missed, refused>>

Done ==
  /\ conn = "done" /\ conn' = "idle" /\ busy' = FALSE
  /\ UNCHANGED <<stackVars, target, linkVars, connected, connAddr, planVars, bonds, scanning, missed, refused>>
ConnTask == Dial \/ DialOk \/ DialFails \/ BringUpOk \/ BringUpFails \/ OnLinkUp \/ Done

-----------------------------------------------------------------------------
(* NimBLE's host task: the link is gone, then its callback says so.  The   *)
(* selected peer's link that dropped starts a fresh plan (onLinkDown).     *)
Gone ==
  /\ link \in {"up", "closing"} /\ link' = "gone"
  /\ UNCHANGED <<stackVars, conn, target, busy, client, observed, connected, connAddr, planVars, bonds, scanning,
                 missed, refused>>
MutOnDisconnect ==
  /\ link = "gone" /\ link' = "down" /\ observed' = TRUE /\ refused' = FALSE
  /\ IF connected /\ plan.peer # NoPeer /\ plan.peer = connAddr
     THEN plan' = FreshPlan(plan.peer) /\ due' = FALSE
     ELSE UNCHANGED <<plan, due>>
  /\ connected' = (connected /\ plan.peer # connAddr) /\ connAddr' = NoPeer
  /\ UNCHANGED <<stackVars, conn, target, busy, client, auto, turn, bonds, scanning, missed>>

OnDisconnect ==
  /\ link = "gone" /\ link' = "down" /\ observed' = TRUE /\ refused' = FALSE
  /\ IF connected /\ plan.peer # NoPeer /\ plan.peer = connAddr
     THEN plan' = FreshPlan(plan.peer) /\ due' = FALSE
     ELSE UNCHANGED <<plan, due>>
  /\ connected' = FALSE /\ connAddr' = NoPeer
  /\ UNCHANGED <<stackVars, conn, target, busy, client, auto, turn, bonds, scanning, missed>>

-----------------------------------------------------------------------------
(* end(), or one that carries on where the last gave up.                   *)
Released == observed /\ link \in {"gone", "down"}   \* clientReleased()

EndStart ==
  /\ caller = "idle" /\ (begun \/ stopping)
  /\ plan' = NoPlan
  /\ IF begun THEN stopping' = TRUE /\ caller' = "clear" ELSE caller' = "waitConn" /\ UNCHANGED stopping
  /\ UNCHANGED <<begun, stack, conn, target, busy, linkVars, connected, connAddr, auto, due, turn, bonds, scanning,
                 missed, refused>>
EndClear ==
  /\ caller = "clear" /\ caller' = "waitConn"
  /\ begun' = FALSE /\ scanning' = FALSE
  /\ UNCHANGED <<stopping, stack, conn, target, busy, linkVars, connected, connAddr, planVars, bonds, missed, refused>>
EndCancel ==   \* cancelPendingConnect(), then sleep or give up
  /\ caller = "waitConn" /\ busy
  /\ link' = Hang /\ caller' \in {"waitConn", "idle"}
  /\ UNCHANGED <<begun, stopping, stack, conn, target, busy, client, observed, connected, connAddr, planVars, bonds,
                 scanning, missed, refused>>
MutEndKillTask ==
  /\ caller = "waitConn"
  /\ conn' = "none" /\ caller' = "waitLink"
  /\ UNCHANGED <<begun, stopping, stack, target, busy, linkVars, connected, connAddr, planVars, bonds, scanning, missed,
                 refused>>

EndKillTask ==
  /\ caller = "waitConn" /\ ~busy
  /\ conn' = "none" /\ caller' = "waitLink"
  /\ UNCHANGED <<begun, stopping, stack, target, busy, linkVars, connected, connAddr, planVars, bonds, scanning, missed,
                 refused>>
MutEndHangUp ==
  /\ caller = "waitLink" /\ client /\ ~Released
  /\ link' = link /\ caller' \in {"waitLink", "idle"}
  /\ UNCHANGED <<begun, stopping, stack, conn, target, busy, client, observed, connected, connAddr, planVars, bonds,
                 scanning, missed, refused>>

EndHangUp ==
  /\ caller = "waitLink" /\ client /\ ~Released
  /\ link' = Hang /\ caller' \in {"waitLink", "idle"}
  /\ UNCHANGED <<begun, stopping, stack, conn, target, busy, client, observed, connected, connAddr, planVars, bonds,
                 scanning, missed, refused>>
EndDeleteClient ==
  /\ caller = "waitLink" /\ (client => Released)
  /\ client' = FALSE /\ caller' = "deinit"
  /\ UNCHANGED <<begun, stopping, stack, conn, target, busy, link, observed, connected, connAddr, planVars, bonds,
                 scanning, missed, refused>>
EndDeinit ==
  /\ caller = "deinit" /\ caller' = "finish"
  /\ stack' = FALSE /\ connected' = FALSE /\ scanning' = FALSE /\ connAddr' = NoPeer
  /\ UNCHANGED <<begun, stopping, conn, target, busy, linkVars, planVars, bonds, missed, refused>>
EndDeinitFails ==
  /\ caller = "deinit" /\ caller' = "idle"
  /\ UNCHANGED <<begun, stopping, stack, conn, target, busy, linkVars, connected, connAddr, planVars, bonds, scanning,
                 missed, refused>>
EndFinish ==
  /\ caller = "finish" /\ caller' = "idle" /\ stopping' = FALSE
  /\ UNCHANGED <<begun, stack, conn, target, busy, linkVars, connected, connAddr, planVars, bonds, scanning, missed,
                 refused>>
EndStep ==
  \/ EndClear \/ EndCancel \/ EndKillTask \/ EndHangUp \/ EndDeleteClient \/ EndDeinit \/ EndDeinitFails \/ EndFinish

LinkNext ==
  \/ Begin \/ Disconnect \/ PollReconnect \/ BackoffEnds \/ WindowCloses \/ StartScan \/ ScanWait \/ StopScan
  \/ \E p \in Peer : Connect(p) \/ ArmSelectedPeerReconnect(p) \/ Forget(p)
  \/ ConnTask \/ Gone \/ OnDisconnect \/ EndStart \/ EndStep

(* Each task runs; hanging up reaches the peer or its supervision timeout; *)
(* the main loop polls, lets a scan end, and calls end() again while it    *)
(* is still stopping; a deinit retried often enough completes.             *)
LinkFairness ==
  /\ WF_hostVars(ConnTask) /\ WF_hostVars(Gone /\ link = "closing") /\ WF_hostVars(OnDisconnect)
  /\ WF_hostVars(EndStep) /\ WF_hostVars(EndStart /\ stopping) /\ SF_hostVars(EndDeinit)
  /\ WF_hostVars(PollReconnect) /\ WF_hostVars(BackoffEnds) /\ WF_hostVars(StopScan) /\ WF_hostVars(ScanWait /\ caller' = "idle")

LinkSpec == LinkInit /\ [][LinkNext]_hostVars /\ LinkFairness

-----------------------------------------------------------------------------
(* end() deletes the connection task only outside NimBLE's waits, and the  *)
(* client only once the link's callback has run.  A dial refused while the *)
(* last link was still closing marks the callback as run before it has,    *)
(* so a delete may then come early (doConnect, clientReleased).  A stack    *)
(* that is up belongs to a begin() or to an end() still to be finished.    *)
TornDownInOrder ==
  /\ conn = "none" => ~busy
  /\ busy <=> conn \in {"notified", "dial", "bringUp", "linkUp", "done"}
  /\ ~client /\ ~refused => link = "down"
  /\ ~stack => conn = "none" /\ ~client
  /\ stack => begun \/ stopping

(* isConnected() has a link behind it, or one whose end is being reported, *)
(* unless the link was gone between the subscription and onLinkUp().       *)
ConnectedIsLinked == connected => link # "down" \/ missed

(* Calling end() again while it is stopping brings the stack down, and a   *)
(* pending attempt always ends, so that the next one can start.            *)
EndFinishes == (stopping ~> ~stopping) /\ (busy ~> ~busy)

(* A bonded peer without a link, or with one that isConnected() does not   *)
(* show, keeps being tried while auto-reconnect is on, nobody selected     *)
(* another plan and no scan runs.  The exception is Stranded: a link that  *)
(* is gone before onLinkUp() stores connected_ leaves the flag set, and    *)
(* then poll() tries nobody until the application calls connect() or end().*)
Left == caller = "idle" /\ begun /\ auto /\ ~scanning /\ plan = NoPlan /\ bonds # <<>>
Stranded == connected /\ missed
KeepsTrying == <>[](Left /\ (link = "down" \/ ~connected) /\ ~Stranded) => []<>(conn = "notified")
=============================================================================
