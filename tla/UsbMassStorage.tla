--------------------------- MODULE UsbMassStorage ---------------------------
(***************************************************************************)
(* UsbMassStorage: the card lent to a USB host.  Two tasks share it without *)
(* a lock: the application calls begin(), state() and end(), and TinyUSB's  *)
(* task serves the host one event after the other, each read or write in    *)
(* the steps of mscRead() and mscWrite().  Each load and store of a shared  *)
(* variable is a step where the other task can see the difference.          *)
(***************************************************************************)
VARIABLES
  active,
  gDev, gOwner,      \* set
  served,            \* gMsc holds the callbacks
  published,         \* _state
  hostSeen,
  attached,          \* the pull-up
  host,              \* "left": no longer mounted, but its last events may still be served
  usb,               \* the TinyUSB task: [pc, dev, owner]
  app,               \* the application: [pc, seen, undo], seen as state() loaded it
  ejected            \* in this session, the host asked for it
usbVars == <<active, gDev, gOwner, served, published, hostSeen, attached, host, usb, app, ejected>>

State == {"Idle", "WaitingForHost", "Connected", "Accessed", "Ejected", "IoError"}
UsbPc == {"idle", "owner", "check", "card", "accessed", "error", "eject"}
AppPc == {"idle", "setOwner", "setState", "serve", "attach", "activate", "loaded", "mounted",
            "drain", "dropOwner", "dropDev", "dropMsc", "reset"}
UsbTypeOK ==
  /\ active \in BOOLEAN /\ gDev \in BOOLEAN /\ gOwner \in BOOLEAN /\ served \in BOOLEAN
  /\ published \in State /\ hostSeen \in BOOLEAN /\ attached \in BOOLEAN /\ ejected \in BOOLEAN
  /\ host \in {"none", "mounted", "left"}
  /\ usb \in [pc : UsbPc, dev : BOOLEAN, owner : BOOLEAN]
  /\ app \in [pc : AppPc, seen : State, undo : BOOLEAN]

UsbInit ==
  /\ active = FALSE /\ gDev = FALSE /\ gOwner = FALSE /\ served = FALSE
  /\ published = "Idle" /\ hostSeen = FALSE /\ attached = FALSE /\ host = "none" /\ ejected = FALSE
  /\ usb = [pc |-> "idle", dev |-> FALSE, owner |-> FALSE]
  /\ app = [pc |-> "idle", seen |-> "Idle", undo |-> FALSE]

-----------------------------------------------------------------------------
(* begin(): globals, state, callbacks, then USB.  A host that an earlier   *)
(* end() left mounted is served as soon as the callbacks are there, and    *)
(* USB that was started before may or may not attach again.                *)
BeginUsb ==
  /\ app.pc = "idle" /\ ~active
  /\ gDev' = TRUE /\ app' = [app EXCEPT !.pc = "setOwner"]
  /\ UNCHANGED <<active, gOwner, served, published, hostSeen, attached, host, usb, ejected>>
SetOwner ==
  /\ app.pc = "setOwner" /\ gOwner' = TRUE /\ app' = [app EXCEPT !.pc = "setState"]
  /\ UNCHANGED <<active, gDev, served, published, hostSeen, attached, host, usb, ejected>>
SetState ==
  /\ app.pc = "setState" /\ app' = [app EXCEPT !.pc = "serve"]
  /\ published' = "WaitingForHost" /\ hostSeen' = FALSE /\ ejected' = FALSE
  /\ UNCHANGED <<active, gDev, gOwner, served, attached, host, usb>>
Serve ==
  /\ app.pc = "serve" /\ served' = TRUE /\ app' = [app EXCEPT !.pc = "attach"]
  /\ UNCHANGED <<active, gDev, gOwner, published, hostSeen, attached, host, usb, ejected>>
Attach ==
  /\ app.pc = "attach" /\ attached' \in {attached, TRUE} /\ app' = [app EXCEPT !.pc = "activate"]
  /\ UNCHANGED <<active, gDev, gOwner, served, published, hostSeen, host, usb, ejected>>
BeginFails ==
  /\ app.pc = "attach" /\ app' = [app EXCEPT !.pc = "dropMsc", !.undo = TRUE]
  /\ UNCHANGED <<active, gDev, gOwner, served, published, hostSeen, attached, host, usb, ejected>>
Activate ==
  /\ app.pc = "activate" /\ active' = TRUE /\ app' = [app EXCEPT !.pc = "idle"]
  /\ UNCHANGED <<gDev, gOwner, served, published, hostSeen, attached, host, usb, ejected>>

DisconnectHost ==
  /\ app.pc = "idle" /\ active /\ attached' = FALSE
  /\ UNCHANGED <<active, gDev, gOwner, served, published, hostSeen, host, usb, app, ejected>>

(* end(): detach and poll tud_mounted() until it is false or 50 ticks are  *)
(* over, so the wait ends with the host mounted or not; then take down.    *)
(* A begin() that fails takes down the same things, the callbacks first.   *)
EndUsb ==
  /\ app.pc = "idle" /\ active /\ attached' = FALSE /\ app' = [app EXCEPT !.pc = "drain"]
  /\ UNCHANGED <<active, gDev, gOwner, served, published, hostSeen, host, usb, ejected>>
Drained ==
  /\ app.pc = "drain" /\ active' = FALSE /\ app' = [app EXCEPT !.pc = "dropOwner"]
  /\ UNCHANGED <<gDev, gOwner, served, published, hostSeen, attached, host, usb, ejected>>
DropOwner ==
  /\ app.pc = "dropOwner" /\ gOwner' = FALSE /\ app' = [app EXCEPT !.pc = "dropDev"]
  /\ UNCHANGED <<active, gDev, served, published, hostSeen, attached, host, usb, ejected>>
DropDev ==
  /\ app.pc = "dropDev" /\ gDev' = FALSE
  /\ app' = [app EXCEPT !.pc = IF app.undo THEN "reset" ELSE "dropMsc"]
  /\ UNCHANGED <<active, gOwner, served, published, hostSeen, attached, host, usb, ejected>>
DropMsc ==
  /\ app.pc = "dropMsc" /\ served' = FALSE
  /\ app' = [app EXCEPT !.pc = IF app.undo THEN "dropOwner" ELSE "reset"]
  /\ UNCHANGED <<active, gDev, gOwner, published, hostSeen, attached, host, usb, ejected>>
Reset ==
  /\ app.pc = "reset" /\ published' = "Idle" /\ hostSeen' = (hostSeen /\ app.undo)
  /\ app' = [app EXCEPT !.pc = "idle", !.undo = FALSE]
  /\ UNCHANGED <<active, gDev, gOwner, served, attached, host, usb, ejected>>

(* state(): the last thing published, unless the host is gone; a host that *)
(* is there is noted, and noted as connected when nothing was published.   *)
LoadPublished ==
  /\ app.pc = "idle" /\ active /\ published # "Ejected"
  /\ app' = [app EXCEPT !.pc = "loaded", !.seen = published]
  /\ UNCHANGED <<active, gDev, gOwner, served, published, hostSeen, attached, host, usb, ejected>>
NoteHost ==
  /\ app.pc = "loaded"
  /\ LET noted == host = "mounted" /\ app.seen # "IoError"
     IN hostSeen' = (hostSeen \/ noted) /\ app' = [app EXCEPT !.pc = IF noted THEN "mounted" ELSE "idle"]
  /\ UNCHANGED <<active, gDev, gOwner, served, published, attached, host, usb, ejected>>
MutConnect ==
  /\ app.pc = "mounted" /\ app' = [app EXCEPT !.pc = "idle"]
  /\ published' = IF app.seen = "WaitingForHost" THEN "Connected" ELSE published
  /\ UNCHANGED <<active, gDev, gOwner, served, hostSeen, attached, host, usb, ejected>>
Connect ==
  /\ app.pc = "mounted" /\ app' = [app EXCEPT !.pc = "idle"]
  /\ published' = IF published = "WaitingForHost" THEN "Connected" ELSE published
  /\ UNCHANGED <<active, gDev, gOwner, served, hostSeen, attached, host, usb, ejected>>

-----------------------------------------------------------------------------
(* The host comes by an event that the task serves.  It goes any time:     *)
(* tud_mounted() is false from the interrupt on, inside a callback or not, *)
(* and the task gets to know when it has served what came before.          *)
Mounted ==
  /\ attached /\ host = "none" /\ usb.pc = "idle" /\ host' = "mounted"
  /\ UNCHANGED <<active, gDev, gOwner, served, published, hostSeen, attached, usb, app, ejected>>
Unmounted ==
  /\ host = "mounted" /\ host' = "left"
  /\ UNCHANGED <<active, gDev, gOwner, served, published, hostSeen, attached, usb, app, ejected>>
HostLeft ==
  /\ host = "left" /\ usb.pc = "idle" /\ host' = "none"
  /\ UNCHANGED <<active, gDev, gOwner, served, published, hostSeen, attached, usb, app, ejected>>
Served == usb.pc = "idle" /\ host # "none" /\ served

(* mscRead() and mscWrite(): load both globals, refuse without a device or *)
(* beyond its end, move the sectors, publish the outcome.                  *)
LoadDev ==
  /\ Served /\ usb' = [pc |-> "owner", dev |-> gDev, owner |-> FALSE]
  /\ UNCHANGED <<active, gDev, gOwner, served, published, hostSeen, attached, host, app, ejected>>
LoadOwner ==
  /\ usb.pc = "owner" /\ usb' = [usb EXCEPT !.pc = "check", !.owner = gOwner]
  /\ UNCHANGED <<active, gDev, gOwner, served, published, hostSeen, attached, host, app, ejected>>
CheckRange ==
  /\ usb.pc = "check"
  /\ \E outcome \in {"error"} \cup (IF usb.dev THEN {"card"} ELSE {}) : usb' = [usb EXCEPT !.pc = outcome]
  /\ UNCHANGED <<active, gDev, gOwner, served, published, hostSeen, attached, host, app, ejected>>
MoveSectors ==
  /\ usb.pc = "card" /\ \E outcome \in {"accessed", "error"} : usb' = [usb EXCEPT !.pc = outcome]
  /\ UNCHANGED <<active, gDev, gOwner, served, published, hostSeen, attached, host, app, ejected>>
MarkAccessed ==
  /\ usb.pc = "accessed" /\ usb' = [usb EXCEPT !.pc = "idle"]
  /\ published' = IF usb.owner /\ published \notin {"Ejected", "IoError"} THEN "Accessed" ELSE published
  /\ UNCHANGED <<active, gDev, gOwner, served, hostSeen, attached, host, app, ejected>>
MarkIoError ==
  /\ usb.pc = "error" /\ usb' = [usb EXCEPT !.pc = "idle"]
  /\ hostSeen' = (hostSeen \/ usb.owner) /\ published' = IF usb.owner THEN "IoError" ELSE published
  /\ UNCHANGED <<active, gDev, gOwner, served, attached, host, app, ejected>>
(* mscStartStop(): the host ejects the card.                               *)
TakeEject ==
  /\ Served /\ usb' = [pc |-> "eject", dev |-> FALSE, owner |-> gOwner]
  /\ UNCHANGED <<active, gDev, gOwner, served, published, hostSeen, attached, host, app, ejected>>
MarkEjected ==
  /\ usb.pc = "eject" /\ usb' = [usb EXCEPT !.pc = "idle"]
  /\ published' = (IF usb.owner THEN "Ejected" ELSE published) /\ ejected' = (ejected \/ usb.owner)
  /\ UNCHANGED <<active, gDev, gOwner, served, hostSeen, attached, host, app>>

AppUsb ==
  \/ BeginUsb \/ SetOwner \/ SetState \/ Serve \/ Attach \/ BeginFails \/ Activate \/ DisconnectHost
  \/ EndUsb \/ Drained \/ DropOwner \/ DropDev \/ DropMsc \/ Reset
  \/ LoadPublished \/ NoteHost \/ Connect
HostUsb ==
  \/ Mounted \/ Unmounted \/ HostLeft \/ LoadDev \/ LoadOwner \/ CheckRange \/ MoveSectors
  \/ MarkAccessed \/ MarkIoError \/ TakeEject \/ MarkEjected
UsbNext == AppUsb \/ HostUsb
UsbSpec == UsbInit /\ [][UsbNext]_usbVars

-----------------------------------------------------------------------------
(* An eject is not talked over: while the session lasts neither a poll of  *)
(* state() that began before it nor an access after it puts another state  *)
(* in its place, but for an I/O error, also when a callback of the session *)
(* before comes late.                                                      *)
EjectStands == active /\ ejected => published \in {"Ejected", "IoError"}

(* The card has one user: from the return of end() to the next begin() it  *)
(* is the application's, and no callback moves its sectors.  The comments  *)
(* of end() say so: it waits "so no in-flight MSC callback can fire" later *)
(* and marks inactive first "so any callback already dispatched bails out".*)
CardHandedOver == usb.pc = "card" => active \/ app.pc # "idle"
=============================================================================
