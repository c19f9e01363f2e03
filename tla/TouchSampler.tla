---------------------------- MODULE TouchSampler ----------------------------
(***************************************************************************)
(* InputManager's touch path on the Murphy M4: a task samples the FT6336U  *)
(* and keeps the first gesture that update() has not taken, for update()   *)
(* waits while the panel refreshes; a reset of the chip that the display   *)
(* shares pauses the task, clears what it kept and starts it again.        *)
(*                                                                         *)
(* A stroke of the finger has a number, which stands for each of its       *)
(* points.  Time is counted in frames that could not be read.              *)
(***************************************************************************)
EXTENDS Naturals

CONSTANTS
  Strokes,
  StaleFrames        \* unreadable frames after which a contact is over

ASSUME TouchAssumption == Strokes \in Nat \ {0} /\ StaleFrames \in Nat \ {0}

VARIABLES
  strokes, finger,   \* strokes so far; the one on the glass, or 0
  touchDataEnabled, created,   \* the chip answered; the task exists
  polling, sampler,  \* the task: [pc, frame], in flight unless idle
  contact, down, latest, pending, pendingDown, pendingUp,  \* PollState
  age,               \* of latest
  resetting,         \* beginFt6336u() waits for the task
  pressed, downPoint, point,                               \* of update()
  torn,              \* a reset met a contact, and no release was reported since
  gesture            \* the last one reported: [down, up, torn, since]
pollVars == <<contact, down, latest, pending, pendingDown, pendingUp, age>>
updateVars == <<pressed, downPoint, point, torn, gesture>>
touchVars == <<strokes, finger, touchDataEnabled, created, polling, sampler, pollVars, resetting, updateVars>>

Stroke == 0..Strokes
Invalid == Strokes + 1
TouchTypeOK ==
  /\ strokes \in Stroke /\ finger \in {0, strokes} /\ touchDataEnabled \in BOOLEAN /\ created \in BOOLEAN
  /\ polling \in BOOLEAN /\ sampler \in [pc : {"idle", "read", "record"}, frame : Stroke \cup {Invalid}]
  /\ contact \in BOOLEAN /\ pending \in BOOLEAN /\ pressed \in BOOLEAN /\ torn \in BOOLEAN /\ resetting \in BOOLEAN
  /\ {down, latest, pendingDown, pendingUp, downPoint, point} \subseteq Stroke /\ age \in 0..(StaleFrames - 1)
  /\ gesture \in [down : Stroke, up : Stroke, torn : BOOLEAN, since : Stroke]

NothingKept ==
  /\ contact' = FALSE /\ down' = 0 /\ latest' = 0 /\ pending' = FALSE /\ pendingDown' = 0 /\ pendingUp' = 0
  /\ age' = 0
TouchInit ==
  /\ strokes = 0 /\ finger = 0 /\ touchDataEnabled = TRUE /\ created = FALSE /\ polling = FALSE
  /\ sampler = [pc |-> "idle", frame |-> 0] /\ resetting = FALSE
  /\ contact = FALSE /\ down = 0 /\ latest = 0 /\ pending = FALSE /\ pendingDown = 0 /\ pendingUp = 0 /\ age = 0
  /\ pressed = FALSE /\ downPoint = 0 /\ point = 0 /\ torn = FALSE
  /\ gesture = [down |-> 0, up |-> 0, torn |-> FALSE, since |-> 0]

(* The finger stays away for as long as it takes to be missed.             *)
FingerDown ==
  /\ finger = 0 /\ strokes < Strokes /\ strokes' = strokes + 1 /\ finger' = strokes'
  /\ IF created THEN ~contact /\ (sampler.pc = "record" => sampler.frame = 0) ELSE ~pressed
  /\ UNCHANGED <<touchDataEnabled, created, polling, sampler, pollVars, resetting, updateVars>>
FingerUp ==
  /\ finger # 0 /\ finger' = 0
  /\ UNCHANGED <<strokes, touchDataEnabled, created, polling, sampler, pollVars, resetting, updateVars>>

-----------------------------------------------------------------------------
(* ft6336uTaskLoop(): mark the read in flight, read, record the frame      *)
(* unless polling was paused.                                              *)
StartSample ==
  /\ created /\ sampler.pc = "idle" /\ polling /\ sampler' = [sampler EXCEPT !.pc = "read"]
  /\ UNCHANGED <<strokes, finger, touchDataEnabled, created, polling, pollVars, resetting, updateVars>>
ReadFrame ==
  /\ sampler.pc = "read" /\ \E f \in {finger, Invalid} : sampler' = [pc |-> "record", frame |-> f]
  /\ UNCHANGED <<strokes, finger, touchDataEnabled, created, polling, pollVars, resetting, updateVars>>

RecordContact(n) ==
  /\ down' = IF contact THEN down ELSE n
  /\ contact' = TRUE /\ latest' = n /\ age' = 0
  /\ UNCHANGED <<pending, pendingDown, pendingUp>>
MutRecordRelease ==
  /\ contact' = FALSE /\ age' = 0 /\ UNCHANGED <<down, latest>>
  /\ pending' = (pending \/ contact)
  /\ pendingDown' = IF pending \/ ~contact THEN pendingDown ELSE down
  /\ pendingUp' = IF contact THEN latest ELSE pendingUp
RecordRelease ==
  /\ contact' = FALSE /\ age' = 0 /\ UNCHANGED <<down, latest>>
  /\ pending' = (pending \/ contact)
  /\ IF pending \/ ~contact THEN UNCHANGED <<pendingDown, pendingUp>>
     ELSE pendingDown' = down /\ pendingUp' = latest
ReleaseIfStale ==
  IF contact /\ age + 1 = StaleFrames THEN RecordRelease
  ELSE /\ age' = IF contact THEN age + 1 ELSE age
       /\ UNCHANGED <<contact, down, latest, pending, pendingDown, pendingUp>>
RecordFrame ==
  /\ sampler.pc = "record" /\ sampler' = [pc |-> "idle", frame |-> 0]
  /\ IF ~polling THEN UNCHANGED pollVars
     ELSE \/ sampler.frame = Invalid /\ ReleaseIfStale
          \/ sampler.frame = 0 /\ RecordRelease
          \/ sampler.frame \in 1..Strokes /\ RecordContact(sampler.frame)
  /\ UNCHANGED <<strokes, finger, touchDataEnabled, created, polling, resetting, updateVars>>

-----------------------------------------------------------------------------
(* updateTouchContact() at the first and the last of the points, and       *)
(* releaseTouch().                                                         *)
Contact(first, last) ==
  /\ downPoint' = IF pressed THEN downPoint ELSE first
  /\ point' = last /\ pressed' = TRUE /\ UNCHANGED <<torn, gesture>>
Release(first, last) ==
  /\ downPoint' = IF pressed THEN downPoint ELSE first
  /\ point' = last /\ pressed' = FALSE /\ torn' = FALSE
  /\ gesture' = [down |-> downPoint', up |-> last, torn |-> torn, since |-> gesture.up]

(* update(): what the task kept, or the chip itself before there is a task.*)
UpdateFromTask ==
  /\ touchDataEnabled /\ created /\ ~resetting /\ (pending \/ contact)
  /\ pending' = FALSE /\ UNCHANGED <<contact, down, latest, pendingDown, pendingUp, age>>
  /\ IF pending THEN Release(pendingDown, pendingUp) ELSE Contact(down, latest)
  /\ UNCHANGED <<strokes, finger, touchDataEnabled, created, polling, sampler, resetting>>
UpdateFromChip ==
  /\ touchDataEnabled /\ ~created /\ ~resetting
  /\ \/ finger # 0 /\ Contact(finger, finger) /\ age' = 0
     \/ finger = 0 /\ pressed /\ Release(0, point) /\ age' = 0
     \/ pressed /\ age + 1 < StaleFrames /\ age' = age + 1 /\ UNCHANGED updateVars
     \/ pressed /\ age + 1 = StaleFrames /\ age' = 0 /\ Release(0, point)
  /\ UNCHANGED <<contact, down, latest, pending, pendingDown, pendingUp>>
  /\ UNCHANGED <<strokes, finger, touchDataEnabled, created, polling, sampler, resetting>>

-----------------------------------------------------------------------------
(* reinitializeTouchAfterSharedReset(): pause the task and wait for the    *)
(* read in flight, or give up; clear what was kept; and start it again, if *)
(* the chip answers.                                                       *)
PauseForReset ==
  /\ ~resetting /\ resetting' = TRUE /\ polling' = FALSE
  /\ UNCHANGED <<strokes, finger, touchDataEnabled, created, sampler, pollVars, updateVars>>
Reinitialize ==
  /\ resetting /\ resetting' = FALSE
  /\ NothingKept
  /\ torn' = (torn \/ pressed)
  /\ touchDataEnabled' \in BOOLEAN
  /\ created' \in {created, created \/ touchDataEnabled'} /\ polling' = (touchDataEnabled' /\ created')
  /\ UNCHANGED <<strokes, finger, sampler, pressed, downPoint, point, gesture>>

TouchNext ==
  \/ FingerDown \/ FingerUp \/ StartSample \/ ReadFrame \/ RecordFrame
  \/ UpdateFromTask \/ UpdateFromChip \/ PauseForReset \/ Reinitialize
TouchSpec == TouchInit /\ [][TouchNext]_touchVars

-----------------------------------------------------------------------------
(* A gesture that update() reports begins and ends with the same stroke    *)
(* and comes after the ones before it, however long update() waited and    *)
(* however many strokes were made meanwhile, and also when a read outlasts *)
(* a reset; the exception is the first one after a reset that met a        *)
(* contact, which stays pressed.                                           *)
GesturesAreWhole == ~gesture.torn => gesture.down = gesture.up /\ gesture.since <= gesture.up
=============================================================================
