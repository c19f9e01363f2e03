----------------------------- MODULE HapticMotor -----------------------------
(***************************************************************************)
(* HapticManager: one mutex, one timer, one motor.  Every call holds the   *)
(* mutex from its start to its end, so it is one step; what interleaves is *)
(* the timer, whose callback may already be waiting for the mutex when a   *)
(* call stops the timer or starts another pattern, and the clock.          *)
(*                                                                         *)
(* Time is counted from startedAt, in units that every step of a pattern   *)
(* lasts.  A pattern is what the motor does in each step: runs (TRUE) or   *)
(* rests.  Any start of the timer and any write of the PWM may fail.       *)
(***************************************************************************)
EXTENDS Naturals, Sequences

CONSTANTS Pattern, Repeats

ASSUME HapticAssumption ==
  /\ \A p \in Pattern : p \in Seq(BOOLEAN) /\ p # <<>>
  /\ Repeats \subseteq Nat \ {0}

VARIABLES
  begun, playing, enabled,
  silent,            \* gain is 0
  pattern, repeats,
  elapsed,           \* since startedAt
  timer,             \* when it fires, or 0
  queued,            \* its callback waits for the mutex
  motor              \* runs
hapticVars == <<begun, playing, enabled, silent, pattern, repeats, elapsed, timer, queued, motor>>

PatternEnd == Len(pattern) * repeats
HapticTypeOK ==
  /\ begun \in BOOLEAN /\ playing \in BOOLEAN /\ enabled \in BOOLEAN /\ silent \in BOOLEAN
  /\ pattern \in Pattern /\ repeats \in Repeats
  /\ elapsed \in 0..PatternEnd /\ timer \in 0..PatternEnd /\ queued \in BOOLEAN /\ motor \in BOOLEAN

HapticInit ==
  /\ begun = FALSE /\ playing = FALSE /\ enabled = TRUE /\ silent = FALSE
  /\ pattern \in Pattern /\ repeats \in Repeats
  /\ elapsed = 0 /\ timer = 0 /\ queued = FALSE /\ motor = FALSE

-----------------------------------------------------------------------------
(* off(): a PWM that cannot be written is given up for a plain pin.        *)
SwitchedOff ==
  /\ motor' = FALSE
  /\ begun' = FALSE \/ UNCHANGED begun
StopLocked ==
  /\ playing' = FALSE /\ timer' = 0
  /\ IF begun THEN SwitchedOff ELSE UNCHANGED <<begun, motor>>

(* serviceLocked(), where the time in pattern p, played n times, is t and  *)
(* the gain is silent or not: the end of it, or the step that runs, with   *)
(* the timer for the end of that.                                          *)
ServiceLocked(p, n, t, mute) ==
  IF t >= Len(p) * n THEN StopLocked
  ELSE \/ /\ timer' = t + 1 /\ motor' = (p[(t % Len(p)) + 1] /\ ~mute)
          /\ playing' = TRUE /\ UNCHANGED begun
       \/ StopLocked

BeginHaptic ==
  /\ ~begun /\ motor' = FALSE
  /\ begun' \in BOOLEAN
  /\ UNCHANGED <<playing, enabled, silent, pattern, repeats, elapsed, timer, queued>>
EndHaptic ==
  /\ begun /\ begun' = FALSE /\ motor' = FALSE /\ playing' = FALSE /\ timer' = 0
  /\ UNCHANGED <<enabled, silent, pattern, repeats, elapsed, queued>>
Play ==
  /\ begun /\ enabled
  /\ \/ begun' = FALSE /\ motor' = FALSE /\ playing' = FALSE /\ timer' = 0 /\ UNCHANGED <<pattern, repeats, elapsed>>
     \/ /\ pattern' \in Pattern /\ repeats' \in Repeats /\ elapsed' = 0
        /\ ServiceLocked(pattern', repeats', 0, silent)
  /\ UNCHANGED <<enabled, silent, queued>>
StopHaptic == StopLocked /\ UNCHANGED <<enabled, silent, pattern, repeats, elapsed, queued>>
MutSetEnabled ==
  /\ enabled' \in BOOLEAN /\ UNCHANGED <<begun, playing, timer, motor>>
  /\ UNCHANGED <<silent, pattern, repeats, elapsed, queued>>
SetEnabled ==
  /\ enabled' \in BOOLEAN
  /\ IF enabled' THEN UNCHANGED <<begun, playing, timer, motor>> ELSE StopLocked
  /\ UNCHANGED <<silent, pattern, repeats, elapsed, queued>>
SetIntensity ==
  /\ silent' \in BOOLEAN
  /\ IF playing THEN ServiceLocked(pattern, repeats, elapsed, silent') ELSE UNCHANGED <<begun, playing, timer, motor>>
  /\ UNCHANGED <<enabled, pattern, repeats, elapsed, queued>>

(* The timer task and the clock.                                           *)
TimerFires ==
  /\ timer # 0 /\ timer <= elapsed /\ timer' = 0 /\ queued' = TRUE
  /\ UNCHANGED <<begun, playing, enabled, silent, pattern, repeats, elapsed, motor>>
TimerCallback ==
  /\ queued /\ queued' = FALSE /\ UNCHANGED silent
  /\ IF playing THEN ServiceLocked(pattern, repeats, elapsed, silent) ELSE UNCHANGED <<begun, playing, timer, motor>>
  /\ UNCHANGED <<enabled, pattern, repeats, elapsed>>
Tick ==
  /\ playing /\ elapsed < PatternEnd /\ elapsed' = elapsed + 1
  /\ UNCHANGED <<begun, playing, enabled, silent, pattern, repeats, timer, queued, motor>>

HapticCall == BeginHaptic \/ EndHaptic \/ Play \/ StopHaptic \/ SetEnabled \/ SetIntensity
HapticNext == HapticCall \/ TimerFires \/ TimerCallback \/ Tick
HapticSpec == HapticInit /\ [][HapticNext]_hapticVars

-----------------------------------------------------------------------------
(* A motor that runs is one that will be stopped: it is played, allowed,   *)
(* and a timer is set within the pattern or its callback is on its way,    *)
(* whichever call, failure or stale callback came last.                    *)
MotorIsTimed == motor => begun /\ playing /\ enabled /\ (queued \/ timer \in 1..PatternEnd)
=============================================================================
