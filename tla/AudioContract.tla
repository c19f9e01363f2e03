----------------------------- MODULE AudioContract -----------------------------
(***************************************************************************)
(* What AudioManager promises its caller (AudioManager.h): play() starts   *)
(* one playback, it ends because the source ran dry, because stop() asked  *)
(* or because a step failed, and a restart that requestRestart() accepted  *)
(* is served before the playback may end of itself.                        *)
(***************************************************************************)
VARIABLES
  phase,   \* what isPlaying() and the playback's course come down to
  owed,    \* an accepted restart has not been served
  ended    \* why the current playback is ending

contract == <<phase, owed, ended>>

Init == phase = "idle" /\ owed = FALSE /\ ended = "no"

Start == phase = "idle" /\ phase' = "playing" /\ owed' = FALSE /\ ended' = "no"

NeverStarted == phase = "playing" /\ ~owed /\ phase' = "idle" /\ UNCHANGED <<owed, ended>>

Accept == phase = "playing" /\ owed' = TRUE /\ UNCHANGED <<phase, ended>>

Serve == phase = "playing" /\ owed' = FALSE /\ UNCHANGED <<phase, ended>>

RunDry == phase = "playing" /\ ~owed /\ phase' = "stopping" /\ ended' = "drained" /\ UNCHANGED owed

Cut == /\ phase = "playing" /\ phase' = "stopping"
       /\ ended' \in {"stopped", "failed"} /\ owed' = FALSE

Finish == phase = "stopping" /\ phase' = "idle" /\ UNCHANGED <<owed, ended>>

Next == Start \/ NeverStarted \/ Accept \/ Serve \/ RunDry \/ Cut \/ Finish

Spec == Init /\ [][Next]_contract
=============================================================================
