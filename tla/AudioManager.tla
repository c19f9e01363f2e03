------------------------------ MODULE AudioManager ------------------------------
(***************************************************************************)
(* Audio playback (AudioManager.cpp).  The application's calls and the     *)
(* playback task meet on the atomic playbackState_ and share the source,   *)
(* the I2S channel and the amp without a lock: what keeps them apart is    *)
(* that stop() waits for the task to go Idle before play() or powerDown()  *)
(* touches anything.  Every atomic access is a step of its own; between    *)
(* two of them a process touches only what the protocol gives it.          *)
(*                                                                         *)
(* One application thread makes the calls.  Samples, volume, codec         *)
(* registers and header parsing are left out, and compare_exchange_weak    *)
(* does not fail spuriously (it is a retry loop wherever it is used).      *)
(* Boards whose begin() opens the channel for an external clock are not    *)
(* modelled.                                                               *)
(***************************************************************************)
EXTENDS Naturals

CONSTANTS
  Task,            \* task identities: a playback takes one that is not alive
  Rate,            \* sample rates of the sources
  DrainBuffers,    \* silent buffers played after the last sample (6 in the code)
  StopMayTimeOut   \* whether a task may outlive the 2 s stop() waits for it

ASSUME AudioAssumption ==
  DrainBuffers \in Nat /\ StopMayTimeOut \in BOOLEAN /\ Rate \subseteq Nat \ {0}

PlaybackState == {"Idle", "Playing", "Stopping", "RestartPending"}

(* A call is a playback of a source, or one of the other entry points.     *)
Playback == [op : {"play"}, loop : BOOLEAN, seek : {TRUE}, rate : Rate]
              \cup [op : {"playPcm"}, loop : {FALSE}, seek : BOOLEAN, rate : Rate]
Source == [loop : BOOLEAN, seek : BOOLEAN]

Channel == [hw      : {"none", "ready", "running"},  \* the I2S driver's channel
            clock   : Rate \cup {0},                 \* the clock it is configured for
            enabled : BOOLEAN,                       \* chanEnabled_
            rate    : Rate \cup {0}]                 \* currentRate_

VARIABLES
  audioBegun, playbackState, source,
  chan, amp, muted,
  ctl,           \* the call in progress: its step, its request, the state it loaded
  tasks,         \* per task: its step and its locals
  owed, ended    \* history, for AudioContract

output    == <<chan, amp, muted>>
audioVars == <<audioBegun, playbackState, source, output, ctl, tasks, owed, ended>>

NoCall == [op |-> "none"]
Step   == {"load", "cas", "wait", "quiet", "prepare", "publish", "create",
           "teardown", "restart"}
TaskStep == {"none", "prime", "load", "seek", "rewound", "silence", "dry", "read", "write",
             "ampOff", "disable", "flag", "idle"}

NoChannel == [hw |-> "none", clock |-> 0, enabled |-> FALSE, rate |-> 0]
NewTask   == [pc |-> "prime", draining |-> FALSE, drained |-> 0]
NoTask    == [pc |-> "none", draining |-> FALSE, drained |-> 0]

(* Every flag, step and local keeps its type; a drain never plays more     *)
(* than DrainBuffers buffers.                                              *)
AudioTypeOK ==
  /\ {audioBegun, amp, muted, owed} \subseteq BOOLEAN
  /\ playbackState \in PlaybackState
  /\ source \in Source
  /\ chan \in Channel
  /\ ctl \in [pc : Step \cup {"none"}, call : Playback \cup [op : {"none", "stop", "powerDown", "restart"}],
              seen : PlaybackState]
  /\ tasks \in [Task -> [pc : TaskStep, draining : BOOLEAN, drained : 0..DrainBuffers]]
  /\ ended \in {"no", "drained", "stopped", "failed"}

Alive(t) == tasks[t].pc # "none"

AudioInit ==
  /\ audioBegun = FALSE /\ playbackState = "Idle"
  /\ source = [loop |-> FALSE, seek |-> FALSE]
  /\ chan = NoChannel /\ amp = FALSE /\ muted = FALSE
  /\ ctl = [pc |-> "none", call |-> NoCall, seen |-> "Idle"]
  /\ tasks = [t \in Task |-> NoTask]
  /\ owed = FALSE /\ ended = "no"

-----------------------------------------------------------------------------
(* The application's calls.                                                *)

At(pc) == ctl.pc = pc
GoTo(pc) == ctl' = [ctl EXCEPT !.pc = pc]
Return == ctl' = [pc |-> "none", call |-> NoCall, seen |-> "Idle"]

(* play(), playPcm(): begin() if need be (a failed one changes nothing),   *)
(* then stop().                                                            *)
PlaySource(call) ==
  /\ At("none")
  /\ audioBegun' = TRUE
  /\ IF audioBegun THEN UNCHANGED <<amp, muted>> ELSE amp' = FALSE /\ muted' = FALSE
  /\ ctl' = [ctl EXCEPT !.pc = "load", !.call = call]
  /\ UNCHANGED <<playbackState, source, chan, tasks, owed, ended>>

(* stop() and powerDown() return at once before begin().                   *)
StopOrPowerDown(op) ==
  /\ At("none") /\ audioBegun
  /\ ctl' = [ctl EXCEPT !.pc = "load", !.call = [op |-> op]]
  /\ UNCHANGED <<audioBegun, playbackState, source, output, tasks, owed, ended>>

(* The body of stop(): load, compare and swap, wait, silence.              *)
StopLoad ==
  /\ At("load")
  /\ ctl' = [ctl EXCEPT !.pc = IF playbackState \in {"Playing", "RestartPending"} THEN "cas" ELSE "wait",
                        !.seen = playbackState]
  /\ UNCHANGED <<audioBegun, playbackState, source, output, tasks, owed, ended>>

StopCas ==
  /\ At("cas")
  /\ IF playbackState = ctl.seen
     THEN /\ playbackState' = "Stopping"
          /\ owed' = FALSE /\ ended' = "stopped"
          /\ GoTo("wait")
     ELSE /\ ctl' = [ctl EXCEPT !.seen = playbackState,
                                !.pc = IF playbackState \in {"Playing", "RestartPending"} THEN "cas" ELSE "wait"]
          /\ UNCHANGED <<playbackState, owed, ended>>
  /\ UNCHANGED <<audioBegun, source, output, tasks>>

MutStopWait == At("wait") /\ GoTo("quiet") /\ UNCHANGED <<audioBegun, playbackState, source, output, tasks, owed, ended>>

StopWait ==
  /\ At("wait")
  /\ playbackState = "Idle" \/ StopMayTimeOut
  /\ GoTo("quiet")
  /\ UNCHANGED <<audioBegun, playbackState, source, output, tasks, owed, ended>>

StopQuiet ==
  /\ At("quiet")
  /\ amp' = FALSE /\ muted' = TRUE
  /\ CASE ctl.call.op = "powerDown" -> GoTo("teardown")
       [] ctl.call.op = "stop"      -> Return
       [] OTHER                     -> GoTo("prepare")
  /\ UNCHANGED <<audioBegun, playbackState, source, chan, tasks, owed, ended>>

(* ensureI2s(): the channels it may leave when it succeeds, and when a     *)
(* driver call fails.                                                      *)
Running(rate) == [hw |-> "running", clock |-> rate, enabled |-> TRUE, rate |-> rate]
Stopped(c) == [c EXCEPT !.hw = IF c.enabled THEN "ready" ELSE @, !.enabled = FALSE]

EnsureI2s(c, rate) ==
  IF c.hw # "none" /\ c.rate = rate
  THEN IF c.enabled THEN c ELSE [c EXCEPT !.hw = "running", !.enabled = TRUE]
  ELSE Running(rate)

EnsureI2sFailures(c, rate) ==
  IF c.hw # "none" /\ c.rate # rate THEN {Stopped(c), [Stopped(c) EXCEPT !.clock = rate]}
  ELSE IF c.hw # "none" /\ c.enabled THEN {} ELSE {c}

(* The source is rejected, I2S fails, or a WAV cannot be wound to its      *)
(* samples with the channel already running.                               *)
PrepareFails ==
  /\ At("prepare")
  /\ \/ UNCHANGED chan
     \/ chan' \in EnsureI2sFailures(chan, ctl.call.rate)
     \/ ctl.call.op = "play" /\ chan' = EnsureI2s(chan, ctl.call.rate)
  /\ Return
  /\ UNCHANGED <<audioBegun, playbackState, source, amp, muted, tasks, owed, ended>>

Prepare ==
  /\ At("prepare")
  /\ chan' = EnsureI2s(chan, ctl.call.rate)
  /\ GoTo("publish")
  /\ UNCHANGED <<audioBegun, playbackState, source, amp, muted, tasks, owed, ended>>

(* startPlayback(): unmute, hand the source over, announce Playing ...     *)
Publish ==
  /\ At("publish")
  /\ muted' = FALSE
  /\ source' = [loop |-> ctl.call.loop, seek |-> ctl.call.seek]
  /\ playbackState' = "Playing"
  /\ owed' = FALSE /\ ended' = "no"
  /\ GoTo("create")
  /\ UNCHANGED <<audioBegun, chan, amp, tasks>>

(* ... and create the task, or take the announcement back.                 *)
Create ==
  /\ At("create")
  /\ \E t \in Task : ~Alive(t) /\ tasks' = [tasks EXCEPT ![t] = NewTask]
  /\ Return
  /\ UNCHANGED <<audioBegun, playbackState, source, output, owed, ended>>

CreateFails ==
  /\ At("create")
  /\ playbackState' = "Idle"
  /\ Return
  /\ UNCHANGED <<audioBegun, source, output, tasks, owed, ended>>

(* powerDown() after its stop(): teardownI2s() and the codec off.          *)
PowerDown ==
  /\ At("teardown")
  /\ chan' = NoChannel /\ audioBegun' = FALSE
  /\ amp' \in {amp, FALSE}                   \* only the ES8311 path drops it again
  /\ Return
  /\ UNCHANGED <<playbackState, source, muted, tasks, owed, ended>>

(* requestRestart(): its load sees a playback to restart (otherwise it      *)
(* returns, TRUE when a restart is pending already), then the exchange: a  *)
(* caller told TRUE is owed a rewind.                                      *)
RequestRestart ==
  /\ At("none") /\ source.seek /\ playbackState = "Playing"
  /\ ctl' = [ctl EXCEPT !.pc = "restart", !.call = [op |-> "restart"], !.seen = playbackState]
  /\ UNCHANGED <<audioBegun, playbackState, source, output, tasks, owed, ended>>

RestartCas ==
  /\ At("restart")
  /\ IF playbackState = ctl.seen
     THEN playbackState' = "RestartPending" /\ owed' = TRUE
     ELSE UNCHANGED <<playbackState, owed>>
  /\ Return
  /\ UNCHANGED <<audioBegun, source, output, tasks, ended>>

-----------------------------------------------------------------------------
(* The playback task.                                                      *)

Runs(t, pc) == tasks[t].pc = pc
Go(t, pc) == tasks' = [tasks EXCEPT ![t].pc = pc]

(* The task stores Stopping over whatever it finds.                        *)
Fail(t, pc) ==
  /\ Go(t, pc)
  /\ playbackState' = "Stopping"
  /\ owed' = FALSE
  /\ ended' = IF playbackState = "Stopping" THEN ended ELSE "failed"
  /\ UNCHANGED <<audioBegun, source, output, ctl>>

Quietly == UNCHANGED <<audioBegun, playbackState, source, output, ctl, owed, ended>>

(* Silence first, written or not, then the amp.                            *)
RaiseAmp(t) ==
  /\ Runs(t, "prime")
  /\ amp' = TRUE
  /\ Go(t, "load")
  /\ UNCHANGED <<audioBegun, playbackState, source, chan, muted, ctl, owed, ended>>

(* The head of the loop: one load decides the pass.                        *)
MutRestarting(t) == playbackState = "RestartPending" /\ ~tasks[t].draining

Restarting(t) == playbackState = "RestartPending"

Draining(t) == tasks[t].draining \/ playbackState = "Stopping"

PassOf(draining, drained) ==
  IF ~draining THEN "read"
  ELSE IF drained < DrainBuffers THEN "silence"
  ELSE IF playbackState = "Stopping" THEN "ampOff" ELSE "dry"

LoadState(t) ==
  /\ Runs(t, "load")
  /\ IF Restarting(t) THEN Go(t, "seek")
     ELSE LET drained == IF tasks[t].draining THEN tasks[t].drained ELSE 0 IN
          tasks' = [tasks EXCEPT ![t] = [pc       |-> PassOf(Draining(t), drained),
                                         draining |-> Draining(t),
                                         drained  |-> drained]]
  /\ Quietly

(* A restart: rewind the source, then take the request back unless stop()  *)
(* has overtaken it.                                                       *)
Rewind(t) ==
  /\ Runs(t, "seek")
  /\ \/ Fail(t, "load")
     \/ /\ source.seek
        /\ tasks' = [tasks EXCEPT ![t].pc = "rewound", ![t].draining = FALSE, ![t].drained = 0]
        /\ Quietly

MutServeRestart(t) ==
  /\ Runs(t, "rewound")
  /\ playbackState' = "Playing" /\ owed' = FALSE
  /\ Go(t, "load")
  /\ UNCHANGED <<audioBegun, source, output, ctl, ended>>

ServeRestart(t) ==
  /\ Runs(t, "rewound")
  /\ IF playbackState = "RestartPending" THEN playbackState' = "Playing" /\ owed' = FALSE
     ELSE UNCHANGED <<playbackState, owed>>
  /\ Go(t, "load")
  /\ UNCHANGED <<audioBegun, source, output, ctl, ended>>

(* One silent buffer of the drain.                                         *)
PlaySilence(t) ==
  /\ Runs(t, "silence")
  /\ \/ Fail(t, "ampOff")
     \/ tasks' = [tasks EXCEPT ![t].pc = "load", ![t].drained = @ + 1] /\ Quietly

MutEndDry(t) ==
  /\ Runs(t, "dry")
  /\ playbackState' = "Stopping" /\ ended' = "drained" /\ Go(t, "ampOff")
  /\ UNCHANGED <<audioBegun, source, output, ctl, owed>>

(* Drained while still Playing: end, unless a restart or a stop came in.   *)
EndDry(t) ==
  /\ Runs(t, "dry")
  /\ IF playbackState = "Playing"
     THEN playbackState' = "Stopping" /\ ended' = "drained" /\ Go(t, "ampOff")
     ELSE Go(t, "load") /\ UNCHANGED <<playbackState, ended>>
  /\ UNCHANGED <<audioBegun, source, output, ctl, owed>>

(* A read yields samples, a wrong byte count, or the end: rewound if the   *)
(* playback loops and the source lets it.                                  *)
ReadSource(t) ==
  /\ Runs(t, "read")
  /\ \/ Go(t, "write") /\ Quietly
     \/ Fail(t, "ampOff")
     \/ source.loop /\ Go(t, "load") /\ Quietly
     \/ tasks' = [tasks EXCEPT ![t].pc = "load", ![t].draining = TRUE] /\ Quietly

WriteSamples(t) ==
  /\ Runs(t, "write")
  /\ \/ Go(t, "load") /\ Quietly
     \/ Fail(t, "ampOff")

MutDropAmp(t) == Runs(t, "ampOff") /\ Go(t, "disable") /\ Quietly

(* The way out: amp, channel, flag, Idle.                                  *)
DropAmp(t) ==
  /\ Runs(t, "ampOff")
  /\ amp' = FALSE
  /\ Go(t, "disable")
  /\ UNCHANGED <<audioBegun, playbackState, source, chan, muted, ctl, owed, ended>>

DisableChannel(t) ==
  /\ Runs(t, "disable")
  /\ chan' = [chan EXCEPT !.hw = IF @ = "running" THEN "ready" ELSE @]
  /\ Go(t, "flag")
  /\ UNCHANGED <<audioBegun, playbackState, source, amp, muted, ctl, owed, ended>>

MutClearFlag(t) == Runs(t, "flag") /\ Go(t, "idle") /\ Quietly

ClearFlag(t) ==
  /\ Runs(t, "flag")
  /\ chan' = [chan EXCEPT !.enabled = FALSE]
  /\ Go(t, "idle")
  /\ UNCHANGED <<audioBegun, playbackState, source, amp, muted, ctl, owed, ended>>

GoIdle(t) ==
  /\ Runs(t, "idle")
  /\ playbackState' = "Idle"
  /\ tasks' = [tasks EXCEPT ![t] = NoTask]
  /\ UNCHANGED <<audioBegun, source, output, ctl, owed, ended>>

-----------------------------------------------------------------------------
Caller ==
  \/ StopLoad \/ StopCas \/ StopWait \/ StopQuiet
  \/ PrepareFails \/ Prepare \/ Publish \/ Create \/ CreateFails
  \/ PowerDown \/ RestartCas

Playing(t) ==
  \/ RaiseAmp(t) \/ LoadState(t) \/ Rewind(t) \/ ServeRestart(t)
  \/ PlaySilence(t) \/ EndDry(t) \/ ReadSource(t) \/ WriteSamples(t)
  \/ DropAmp(t) \/ DisableChannel(t) \/ ClearFlag(t) \/ GoIdle(t)

AudioNext ==
  \/ \E call \in Playback : PlaySource(call)
  \/ \E op \in {"stop", "powerDown"} : StopOrPowerDown(op)
  \/ RequestRestart
  \/ Caller
  \/ \E t \in Task : Playing(t)

(* A task that can step is scheduled, and its callbacks and I2S writes     *)
(* return; a call that was made goes on.                                   *)
Fairness == WF_audioVars(Caller) /\ \A t \in Task : WF_audioVars(Playing(t))

AudioSpec == AudioInit /\ [][AudioNext]_audioVars /\ Fairness

-----------------------------------------------------------------------------
(* stop() before anything else: no two tasks live, and none while a call   *)
(* reconfigures the channel, hands a source over or tears I2S down         *)
(* (play() "stops any current playback first").                            *)
OneTask ==
  /\ \A t, u \in Task : Alive(t) /\ Alive(u) => t = u
  /\ ctl.pc \in {"prepare", "publish", "create", "teardown"} => \A t \in Task : ~Alive(t)

(* A task plays through a powered, unmuted codec and a running channel it  *)
(* alone will disable, and the amp never drives an idle line.              *)
OutputHeld ==
  /\ \A t \in Task : tasks[t].pc \notin {"none", "flag", "idle"} => audioBegun /\ ~muted /\ chan.hw = "running"
  /\ amp => \E t \in Task : Alive(t)
  /\ amp => chan.hw = "running"

(* What ensureI2s() goes by: with no task alive, chanEnabled_ tells        *)
(* whether the channel runs, whatever failed on the way.                   *)
ChannelFlagTruth ==
  (\A t \in Task : ~Alive(t)) => (chan.enabled <=> chan.hw = "running")

(* "Channel exists but was disabled when the last playback drained": a     *)
(* channel at currentRate_ still has the clock of that rate.               *)
ClockIsCurrentRate == chan.hw # "none" => chan.clock = chan.rate

(* A stop always comes through: the task reads Stopping at its next pass,  *)
(* drains and goes Idle, so stop() need not run into its 2 s.              *)
StopEnds == playbackState = "Stopping" ~> playbackState = "Idle"

(* A restart the caller was promised is served, stopped or failed, never   *)
(* left pending.                                                           *)
RestartAnswered == owed ~> ~owed

PlaybackPhase ==
  CASE playbackState = "Idle"     -> "idle"
    [] playbackState = "Stopping" -> "stopping"
    [] OTHER                      -> "playing"

Contract == INSTANCE AudioContract WITH phase <- PlaybackPhase

(* The playback implements its contract: it ends of itself only when no    *)
(* accepted restart is owed.                                               *)
ImplementsContract == Contract!Spec
=============================================================================
