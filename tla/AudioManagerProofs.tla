--------------------------- MODULE AudioManagerProofs ---------------------------
(***************************************************************************)
(* Proofs about AudioManager, for any set of tasks and rates and any       *)
(* length of drain, provided that stop() does not give up on the task      *)
(* (~StopMayTimeOut).  Handoff says who holds what, from the atomic state; *)
(* Output adds the channel, the amp and the mute that go with it.          *)
(***************************************************************************)
EXTENDS AudioManager, TLAPS

NoneAlive == \A t \in Task : ~Alive(t)
Leaving == {"ampOff", "disable", "flag", "idle"}

Handoff ==
  /\ \A t, u \in Task : Alive(t) /\ Alive(u) => t = u
  /\ playbackState = "Idle" => NoneAlive
  /\ ctl.pc \in {"quiet", "prepare", "publish", "teardown"} => playbackState = "Idle"
  /\ ctl.pc = "create" => playbackState = "Playing" /\ NoneAlive
  /\ \A t \in Task : tasks[t].pc \in Leaving => playbackState = "Stopping"
  /\ owed <=> playbackState = "RestartPending"
  /\ ctl.pc \notin {"none", "restart"} => audioBegun
  /\ ctl.pc = "restart" => ctl.seen = "Playing"
  /\ ctl.pc = "cas" => ctl.seen \in {"Playing", "RestartPending"}
  /\ ctl.pc \in {"load", "cas", "wait", "quiet"} => ctl.call \in Playback \cup [op : {"stop", "powerDown"}]
  /\ ctl.pc \in {"prepare", "publish"} => ctl.call \in Playback
  /\ \A t \in Task : tasks[t].pc = "silence" => tasks[t].drained < DrainBuffers

Output ==
  /\ \A t \in Task : tasks[t].pc \notin {"none", "flag", "idle"} => ~muted /\ chan.hw = "running" /\ chan.enabled
  /\ \A t \in Task : Alive(t) => audioBegun
  /\ \A t \in Task : tasks[t].pc \in {"flag", "idle"} => chan.hw = "ready"
  /\ \A t \in Task : tasks[t].pc = "idle" => ~chan.enabled
  /\ \A t \in Task : tasks[t].pc \in {"prime", "disable", "flag", "idle"} => ~amp
  /\ amp => \E t \in Task : Alive(t)
  /\ NoneAlive => (chan.enabled <=> chan.hw = "running")
  /\ ctl.pc \in {"publish", "create"} => chan.hw = "running" /\ chan.enabled
  /\ ctl.pc = "create" => ~muted

PlaybackInv == AudioTypeOK /\ Handoff /\ Output

(* ensureI2s() returns with a running channel that its flag admits to, and *)
(* fails with one whose flag is as true as it was.                         *)
LEMMA EnsuredChannel ==
  ASSUME NEW c \in Channel, NEW rate \in Rate, c.enabled <=> c.hw = "running"
  PROVE  /\ EnsureI2s(c, rate) \in Channel
         /\ EnsureI2s(c, rate).hw = "running" /\ EnsureI2s(c, rate).enabled
         /\ \A f \in EnsureI2sFailures(c, rate) : f \in Channel /\ (f.enabled <=> f.hw = "running")
  <1>1. Running(rate) \in Channel /\ Running(rate).hw = "running" /\ Running(rate).enabled
    BY DEF Running, Channel
  <1>2. Stopped(c) \in Channel /\ ~Stopped(c).enabled /\ Stopped(c).hw # "running"
    BY DEF Stopped, Channel
  <1>3. [Stopped(c) EXCEPT !.clock = rate] \in Channel
        /\ ~[Stopped(c) EXCEPT !.clock = rate].enabled
        /\ [Stopped(c) EXCEPT !.clock = rate].hw # "running"
    BY <1>2 DEF Channel
  <1>4. [c EXCEPT !.hw = "running", !.enabled = TRUE] \in Channel
    BY DEF Channel
  <1>5. EnsureI2s(c, rate) \in Channel /\ EnsureI2s(c, rate).hw = "running" /\ EnsureI2s(c, rate).enabled
    BY <1>1, <1>4 DEF EnsureI2s, Channel
  <1>6. ASSUME NEW f \in EnsureI2sFailures(c, rate)
        PROVE  f \in Channel /\ (f.enabled <=> f.hw = "running")
    BY <1>2, <1>3, <1>6 DEF EnsureI2sFailures
  <1> QED BY <1>5, <1>6

(* Where prepare finds the channel: no task lives, so its flag is true.    *)
LEMMA PrepareAlone ==
  ASSUME AudioTypeOK, Handoff, Output, At("prepare")
  PROVE  /\ NoneAlive /\ ctl.call \in Playback /\ ctl.call.rate \in Rate
         /\ chan \in Channel /\ (chan.enabled <=> chan.hw = "running")
  BY DEF AudioTypeOK, Handoff, Output, At, Playback

TasksTyped == tasks \in [Task -> [pc : TaskStep, draining : BOOLEAN, drained : 0..DrainBuffers]]

(* The common ends of a task's step keep the types.                        *)
LEMMA GoTyped ==
  ASSUME AudioTypeOK, NEW t \in Task, NEW pc \in TaskStep, Go(t, pc)
  PROVE  TasksTyped'
  BY DEF AudioTypeOK, TasksTyped, Go

LEMMA FieldsTyped ==
  ASSUME AudioTypeOK, NEW t \in Task, NEW pc \in TaskStep, NEW draining \in BOOLEAN, NEW drained \in 0..DrainBuffers,
         \/ tasks' = [tasks EXCEPT ![t].pc = pc, ![t].draining = draining, ![t].drained = drained]
         \/ tasks' = [tasks EXCEPT ![t].pc = pc, ![t].draining = draining]
         \/ tasks' = [tasks EXCEPT ![t].pc = pc, ![t].drained = drained]
  PROVE  TasksTyped'
  <1> DEFINE T == [pc : TaskStep, draining : BOOLEAN, drained : 0..DrainBuffers]
             changed == tasks'[t]
  <1>1. tasks \in [Task -> T] /\ tasks[t] \in T
    BY DEF AudioTypeOK
  <1>2. tasks[t] = [pc |-> tasks[t].pc, draining |-> tasks[t].draining, drained |-> tasks[t].drained]
        /\ tasks[t].draining \in BOOLEAN /\ tasks[t].drained \in 0..DrainBuffers
    BY <1>1
  <1>3. /\ changed = [pc |-> pc, draining |-> changed.draining, drained |-> changed.drained]
        /\ changed.draining \in {draining, tasks[t].draining} /\ changed.drained \in {drained, tasks[t].drained}
        /\ tasks' = [tasks EXCEPT ![t] = changed]
    BY <1>1, <1>2
  <1>4. changed \in T
    BY <1>2, <1>3
  <1> HIDE DEF T, changed
  <1>5. tasks' \in [Task -> T]
    BY <1>1, <1>3, <1>4
  <1> QED BY <1>5 DEF T, TasksTyped

LEMMA FailTyped ==
  ASSUME AudioTypeOK, NEW t \in Task, NEW pc \in TaskStep, Fail(t, pc)
  PROVE  AudioTypeOK'
  BY GoTyped DEF AudioTypeOK, TasksTyped, Fail, output, PlaybackState

LEMMA QuietTyped ==
  ASSUME AudioTypeOK, Quietly,
         TasksTyped'
  PROVE  AudioTypeOK'
  BY DEF AudioTypeOK, TasksTyped, Quietly, output

(* The types, step by step.                                                *)
LEMMA TypeKept ==
  ASSUME AudioTypeOK, Handoff, Output, AudioNext, ~StopMayTimeOut
  PROVE  AudioTypeOK'
  <1> USE AudioAssumption DEF AudioTypeOK, PlaybackState, TaskStep, Step
  <1>1. ASSUME NEW call \in Playback, PlaySource(call) PROVE AudioTypeOK'
    BY <1>1 DEF PlaySource, At
  <1>2. ASSUME NEW op \in {"stop", "powerDown"}, StopOrPowerDown(op) PROVE AudioTypeOK'
    BY <1>2 DEF StopOrPowerDown, At, output
  <1>3. CASE RequestRestart BY <1>3 DEF RequestRestart, At, output
  <1>4. CASE StopLoad BY <1>4 DEF StopLoad, At, output
  <1>5. CASE StopCas BY <1>5 DEF StopCas, At, GoTo, output
  <1>6. CASE StopWait BY <1>6 DEF StopWait, At, GoTo, output
  <1>7. CASE StopQuiet
    <2>1. CASE ctl.call.op = "powerDown" BY <1>7, <2>1 DEF StopQuiet, At, GoTo, output
    <2>2. CASE ctl.call.op = "stop"
      <3>1. ctl' = [pc |-> "none", call |-> [op |-> "none"], seen |-> "Idle"]
        BY <1>7, <2>2 DEF StopQuiet, Return, NoCall
      <3> QED BY <1>7, <3>1 DEF StopQuiet
    <2>3. CASE ctl.call.op \notin {"powerDown", "stop"} BY <1>7, <2>3 DEF StopQuiet, At, GoTo, output
    <2> QED BY <2>1, <2>2, <2>3
  <1>8. CASE PrepareFails
    <2>1. chan' \in Channel BY <1>8, PrepareAlone, EnsuredChannel DEF PrepareFails
    <2> QED BY <1>8, <2>1 DEF PrepareFails, Return, NoCall
  <1>9. CASE Prepare
    <2>1. chan' \in Channel BY <1>9, PrepareAlone, EnsuredChannel DEF Prepare
    <2> QED BY <1>9, <2>1 DEF Prepare, GoTo
  <1>10. CASE Publish BY <1>10 DEF Publish, At, GoTo, Source, Handoff, Playback
  <1>11. CASE Create BY <1>11 DEF Create, At, Return, NoCall, NewTask, output
  <1>12. CASE CreateFails BY <1>12 DEF CreateFails, At, Return, NoCall, output
  <1>13. CASE PowerDown BY <1>13 DEF PowerDown, At, Return, NoCall, NoChannel, Channel
  <1>14. CASE RestartCas BY <1>14 DEF RestartCas, At, Return, NoCall, output
  <1>15. ASSUME NEW t \in Task, Playing(t) PROVE AudioTypeOK'
    <2>1. CASE RaiseAmp(t)
      <3>1. TasksTyped' BY <2>1, GoTyped DEF RaiseAmp
      <3>2. amp' = TRUE /\ UNCHANGED <<audioBegun, playbackState, source, chan, muted, ctl, owed, ended>>
        BY <2>1 DEF RaiseAmp
      <3> QED BY <3>1, <3>2 DEF TasksTyped
    <2>2. CASE LoadState(t)
      <3>1. CASE Restarting(t) BY <2>2, <3>1, GoTyped, QuietTyped DEF LoadState
      <3>2. CASE ~Restarting(t)
        <4> DEFINE drained == IF tasks[t].draining THEN tasks[t].drained ELSE 0
        <4>1. drained \in 0..DrainBuffers /\ Draining(t) \in BOOLEAN
              /\ PassOf(Draining(t), drained) \in TaskStep
          BY DEF Draining, PassOf
        <4>2. tasks' = [tasks EXCEPT ![t] = [pc |-> PassOf(Draining(t), drained),
                                             draining |-> Draining(t), drained |-> drained]]
          BY <2>2, <3>2 DEF LoadState
        <4> HIDE DEF drained
        <4>3. TasksTyped'
          BY <4>1, <4>2 DEF TasksTyped
        <4> QED BY <2>2, <4>3, QuietTyped DEF LoadState
      <3> QED BY <3>1, <3>2
    <2>3. CASE Rewind(t)
      <3>1. CASE Fail(t, "load") BY <3>1, FailTyped
      <3>2. CASE ~Fail(t, "load")
        <4>1. /\ tasks' = [tasks EXCEPT ![t].pc = "rewound", ![t].draining = FALSE, ![t].drained = 0]
              /\ Quietly
          BY <2>3, <3>2 DEF Rewind
        <4>2. "rewound" \in TaskStep /\ 0 \in 0..DrainBuffers
          OBVIOUS
        <4> HIDE DEF AudioTypeOK, TaskStep
        <4>3. TasksTyped'
          BY <4>1, <4>2, FieldsTyped
        <4> QED BY <4>1, <4>3, QuietTyped
      <3> QED BY <3>1, <3>2
    <2>4. CASE ServeRestart(t)
      <3>1. TasksTyped' BY <2>4, GoTyped DEF ServeRestart
      <3>2. /\ playbackState' \in PlaybackState /\ owed' \in BOOLEAN
            /\ UNCHANGED <<audioBegun, source, output, ctl, ended>>
        BY <2>4 DEF ServeRestart
      <3> QED BY <3>1, <3>2 DEF TasksTyped, output
    <2>5. CASE PlaySilence(t)
      <3>1. CASE Fail(t, "ampOff") BY <3>1, FailTyped
      <3>2. CASE ~Fail(t, "ampOff")
        <4>1. tasks[t].drained + 1 \in 0..DrainBuffers BY <2>5 DEF PlaySilence, Runs, Handoff
        <4>2. /\ tasks' = [tasks EXCEPT ![t].pc = "load", ![t].drained = tasks[t].drained + 1]
              /\ Quietly /\ "load" \in TaskStep
          BY <2>5, <3>2 DEF PlaySilence
        <4> HIDE DEF AudioTypeOK, TaskStep
        <4>3. TasksTyped'
          BY <4>1, <4>2, FieldsTyped
        <4> QED BY <4>2, <4>3, QuietTyped
      <3> QED BY <3>1, <3>2
    <2>6. CASE EndDry(t)
      <3>1. TasksTyped' BY <2>6, GoTyped DEF EndDry
      <3> QED BY <2>6, <3>1 DEF EndDry, TasksTyped, output
    <2>7. CASE ReadSource(t)
      <3>1. CASE Fail(t, "ampOff") BY <3>1, FailTyped
      <3>2. CASE Go(t, "write") /\ Quietly BY <3>2, GoTyped, QuietTyped
      <3>3. CASE Go(t, "load") /\ Quietly BY <3>3, GoTyped, QuietTyped
      <3>4. CASE tasks' = [tasks EXCEPT ![t].pc = "load", ![t].draining = TRUE] /\ Quietly
        <4>1. "load" \in TaskStep /\ 0 \in 0..DrainBuffers
          OBVIOUS
        <4> HIDE DEF AudioTypeOK, TaskStep
        <4>2. TasksTyped'
          BY <3>4, <4>1, FieldsTyped
        <4> QED BY <3>4, <4>2, QuietTyped
      <3> QED BY <2>7, <3>1, <3>2, <3>3, <3>4 DEF ReadSource
    <2>8. CASE WriteSamples(t) BY <2>8, GoTyped, QuietTyped, FailTyped DEF WriteSamples
    <2>9. CASE DropAmp(t)
      <3>1. TasksTyped' BY <2>9, GoTyped DEF DropAmp
      <3>2. amp' = FALSE /\ UNCHANGED <<audioBegun, playbackState, source, chan, muted, ctl, owed, ended>>
        BY <2>9 DEF DropAmp
      <3> QED BY <3>1, <3>2 DEF TasksTyped
    <2>10. CASE DisableChannel(t)
      <3>1. TasksTyped' BY <2>10, GoTyped DEF DisableChannel
      <3>2. chan' \in Channel /\ UNCHANGED <<audioBegun, playbackState, source, amp, muted, ctl, owed, ended>>
        BY <2>10 DEF DisableChannel, Channel
      <3> QED BY <3>1, <3>2 DEF TasksTyped
    <2>11. CASE ClearFlag(t)
      <3>1. TasksTyped' BY <2>11, GoTyped DEF ClearFlag
      <3>2. chan' \in Channel /\ UNCHANGED <<audioBegun, playbackState, source, amp, muted, ctl, owed, ended>>
        BY <2>11 DEF ClearFlag, Channel
      <3> QED BY <3>1, <3>2 DEF TasksTyped
    <2>12. CASE GoIdle(t)
      <3>1. NoTask \in [pc : TaskStep, draining : BOOLEAN, drained : 0..DrainBuffers]
        <4>1. NoTask = [pc |-> "none", draining |-> FALSE, drained |-> 0] BY DEF NoTask
        <4>2. 0 \in 0..DrainBuffers BY AudioAssumption
        <4> QED BY <4>1, <4>2
      <3> QED BY <2>12, <3>1 DEF GoIdle, output
    <2> QED BY <1>15, <2>1, <2>2, <2>3, <2>4, <2>5, <2>6, <2>7, <2>8, <2>9, <2>10, <2>11, <2>12 DEF Playing
  <1> QED BY <1>1, <1>2, <1>3, <1>4, <1>5, <1>6, <1>7, <1>8, <1>9, <1>10, <1>11, <1>12, <1>13, <1>14, <1>15
          DEF AudioNext, Caller

(* What one task's step leaves of the others.                              *)
LEMMA Others ==
  ASSUME AudioTypeOK, NEW t \in Task, Playing(t)
  PROVE  \A u \in Task : u # t => tasks'[u] = tasks[u]
  BY DEF Playing, RaiseAmp, LoadState, Rewind, ServeRestart, PlaySilence, EndDry, ReadSource, WriteSamples,
         DropAmp, DisableChannel, ClearFlag, GoIdle, Go, Fail, AudioTypeOK

(* Who holds what, step by step.                                           *)
LEMMA HandoffKept ==
  ASSUME AudioTypeOK, Handoff, AudioNext, ~StopMayTimeOut
  PROVE  Handoff'
  <1> USE DEF AudioTypeOK, PlaybackState, Handoff, NoneAlive, Leaving, Alive, At, GoTo, Return, NoCall
  <1>1. ASSUME NEW call \in Playback, PlaySource(call) PROVE Handoff'
    BY <1>1 DEF PlaySource
  <1>2. ASSUME NEW op \in {"stop", "powerDown"}, StopOrPowerDown(op) PROVE Handoff'
    BY <1>2 DEF StopOrPowerDown
  <1>3. CASE RequestRestart BY <1>3 DEF RequestRestart
  <1>4. CASE StopLoad BY <1>4 DEF StopLoad
  <1>5. CASE StopCas BY <1>5 DEF StopCas
  <1>6. CASE StopWait BY <1>6 DEF StopWait
  <1>7. CASE StopQuiet
    <2>1. ctl.call \in Playback \/ ctl.call.op \in {"stop", "powerDown"} BY <1>7 DEF StopQuiet
    <2>2. ctl.call \in Playback => ctl.call.op \notin {"stop", "powerDown"} BY DEF Playback
    <2>3. CASE ctl.call.op = "powerDown" BY <1>7, <2>3 DEF StopQuiet
    <2>4. CASE ctl.call.op = "stop" BY <1>7, <2>4 DEF StopQuiet
    <2>5. CASE ctl.call \in Playback BY <1>7, <2>2, <2>5 DEF StopQuiet
    <2> QED BY <2>1, <2>3, <2>4, <2>5
  <1>8. CASE PrepareFails BY <1>8 DEF PrepareFails
  <1>9. CASE Prepare BY <1>9 DEF Prepare
  <1>10. CASE Publish BY <1>10 DEF Publish
  <1>11. CASE Create BY <1>11 DEF Create, NewTask
  <1>12. CASE CreateFails BY <1>12 DEF CreateFails
  <1>13. CASE PowerDown BY <1>13 DEF PowerDown
  <1>14. CASE RestartCas BY <1>14 DEF RestartCas
  <1>15. ASSUME NEW t \in Task, Playing(t) PROVE Handoff'
    <2> USE Others, <1>15 DEF Runs, Go, Quietly, Fail
    <2>1. CASE RaiseAmp(t) BY <2>1 DEF RaiseAmp
    <2>2. CASE LoadState(t) BY <2>2 DEF LoadState, Restarting, Draining, PassOf
    <2>3. CASE Rewind(t) BY <2>3 DEF Rewind
    <2>4. CASE ServeRestart(t) BY <2>4 DEF ServeRestart
    <2>5. CASE PlaySilence(t) BY <2>5 DEF PlaySilence
    <2>6. CASE EndDry(t) BY <2>6 DEF EndDry
    <2>7. CASE ReadSource(t) BY <2>7 DEF ReadSource
    <2>8. CASE WriteSamples(t) BY <2>8 DEF WriteSamples
    <2>9. CASE DropAmp(t) BY <2>9 DEF DropAmp
    <2>10. CASE DisableChannel(t) BY <2>10 DEF DisableChannel
    <2>11. CASE ClearFlag(t) BY <2>11 DEF ClearFlag
    <2>12. CASE GoIdle(t) BY <2>12 DEF GoIdle, NoTask
    <2> QED BY <1>15, <2>1, <2>2, <2>3, <2>4, <2>5, <2>6, <2>7, <2>8, <2>9, <2>10, <2>11, <2>12 DEF Playing
  <1> QED BY <1>1, <1>2, <1>3, <1>4, <1>5, <1>6, <1>7, <1>8, <1>9, <1>10, <1>11, <1>12, <1>13, <1>14, <1>15
          DEF AudioNext, Caller

(* The output that goes with it, step by step.                             *)
LEMMA OutputKept ==
  ASSUME AudioTypeOK, Handoff, Output, AudioNext, ~StopMayTimeOut
  PROVE  Output'
  <1> USE DEF AudioTypeOK, PlaybackState, Handoff, Output, NoneAlive, Leaving, Alive, At, GoTo, Return, NoCall, output
  <1>1. ASSUME NEW call \in Playback, PlaySource(call) PROVE Output'
    BY <1>1 DEF PlaySource
  <1>2. ASSUME NEW op \in {"stop", "powerDown"}, StopOrPowerDown(op) PROVE Output'
    BY <1>2 DEF StopOrPowerDown
  <1>3. CASE RequestRestart BY <1>3 DEF RequestRestart
  <1>4. CASE StopLoad BY <1>4 DEF StopLoad
  <1>5. CASE StopCas BY <1>5 DEF StopCas
  <1>6. CASE StopWait BY <1>6 DEF StopWait
  <1>7. CASE StopQuiet BY <1>7 DEF StopQuiet
  <1>8. CASE PrepareFails
    <2>1. chan'.enabled <=> chan'.hw = "running" BY <1>8, PrepareAlone, EnsuredChannel DEF PrepareFails
    <2> QED BY <1>8, <2>1 DEF PrepareFails
  <1>9. CASE Prepare
    <2>1. chan'.enabled /\ chan'.hw = "running" BY <1>9, PrepareAlone, EnsuredChannel DEF Prepare
    <2> QED BY <1>9, <2>1 DEF Prepare
  <1>10. CASE Publish BY <1>10 DEF Publish
  <1>11. CASE Create BY <1>11 DEF Create, NewTask
  <1>12. CASE CreateFails BY <1>12 DEF CreateFails
  <1>13. CASE PowerDown
    <2>1. NoneAlive /\ ~amp BY <1>13 DEF PowerDown
    <2>2. ~amp' BY <1>13, <2>1 DEF PowerDown
    <2>3. NoneAlive' BY <1>13, <2>1 DEF PowerDown
    <2> QED BY <1>13, <2>2, <2>3 DEF PowerDown, NoChannel
  <1>14. CASE RestartCas BY <1>14 DEF RestartCas
  <1>15. ASSUME NEW t \in Task, Playing(t) PROVE Output'
    <2> USE Others, <1>15 DEF Runs, Go, Quietly, Fail
    <2>1. CASE RaiseAmp(t) BY <2>1 DEF RaiseAmp
    <2>2. CASE LoadState(t) BY <2>2 DEF LoadState, Restarting, Draining, PassOf
    <2>3. CASE Rewind(t) BY <2>3 DEF Rewind
    <2>4. CASE ServeRestart(t) BY <2>4 DEF ServeRestart
    <2>5. CASE PlaySilence(t) BY <2>5 DEF PlaySilence
    <2>6. CASE EndDry(t) BY <2>6 DEF EndDry
    <2>7. CASE ReadSource(t) BY <2>7 DEF ReadSource
    <2>8. CASE WriteSamples(t) BY <2>8 DEF WriteSamples
    <2>9. CASE DropAmp(t) BY <2>9 DEF DropAmp
    <2>10. CASE DisableChannel(t) BY <2>10 DEF DisableChannel
    <2>11. CASE ClearFlag(t) BY <2>11 DEF ClearFlag
    <2>12. CASE GoIdle(t) BY <2>12 DEF GoIdle, NoTask
    <2> QED BY <1>15, <2>1, <2>2, <2>3, <2>4, <2>5, <2>6, <2>7, <2>8, <2>9, <2>10, <2>11, <2>12 DEF Playing
  <1> QED BY <1>1, <1>2, <1>3, <1>4, <1>5, <1>6, <1>7, <1>8, <1>9, <1>10, <1>11, <1>12, <1>13, <1>14, <1>15
          DEF AudioNext, Caller

-----------------------------------------------------------------------------
LEMMA PlaybackInitially == AudioInit => PlaybackInv
  <1> SUFFICES ASSUME AudioInit PROVE PlaybackInv OBVIOUS
  <1>1. AudioTypeOK
    <2>1. NoTask \in [pc : TaskStep, draining : BOOLEAN, drained : 0..DrainBuffers]
      <3>1. 0 \in 0..DrainBuffers BY AudioAssumption
      <3> QED BY <3>1 DEF NoTask, TaskStep
    <2> QED BY <2>1 DEF AudioInit, AudioTypeOK, PlaybackState, Source, Channel, NoChannel, NoCall
  <1>2. Handoff BY DEF AudioInit, Handoff, NoneAlive, Alive, Leaving, NoTask, NoCall
  <1>3. Output BY DEF AudioInit, Output, NoneAlive, Alive, NoTask, NoChannel
  <1> QED BY <1>1, <1>2, <1>3 DEF PlaybackInv

LEMMA PlaybackStays ==
  ASSUME ~StopMayTimeOut
  PROVE  PlaybackInv /\ [AudioNext]_audioVars => PlaybackInv'
  <1>1. PlaybackInv /\ AudioNext => PlaybackInv'
    BY TypeKept, HandoffKept, OutputKept DEF PlaybackInv
  <1>2. PlaybackInv /\ UNCHANGED audioVars => PlaybackInv'
    BY DEF PlaybackInv, AudioTypeOK, Handoff, Output, NoneAlive, Alive, audioVars, output
  <1> QED BY <1>1, <1>2

(* PlaybackInv is inductive: with a stop() that waits, the atomic state    *)
(* alone tells who may touch the source, the channel and the amp.          *)
THEOREM PlaybackInOrder ==
  ASSUME ~StopMayTimeOut
  PROVE  AudioSpec => []PlaybackInv
  BY PlaybackInitially, PlaybackStays, PTL DEF AudioSpec

(* Every variable of the player keeps its type, a drain never playing more *)
(* than its share of silence.                                              *)
THEOREM AudioTypeCorrect ==
  ASSUME ~StopMayTimeOut
  PROVE  AudioSpec => []AudioTypeOK
  <1>1. PlaybackInv => AudioTypeOK BY DEF PlaybackInv
  <1> QED BY <1>1, PlaybackInOrder, PTL

(* No two tasks ever live, and none while a call prepares the next one or  *)
(* tears the channel down.                                                 *)
THEOREM OneTaskEver ==
  ASSUME ~StopMayTimeOut
  PROVE  AudioSpec => []OneTask
  <1>1. PlaybackInv => OneTask BY DEF PlaybackInv, Handoff, OneTask, NoneAlive
  <1> QED BY <1>1, PlaybackInOrder, PTL

(* A task plays through a running channel and an unmuted, powered codec,   *)
(* and the amp never drives an idle line.                                  *)
THEOREM OutputAlwaysHeld ==
  ASSUME ~StopMayTimeOut
  PROVE  AudioSpec => []OutputHeld
  <1>1. PlaybackInv => OutputHeld BY DEF PlaybackInv, Output, OutputHeld, Alive, AudioTypeOK
  <1> QED BY <1>1, PlaybackInOrder, PTL

(* With no task alive chanEnabled_ tells whether the channel runs.         *)
THEOREM FlagIsTrue ==
  ASSUME ~StopMayTimeOut
  PROVE  AudioSpec => []ChannelFlagTruth
  <1>1. PlaybackInv => ChannelFlagTruth BY DEF PlaybackInv, Output, ChannelFlagTruth, NoneAlive
  <1> QED BY <1>1, PlaybackInOrder, PTL

(* A step of the player is a step of its contract or leaves it alone.      *)
LEMMA StepIsContract ==
  ASSUME PlaybackInv, AudioNext, ~StopMayTimeOut
  PROVE  [Contract!Next]_(Contract!contract)
  <1> USE DEF PlaybackInv, AudioTypeOK, PlaybackState, Handoff, NoneAlive, Alive, Leaving, At, PlaybackPhase,
              Contract!contract, Contract!Next
  <1>1. ASSUME NEW call \in Playback, PlaySource(call) PROVE UNCHANGED Contract!contract
    BY <1>1 DEF PlaySource
  <1>2. ASSUME NEW op \in {"stop", "powerDown"}, StopOrPowerDown(op) PROVE UNCHANGED Contract!contract
    BY <1>2 DEF StopOrPowerDown
  <1>3. CASE RequestRestart \/ StopLoad \/ StopWait \/ StopQuiet \/ PrepareFails \/ Prepare \/ Create
    BY <1>3 DEF RequestRestart, StopLoad, StopWait, StopQuiet, PrepareFails, Prepare, Create
  <1>4. CASE StopCas BY <1>4 DEF StopCas, Contract!Cut
  <1>5. CASE Publish BY <1>5 DEF Publish, Contract!Start
  <1>6. CASE CreateFails BY <1>6 DEF CreateFails, Contract!NeverStarted
  <1>7. CASE PowerDown BY <1>7 DEF PowerDown
  <1>8. CASE RestartCas BY <1>8 DEF RestartCas, Contract!Accept
  <1>9. ASSUME NEW t \in Task, Playing(t) PROVE [Contract!Next]_(Contract!contract)
    <2>1. CASE RaiseAmp(t) \/ LoadState(t) \/ DropAmp(t) \/ DisableChannel(t) \/ ClearFlag(t)
      BY <2>1 DEF RaiseAmp, LoadState, DropAmp, DisableChannel, ClearFlag, Quietly
    <2>2. ASSUME NEW pc, Alive(t), Fail(t, pc) PROVE [Contract!Next]_(Contract!contract)
      BY <2>2 DEF Fail, Contract!Cut
    <2>3. CASE Quietly BY <2>3 DEF Quietly
    <2>4. CASE Rewind(t) \/ PlaySilence(t) \/ ReadSource(t) \/ WriteSamples(t)
      BY <2>2, <2>3, <2>4 DEF Rewind, PlaySilence, ReadSource, WriteSamples, Runs
    <2>5. CASE ServeRestart(t) BY <2>5 DEF ServeRestart, Contract!Serve
    <2>6. CASE EndDry(t) BY <2>6 DEF EndDry, Contract!RunDry
    <2>7. CASE GoIdle(t) BY <2>7 DEF GoIdle, Runs, Contract!Finish
    <2> QED BY <1>9, <2>1, <2>4, <2>5, <2>6, <2>7 DEF Playing
  <1> QED BY <1>1, <1>2, <1>3, <1>4, <1>5, <1>6, <1>7, <1>8, <1>9 DEF AudioNext, Caller

(* The player implements its contract: a playback ends of itself only with *)
(* no accepted restart owed, and only once Idle may the next one start.    *)
THEOREM PlayerImplementsContract ==
  ASSUME ~StopMayTimeOut
  PROVE  AudioSpec => ImplementsContract
  <1>1. AudioInit => Contract!Init BY DEF AudioInit, Contract!Init, PlaybackPhase
  <1>2. PlaybackInv /\ [AudioNext]_audioVars => [Contract!Next]_(Contract!contract)
    <2>1. UNCHANGED audioVars => UNCHANGED Contract!contract BY DEF audioVars, Contract!contract, PlaybackPhase
    <2> QED BY <2>1, StepIsContract
  <1> QED BY <1>1, <1>2, PlaybackInOrder, PTL DEF AudioSpec, ImplementsContract, Contract!Spec
=============================================================================
