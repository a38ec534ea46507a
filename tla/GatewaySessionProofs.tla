------------------------ MODULE GatewaySessionProofs ------------------------
(***************************************************************************)
(* Proofs about GatewaySession, for every value of its constants.          *)
(*                                                                         *)
(* The safety invariants are not inductive one by one.  IInv adds to them  *)
(* LifeCycle, which ties start() and close() to what the session holds,    *)
(* and GateInv, which states the invariants of the backpressure gate for   *)
(* any gate, so that the lemmas about pauseClient(), resumeClient() and    *)
(* evaluateBackpressure() can be cited for each of their many callers.     *)
(***************************************************************************)
EXTENDS GatewaySession, TLAPS

-----------------------------------------------------------------------------
(* The inductive invariant *)

GateInv(g) ==
    /\ g \in Gate
    /\ g.bufferedBytes < MaxBuffered
    /\ ~closed =>
         /\ g.circuitOpen = g.clientPaused
         /\ clientSock = "open" =>
               /\ g.sockPaused = g.clientPaused
               /\ (g.told = "paused") = g.clientPaused

IInv ==
    /\ TypeOK
    /\ GateInv(gate)
    /\ LifeCycle
    /\ OneBackoffTimer
    /\ AudioBacklogBounded
    /\ CleanUnlessClosedMidStart

-----------------------------------------------------------------------------
(* Lemmas about the gate *)

LEMMA BufferedNat == TypeOK => ProviderBuffered \in Nat
  BY DEF TypeOK, ProviderBuffered

\* pauseClient(), resumeClient() and evaluateBackpressure() keep the gate's
\* invariant whatever they are given: the count they freeze is below the hard
\* limit, and flags, socket and client notice move together.
LEMMA GateSteps ==
  ASSUME SessionAssumption, TypeOK,
         NEW g, GateInv(g), NEW up \in Nat, NEW depth \in Nat
  PROVE  /\ GateInv(PauseClient(g))
         /\ GateInv(ResumeClient(g, up, depth))
         /\ GateInv(EvaluateBackpressure(g, up, depth))
<1>1. highWaterMark \in Nat /\ MaxBuffered \in Nat /\ TransformHwm \in Nat
  BY DEF SessionAssumption, TypeOK
<1>2. GateInv(PauseClient(g))
  BY DEF SessionAssumption, GateInv, Gate, PauseClient, TypeOK
<1>3. ASSUME ~IsBackpressured(g, up, depth)
      PROVE  up < MaxBuffered
  BY <1>1, <1>3 DEF IsBackpressured, ShouldPause, GateInv, Gate
<1>4. GateInv(ResumeClient(g, up, depth))
  BY <1>3 DEF GateInv, Gate, ResumeClient, TypeOK
<1>5. QED
  BY <1>2, <1>4 DEF EvaluateBackpressure

\* Taking a message out of ws's receiver.
LEMMA ReceivedGate ==
  ASSUME SessionAssumption, TypeOK, GateInv(gate), Receivable
  PROVE  GateInv(Received)
  BY DEF GateInv, Gate, Received, Receivable

\* The gate's invariant depends on the state through `closed' and
\* `clientSock' only, and closing either asks less of the gate.
LEMMA GateCarries ==
  ASSUME NEW g, GateInv(g), closed => closed',
         clientSock' = "open" => clientSock = "open"
  PROVE  GateInv(g)'
  BY DEF GateInv

-----------------------------------------------------------------------------
(* The invariant holds initially and is kept by every step *)

LEMMA InitIInv == SessionAssumption /\ Init => IInv
<1> SUFFICES ASSUME SessionAssumption, Init PROVE IInv
  OBVIOUS
<1>1. TypeOK
  BY DEF SessionAssumption, Init, TypeOK, Gate
<1>2. GateInv(gate)
  <2>1. /\ gate.bufferedBytes = 0 /\ gate.told = "flowing"
        /\ ~gate.clientPaused /\ ~gate.circuitOpen /\ ~gate.sockPaused
    BY DEF Init
  <2>2. QED
    BY <1>1, <2>1 DEF SessionAssumption, TypeOK, GateInv, Gate
<1>3. LifeCycle
  BY Zenon DEF Init, LifeCycle, Starting
<1>6. OneBackoffTimer
  BY DEF Init, OneBackoffTimer
<1>7. CleanUnlessClosedMidStart
  BY DEF Init, CleanUnlessClosedMidStart
<1>4. AudioBacklogBounded
  BY DEF SessionAssumption, Init, AudioBacklogBounded
<1>5. QED
  BY <1>1, <1>2, <1>3, <1>4, <1>6, <1>7 DEF IInv

\* close() from any caller that finds no handler half done.
LEMMA CloseKeepsIInv ==
  ASSUME SessionAssumption, IInv, Idle, ~closed, pc # "failed",
         NEW u \in {"none", "dialing", "closing", "closed"},
         pc = "ready" <=> u \in {"closing", "closed"},
         NEW c \in {"closing", "closed"},
         CloseSession(u, c)
  PROVE  IInv'
<1>1. TypeOK'
  <2>1. timeouts' \in Nat
    BY DEF IInv, TypeOK, CloseSession, OneBackoffTimer
  <2>2. closed' \in BOOLEAN /\ closedMidStart' \in BOOLEAN
    BY DEF CloseSession
  <2>3. QED
    BY <2>1, <2>2 DEF IInv, TypeOK, CloseSession, loopVars
<1>2. GateInv(gate)'
  BY DEF IInv, GateInv, CloseSession
<1>3. OneBackoffTimer'
  BY DEF IInv, TypeOK, OneBackoffTimer, CloseSession
<1>4. LifeCycle'
  <2>1. timeouts' = 0
    BY DEF IInv, TypeOK, CloseSession, OneBackoffTimer
  <2>2. ~attached' /\ ~pressureTimer' /\ ~adaptiveTimer' /\ closed'
    BY DEF CloseSession
  <2>3. chunks' = 0 /\ ~commitAfter' /\ ~needDrain'
    BY DEF CloseSession, Idle, loopVars
  <2>4. /\ pc' = pc /\ (closedMidStart' <=> pc \in Starting) /\ upstream' = u
        /\ audioBuffered' = audioBuffered /\ ctrlBuffered' = ctrlBuffered
    BY DEF CloseSession
  <2>5. QED
    BY <1>1, <2>1, <2>2, <2>3, <2>4 DEF IInv, LifeCycle, TypeOK, Starting
<1>5. AudioBacklogBounded'
  BY DEF IInv, AudioBacklogBounded, CloseSession
<1>6. CleanUnlessClosedMidStart'
  <2>1. ~closedMidStart' => pc = "ready"
    BY DEF IInv, TypeOK, CloseSession, Starting
  <2>2. upstream' = u
    BY DEF CloseSession
  <2>3. ~attached' /\ ~pressureTimer' /\ ~adaptiveTimer' /\ closed'
    BY DEF CloseSession
  <2>4. timeouts' = 0
    BY DEF IInv, TypeOK, CloseSession, OneBackoffTimer
  <2>5. QED
    BY <2>1, <2>2, <2>3, <2>4 DEF CleanUnlessClosedMidStart
<1>7. QED
  BY <1>1, <1>2, <1>3, <1>4, <1>5, <1>6 DEF IInv

\* Until connect() resolves there is no provider socket to send on or drain.
LEMMA NothingSentYet ==
  IInv /\ pc \in Starting => ~Sendable /\ upstream \notin {"open", "closing"}
  BY DEF IInv, LifeCycle, Sendable

\* A callback that neither starts, ends nor backs off the session need only
\* be asked about the gate, the backlog and the handler it leaves running.
LEMMA QuietStep ==
  ASSUME SessionAssumption, IInv,
         UNCHANGED <<lifeVars, timerVars, attached, upstream, clientSock>>,
         GateInv(gate'),
         highWaterMark' \in {HighWaterMark} \cup AdaptiveMarks,
         audioBuffered' \in Nat, audioBuffered' < MaxBuffered + AppendBytes,
         ctrlBuffered' \in Nat, peerGone' \in BOOLEAN,
         chunks' \in Nat, commitAfter' \in BOOLEAN, needDrain' \in BOOLEAN,
         closed \/ pc = "plugins" => UNCHANGED loopVars,
         pc \in Starting => UNCHANGED <<audioBuffered, ctrlBuffered>>
  PROVE  IInv'
<1>1. GateInv(gate)'
  BY DEF GateInv, lifeVars
<1>2. TypeOK'
  BY <1>1 DEF IInv, TypeOK, GateInv, lifeVars, timerVars
<1>3. LifeCycle'
  BY DEF IInv, LifeCycle, Starting, lifeVars, timerVars, loopVars
<1>4. OneBackoffTimer' /\ CleanUnlessClosedMidStart'
  BY DEF IInv, OneBackoffTimer, CleanUnlessClosedMidStart, lifeVars, timerVars
<1>5. AudioBacklogBounded'
  BY DEF AudioBacklogBounded
<1>6. QED
  BY <1>1, <1>2, <1>3, <1>4, <1>5 DEF IInv

LEMMA StartKeepsIInv ==
  ASSUME SessionAssumption, IInv, Start
  PROVE  IInv'
<1> USE DEF lifeVars, timerVars, upVars, clientVars, loopVars
<1>1. CASE PluginsStarted
  <2>1. TypeOK' /\ GateInv(gate)' /\ AudioBacklogBounded' /\ OneBackoffTimer'
    BY <1>1 DEF PluginsStarted, IInv, TypeOK, GateInv, AudioBacklogBounded, OneBackoffTimer
  <2>2. LifeCycle'
    BY <1>1 DEF PluginsStarted, IInv, TypeOK, LifeCycle, Starting
  <2>3. CleanUnlessClosedMidStart'
    BY <1>1 DEF PluginsStarted, IInv, LifeCycle, Starting, CleanUnlessClosedMidStart
  <2>4. QED
    BY <2>1, <2>2, <2>3 DEF IInv
<1>2. CASE Connected
  <2>1. TypeOK'
    <3>1. adaptiveTimer' \in BOOLEAN /\ ctrlBuffered' \in Nat
      BY <1>2 DEF Connected, IInv, TypeOK, SessionAssumption
    <3>2. QED
      BY <1>2, <3>1 DEF Connected, IInv, TypeOK
  <2>2. GateInv(gate)' /\ AudioBacklogBounded' /\ OneBackoffTimer'
    BY <1>2 DEF Connected, IInv, GateInv, AudioBacklogBounded, OneBackoffTimer
  <2>3. LifeCycle'
    BY <1>2, <2>1 DEF Connected, IInv, TypeOK, LifeCycle, Starting, Idle
  <2>4. CleanUnlessClosedMidStart'
    BY <1>2 DEF Connected, IInv, TypeOK, LifeCycle, Starting, CleanUnlessClosedMidStart
  <2>5. QED
    BY <2>1, <2>2, <2>3, <2>4 DEF IInv
<1>3. CASE StartRejected
  <2>1. TypeOK'
    <3>1. closedMidStart' \in BOOLEAN /\ clientSock' \in {"open", "closing", "closed"}
      BY <1>3 DEF StartRejected, IInv, TypeOK, ClientEnded
    <3>2. QED
      BY <1>3, <3>1 DEF StartRejected, IInv, TypeOK
  <2>2. GateInv(gate)' /\ AudioBacklogBounded'
    BY <1>3 DEF StartRejected, IInv, GateInv, AudioBacklogBounded
  <2>3. pc \in Starting /\ closedMidStart'
    BY <1>3 DEF StartRejected, IInv, TypeOK, LifeCycle, Starting
  <2>4. OneBackoffTimer'
    BY <1>3, <2>3 DEF StartRejected, IInv, TypeOK, LifeCycle, OneBackoffTimer
  <2>5. LifeCycle'
    BY <1>3, <2>3 DEF StartRejected, IInv, TypeOK, LifeCycle, Starting, Idle
  <2>6. CleanUnlessClosedMidStart'
    BY <2>3 DEF CleanUnlessClosedMidStart
  <2>7. QED
    BY <2>1, <2>2, <2>4, <2>5, <2>6 DEF IInv
<1>4. QED
  BY <1>1, <1>2, <1>3 DEF Start

LEMMA MessageKeepsIInv ==
  ASSUME SessionAssumption, IInv, ClientMessage
  PROVE  IInv'
<1> USE DEF lifeVars, timerVars, upVars, clientVars, loopVars
<1>1. Receivable
  BY DEF ClientMessage, ClientAudioDropped, ClientAudio, ClientCommit, ClientControl
<1>2. gate' = Received
  BY DEF ClientMessage, ClientAudioDropped, ClientAudio, ClientCommit, ClientControl
<1>3. GateInv(gate')
  BY <1>1, <1>2, ReceivedGate DEF IInv
<1>4. ~closed /\ pc # "plugins"
  BY <1>1 DEF Receivable, Bound
<1>5. CASE ClientAudioDropped
  BY <1>3, <1>5, QuietStep DEF ClientAudioDropped, IInv, TypeOK, AudioBacklogBounded
<1>6. CASE ClientAudio
  <2>1. chunks' \in Nat
    BY <1>6 DEF ClientAudio, SessionAssumption
  <2>2. QED
    BY <1>3, <1>4, <1>6, <2>1, QuietStep DEF ClientAudio, IInv, TypeOK, AudioBacklogBounded
<1>7. CASE ClientCommit
  <2>1. chunks' \in Nat /\ commitAfter' \in BOOLEAN
    BY <1>7 DEF ClientCommit
  <2>2. QED
    BY <1>3, <1>4, <1>7, <2>1, QuietStep DEF ClientCommit, IInv, TypeOK, AudioBacklogBounded
<1>8. CASE ClientControl
  <2>1. ctrlBuffered' \in Nat
    BY <1>8 DEF ClientControl, IInv, TypeOK, SessionAssumption
  <2>2. QED
    BY <1>3, <1>4, <1>8, <2>1, NothingSentYet, QuietStep
       DEF ClientControl, IInv, TypeOK, AudioBacklogBounded
<1>9. QED
  BY <1>5, <1>6, <1>7, <1>8 DEF ClientMessage

LEMMA ContinueKeepsIInv ==
  ASSUME SessionAssumption, IInv, Continue
  PROVE  IInv'
<1> USE DEF lifeVars, timerVars, upVars, clientVars, loopVars
<1>1. TypeOK /\ GateInv(gate) /\ audioBuffered < MaxBuffered + AppendBytes
  BY DEF IInv, AudioBacklogBounded
<1>2. ProviderBuffered \in Nat
  BY <1>1, BufferedNat
<1>3. ~closed /\ pc # "plugins"
  BY DEF IInv, TypeOK, LifeCycle, Continue, ForwardSilence, ForwardRefused,
         ForwardSpeech, SendCommit, TransformDrain
<1>4. ASSUME chunks > 0
      PROVE  chunks - 1 \in Nat
  BY <1>1, <1>4 DEF TypeOK
<1>5. CASE ForwardSilence
  BY <1>1, <1>3, <1>4, <1>5, QuietStep DEF ForwardSilence, TypeOK
<1>6. CASE ForwardRefused
  <2>1. GateInv(gate')
    BY <1>1, <1>2, <1>6, GateSteps DEF ForwardRefused
  <2>2. QED
    BY <1>1, <1>3, <1>4, <1>6, <2>1, QuietStep DEF ForwardRefused, TypeOK
<1>7. CASE ForwardSpeech
  <2>1. PICK n \in 1..AppendBytes :
          LET dispatched == IF Sendable
                            THEN EvaluateBackpressure(gate, ProviderBuffered + n, 1)
                            ELSE gate
              ok == 1 < TransformHwm
          IN /\ audioBuffered' = IF Sendable THEN audioBuffered + n ELSE audioBuffered
             /\ gate' = IF ok THEN dispatched ELSE PauseClient(dispatched)
             /\ needDrain' = (needDrain \/ ~ok)
    BY <1>7 DEF ForwardSpeech
  <2> DEFINE dispatched == IF Sendable
                           THEN EvaluateBackpressure(gate, ProviderBuffered + n, 1)
                           ELSE gate
  <2>2. n \in Nat /\ n <= AppendBytes /\ AppendBytes \in Nat /\ MaxBuffered \in Nat
    BY DEF SessionAssumption
  <2>3. ProviderBuffered + n \in Nat
    BY <1>2, <2>2
  <2>4. GateInv(dispatched)
    BY <1>1, <2>3, GateSteps
  <2>5. GateInv(gate')
    BY <1>1, <1>2, <2>1, <2>4, GateSteps
  <2>6. Sendable => audioBuffered < MaxBuffered
    BY <1>1, <1>7, <2>2 DEF ForwardSpeech, IsBackpressured, ShouldPause, Sendable,
       ProviderBuffered, TypeOK, GateInv, Gate
  <2>7. audioBuffered' \in Nat /\ audioBuffered' < MaxBuffered + AppendBytes
    BY <1>1, <2>1, <2>2, <2>6 DEF TypeOK
  <2>8. needDrain' \in BOOLEAN
    BY <2>1
  <2>9. pc \in Starting => audioBuffered' = audioBuffered
    BY <2>1, NothingSentYet
  <2>10. QED
    BY <1>1, <1>3, <1>4, <1>7, <2>5, <2>7, <2>8, <2>9, QuietStep DEF ForwardSpeech, TypeOK
<1>8. CASE SendCommit
  <2>1. ctrlBuffered' \in Nat
    BY <1>1, <1>8 DEF SendCommit, TypeOK, SessionAssumption
  <2>2. QED
    BY <1>1, <1>3, <1>8, <2>1, NothingSentYet, QuietStep DEF SendCommit, TypeOK
<1>9. CASE TransformDrain
  <2>1. GateInv(gate')
    BY <1>1, <1>2, <1>9, GateSteps DEF TransformDrain
  <2>2. QED
    BY <1>1, <1>3, <1>9, <2>1, QuietStep DEF TransformDrain, TypeOK
<1>10. QED
  BY <1>5, <1>6, <1>7, <1>8, <1>9 DEF Continue

LEMMA TimerKeepsIInv ==
  ASSUME SessionAssumption, IInv, Timer
  PROVE  IInv'
<1> USE DEF lifeVars, timerVars, upVars, clientVars, loopVars
<1>1. TypeOK /\ GateInv(gate) /\ audioBuffered < MaxBuffered + AppendBytes
  BY DEF IInv, AudioBacklogBounded
<1>2. ProviderBuffered \in Nat
  BY <1>1, BufferedNat
<1>3. CASE MonitorTick
  <2>1. GateInv(gate')
    BY <1>1, <1>2, <1>3, GateSteps DEF MonitorTick
  <2>2. QED
    BY <1>1, <1>3, <2>1, QuietStep DEF MonitorTick, TypeOK
<1>4. CASE AdaptiveTick
  BY <1>1, <1>4, QuietStep DEF AdaptiveTick, TypeOK
<1>5. CASE BackoffFires
  <2>1. GateInv(gate')
    BY <1>1, <1>2, <1>5, GateSteps DEF BackoffFires
  <2>2. timeouts = 1 /\ timeouts' = 0 /\ ~closed /\ pc \notin Starting
    BY <1>5 DEF BackoffFires, IInv, TypeOK, OneBackoffTimer, LifeCycle
  <2>3. TypeOK'
    <3>1. rateLimitAttempts' \in Nat
      BY <1>1, <1>5 DEF BackoffFires, TypeOK
    <3>2. gate' \in Gate
      BY <2>1 DEF GateInv
    <3>3. timeouts' \in Nat
      BY <2>2
    <3>4. rateLimitTimer' \in BOOLEAN
      BY <1>5 DEF BackoffFires
    <3>5. QED
      BY <1>1, <1>5, <3>1, <3>2, <3>3, <3>4 DEF BackoffFires, TypeOK
  <2>4. GateInv(gate)'
    BY <1>5, <2>1 DEF BackoffFires, GateInv
  <2>5. OneBackoffTimer'
    BY <1>5, <2>2 DEF BackoffFires, OneBackoffTimer
  <2>6. LifeCycle'
    BY <1>5, <2>2 DEF BackoffFires, IInv, LifeCycle, Starting
  <2>7. AudioBacklogBounded' /\ CleanUnlessClosedMidStart'
    BY <1>5, <2>2 DEF BackoffFires, IInv, AudioBacklogBounded, CleanUnlessClosedMidStart
  <2>8. QED
    BY <2>3, <2>4, <2>5, <2>6, <2>7 DEF IInv
<1>6. QED
  BY <1>3, <1>4, <1>5 DEF Timer

LEMMA ProviderKeepsIInv ==
  ASSUME SessionAssumption, IInv, Provider
  PROVE  IInv'
<1> USE DEF lifeVars, timerVars, upVars, clientVars, loopVars
<1>1. TypeOK /\ GateInv(gate) /\ audioBuffered < MaxBuffered + AppendBytes
  BY DEF IInv, AudioBacklogBounded
<1>2. ClientEnded \in {"closing", "closed"}
  BY <1>1 DEF ClientEnded, TypeOK
<1>3. ASSUME attached, ~closed
      PROVE  pc = "ready"
  BY <1>3 DEF IInv, LifeCycle
<1>4. CASE RateLimited
  <2>1. GateInv(gate')
    BY <1>1, <1>4, GateSteps DEF RateLimited
  <2>2. timeouts' = 1 /\ ~closed /\ pc = "ready"
    BY <1>3, <1>4 DEF RateLimited, Sendable, IInv, TypeOK, OneBackoffTimer
  <2>3. TypeOK'
    BY <1>1, <1>4, <2>1, <2>2 DEF RateLimited, TypeOK, GateInv
  <2>4. GateInv(gate)'
    BY <1>4, <2>1 DEF RateLimited, GateInv
  <2>5. OneBackoffTimer'
    BY <1>1, <1>4, <2>2 DEF RateLimited, OneBackoffTimer, TypeOK
  <2>6. LifeCycle'
    BY <1>4, <2>2 DEF RateLimited, IInv, LifeCycle, Starting
  <2>7. AudioBacklogBounded' /\ CleanUnlessClosedMidStart'
    BY <1>4, <2>2 DEF RateLimited, IInv, AudioBacklogBounded, CleanUnlessClosedMidStart
  <2>8. QED
    BY <2>3, <2>4, <2>5, <2>6, <2>7 DEF IInv
<1>5. CASE UpstreamFlush
  <2>1. /\ audioBuffered' \in Nat /\ ctrlBuffered' \in Nat
        /\ audioBuffered' <= audioBuffered
    BY <1>1, <1>5 DEF UpstreamFlush, TypeOK
  <2>2. audioBuffered' < MaxBuffered + AppendBytes
    BY <1>1, <2>1 DEF TypeOK, SessionAssumption
  <2>3. QED
    BY <1>1, <1>5, <2>1, <2>2, NothingSentYet, QuietStep DEF UpstreamFlush, TypeOK
<1>6. ASSUME NEW u \in {"closing", "closed"}, upstream' = u, upstream \in {"open", "closing"},
             UNCHANGED <<lifeVars, gate, highWaterMark, timerVars, attached,
                         audioBuffered, ctrlBuffered, clientVars, loopVars>>
      PROVE  IInv'
  <2>1. TypeOK' /\ GateInv(gate)' /\ AudioBacklogBounded' /\ OneBackoffTimer'
    BY <1>6 DEF IInv, TypeOK, GateInv, AudioBacklogBounded, OneBackoffTimer
  <2>2. LifeCycle' /\ CleanUnlessClosedMidStart'
    BY <1>6 DEF IInv, LifeCycle, Starting, CleanUnlessClosedMidStart
  <2>3. QED
    BY <2>1, <2>2 DEF IInv
<1>7. CASE UpstreamClosing
  BY <1>6, <1>7 DEF UpstreamClosing
<1>8. CASE UpstreamClosed
  <2>1. CASE attached /\ ~closed
    BY <1>2, <1>3, <1>8, <2>1, CloseKeepsIInv DEF UpstreamClosed
  <2>2. CASE ~(attached /\ ~closed)
    BY <1>6, <1>8, <2>2 DEF UpstreamClosed
  <2>3. QED
    BY <2>1, <2>2
<1>9. CASE UpstreamError
  BY <1>2, <1>3, <1>9, CloseKeepsIInv DEF UpstreamError
<1>10. QED
  BY <1>4, <1>5, <1>7, <1>8, <1>9 DEF Provider

LEMMA ClientKeepsIInv ==
  ASSUME SessionAssumption, IInv, Client \/ Shutdown
  PROVE  IInv'
<1> USE DEF lifeVars, timerVars, upVars, clientVars, loopVars
<1>1. TypeOK /\ GateInv(gate) /\ audioBuffered < MaxBuffered + AppendBytes
  BY DEF IInv, AudioBacklogBounded
<1>2. ClientEnded \in {"closing", "closed"}
  BY <1>1 DEF ClientEnded, TypeOK
<1>3. ASSUME ~closed
      PROVE  /\ pc # "failed"
             /\ UpstreamEnded \in {"none", "dialing", "closing", "closed"}
             /\ pc = "ready" <=> UpstreamEnded \in {"closing", "closed"}
  <2>1. CASE pc = "ready"
    BY <1>1, <1>3, <2>1 DEF IInv, LifeCycle, UpstreamEnded, Sendable, TypeOK
  <2>2. CASE pc \in Starting
    BY <2>2 DEF IInv, LifeCycle, UpstreamEnded, Sendable, Starting
  <2>3. QED
    BY <1>1, <1>3, <2>1, <2>2 DEF IInv, LifeCycle, TypeOK, Starting
<1>4. ASSUME NEW c \in {"closing", "closed"}, clientSock' = c,
             UNCHANGED <<lifeVars, gate, highWaterMark, timerVars, upVars,
                         peerGone, loopVars>>
      PROVE  IInv'
  <2>1. TypeOK' /\ GateInv(gate)'
    BY <1>4 DEF IInv, TypeOK, GateInv
  <2>2. LifeCycle' /\ OneBackoffTimer'
    BY <1>4 DEF IInv, LifeCycle, Starting, OneBackoffTimer
  <2>3. AudioBacklogBounded' /\ CleanUnlessClosedMidStart'
    BY <1>4 DEF IInv, AudioBacklogBounded, CleanUnlessClosedMidStart
  <2>4. QED
    BY <2>1, <2>2, <2>3 DEF IInv
<1>5. CASE PeerLeaves
  BY <1>1, <1>5, QuietStep DEF PeerLeaves, TypeOK
<1>6. CASE ClientClosing
  BY <1>4, <1>6 DEF ClientClosing
<1>7. CASE ClientClosed
  <2>1. CASE Bound /\ ~closed
    BY <1>3, <1>7, <2>1, CloseKeepsIInv DEF ClientClosed
  <2>2. CASE ~(Bound /\ ~closed)
    BY <1>4, <1>7, <2>2 DEF ClientClosed
  <2>3. QED
    BY <2>1, <2>2
<1>8. CASE ClientError
  BY <1>3, <1>8, CloseKeepsIInv DEF ClientError
<1>9. CASE Shutdown
  BY <1>2, <1>3, <1>9, CloseKeepsIInv DEF Shutdown
<1>10. QED
  BY <1>5, <1>6, <1>7, <1>8, <1>9 DEF Client

-----------------------------------------------------------------------------
(* Theorems *)

\* The strengthened invariant holds of every reachable state.
THEOREM Invariance == Spec => []IInv
<1>1. Init => IInv
  BY SessionAssumption, InitIInv
<1>2. IInv /\ [Next]_vars => IInv'
  <2> SUFFICES ASSUME IInv, [Next]_vars PROVE IInv'
    OBVIOUS
  <2>1. CASE Next
    BY <2>1, SessionAssumption, StartKeepsIInv, MessageKeepsIInv, ContinueKeepsIInv, TimerKeepsIInv,
       ProviderKeepsIInv, ClientKeepsIInv DEF Next
  <2>2. CASE UNCHANGED vars
    BY <2>2 DEF vars, lifeVars, timerVars, upVars, clientVars, loopVars, IInv, TypeOK,
       GateInv, LifeCycle, Starting, OneBackoffTimer, AudioBacklogBounded,
       CleanUnlessClosedMidStart
  <2>3. QED
    BY <2>1, <2>2
<1>3. QED
  BY <1>1, <1>2, PTL DEF Spec

\* The variables keep their types, through every composition of pause, resume
\* and evaluate the callbacks make.
THEOREM TypeCorrect == Spec => []TypeOK
<1>1. IInv => TypeOK
  BY DEF IInv
<1>2. QED
  BY <1>1, Invariance, PTL

\* The two flags, the client's socket and its last notice agree.
THEOREM ViewsAgree == Spec => []PauseViewsAgree
<1>1. IInv => PauseViewsAgree
  BY DEF IInv, GateInv, PauseViewsAgree
<1>2. QED
  BY <1>1, Invariance, PTL

\* The frozen count cannot by itself keep a client paused.
THEOREM ReliefStaysPossible == Spec => []ReliefPossible
<1>1. IInv => ReliefPossible
  BY DEF IInv, GateInv, ReliefPossible
<1>2. QED
  BY <1>1, Invariance, PTL

\* Audio waiting for the provider is bounded by the configuration, for every
\* frame size, burst and behaviour of the adaptive loop.
THEOREM BacklogBounded == Spec => []AudioBacklogBounded
<1>1. IInv => AudioBacklogBounded
  BY DEF IInv
<1>2. QED
  BY <1>1, Invariance, PTL

\* There is one backoff timer, and none in a closed session.
THEOREM SingleBackoff == Spec => []OneBackoffTimer
<1>1. IInv => OneBackoffTimer
  BY DEF IInv
<1>2. QED
  BY <1>1, Invariance, PTL

\* What a session holds at each point of start() and close().
THEOREM LifeCycleHolds == Spec => []LifeCycle
<1>1. IInv => LifeCycle
  BY DEF IInv
<1>2. QED
  BY <1>1, Invariance, PTL

\* A session that start() had finished leaves nothing behind when it closes.
THEOREM CleanClose == Spec => []CleanUnlessClosedMidStart
<1>1. IInv => CleanUnlessClosedMidStart
  BY DEF IInv
<1>2. QED
  BY <1>1, Invariance, PTL

-----------------------------------------------------------------------------
(* After close() *)

\* A closed session forwards nothing, its gate rests and no backoff acts.
THEOREM CloseIsFinal == Spec => NothingAfterClose
<1> DEFINE Final == /\ closed'
                    /\ gate' = gate
                    /\ audioBuffered' <= audioBuffered
                    /\ rateLimitAttempts' = rateLimitAttempts
                    /\ timeouts' = 0
                    /\ clientSock # "open" => clientSock' # "open"
<1>1. ASSUME IInv, closed, [Next]_vars
      PROVE  Final
  <2> USE DEF lifeVars, timerVars, upVars, clientVars, loopVars
  <2>1. /\ timeouts = 0 /\ chunks = 0 /\ ~commitAfter /\ ~needDrain
        /\ audioBuffered \in Nat
    BY <1>1 DEF IInv, LifeCycle, TypeOK
  <2>2. audioBuffered <= audioBuffered
    BY <2>1
  <2>3. CASE Start
    BY <1>1, <2>1, <2>2, <2>3 DEF Start, PluginsStarted, Connected, StartRejected, ClientEnded
  <2>4. CASE ClientMessage
    BY <1>1, <2>4 DEF ClientMessage, ClientAudioDropped, ClientAudio, ClientCommit,
       ClientControl, Receivable
  <2>5. CASE Continue
    BY <2>1, <2>5 DEF Continue, ForwardSilence, ForwardRefused, ForwardSpeech,
       SendCommit, TransformDrain
  <2>6. CASE Timer
    <3>1. ~BackoffFires
      BY <2>1 DEF BackoffFires
    <3>2. QED
      BY <1>1, <2>1, <2>2, <2>6, <3>1 DEF Timer, MonitorTick, AdaptiveTick,
         EvaluateBackpressure
  <2>7. CASE Provider
    <3>1. CASE UpstreamFlush
      <4>1. audioBuffered' <= audioBuffered
        BY <2>1, <3>1 DEF UpstreamFlush
      <4>2. QED
        BY <1>1, <2>1, <3>1, <4>1 DEF UpstreamFlush
    <3>2. CASE UpstreamClosing \/ UpstreamClosed
      BY <1>1, <2>1, <2>2, <3>2 DEF UpstreamClosing, UpstreamClosed
    <3>3. QED
      BY <1>1, <2>7, <3>1, <3>2 DEF Provider, RateLimited, UpstreamError
  <2>8. CASE Client \/ Shutdown
    BY <1>1, <2>1, <2>2, <2>8 DEF Client, PeerLeaves, ClientClosing, ClientClosed,
       ClientError, Shutdown
  <2>9. CASE UNCHANGED vars
    BY <1>1, <2>1, <2>2, <2>9 DEF vars
  <2>10. QED
    BY <1>1, <2>3, <2>4, <2>5, <2>6, <2>7, <2>8, <2>9 DEF Next
<1>2. IInv /\ [Next]_vars => [closed => Final]_vars
  BY <1>1
<1>3. QED
  BY <1>2, Invariance, PTL DEF Spec, NothingAfterClose

-----------------------------------------------------------------------------
(* GatewaySession implements BackpressureContract *)

\* What the gate's operations do to the client's flow.
LEMMA GateFlow ==
  ASSUME TypeOK, NEW g \in Gate, NEW up \in Nat, NEW depth \in Nat, ~closed
  PROVE  /\ PauseClient(g).clientPaused
         /\ IsBackpressured(g, up, depth) =>
               /\ ResumeClient(g, up, depth) = g
               /\ EvaluateBackpressure(g, up, depth).clientPaused
         /\ ~IsBackpressured(g, up, depth) =>
               /\ ~ResumeClient(g, up, depth).clientPaused
               /\ ~EvaluateBackpressure(g, up, depth).clientPaused
               /\ up < highWaterMark /\ up < MaxBuffered
<1>1. PauseClient(g).clientPaused
  BY DEF PauseClient, Gate
<1>2. ~IsBackpressured(g, up, depth) => ~ResumeClient(g, up, depth).clientPaused
  BY DEF ResumeClient, Gate
<1>3. ~IsBackpressured(g, up, depth) => up < highWaterMark /\ up < MaxBuffered
  BY SessionAssumption DEF SessionAssumption, TypeOK, Gate, IsBackpressured, ShouldPause
<1>4. IsBackpressured(g, up, depth) => ResumeClient(g, up, depth) = g
  BY DEF ResumeClient
<1>5. QED
  BY <1>1, <1>2, <1>3, <1>4 DEF EvaluateBackpressure

LEMMA BacklogCounted == TypeOK /\ attached => audioBuffered <= ProviderBuffered
  BY DEF TypeOK, ProviderBuffered

\* Steps that leave the backlog, the mark and the session's life alone.
LEMMA FlowRefines ==
  ASSUME IInv, UNCHANGED <<closed, audioBuffered, highWaterMark>>,
         \/ closed
         \/ gate'.clientPaused = gate.clientPaused
         \/ gate'.clientPaused
         \/ /\ ~gate'.clientPaused
            /\ audioBuffered < highWaterMark /\ audioBuffered < MaxBuffered
  PROVE  [Contract!Next]_(Contract!vars)
  BY DEF IInv, TypeOK, Gate, Contract!Next, Contract!vars, Contract!Pause,
     Contract!Resume, Contract!Room

\* Steps that close the session.
LEMMA CloseRefines ==
  ASSUME IInv, closed', UNCHANGED <<audioBuffered, highWaterMark>>
  PROVE  [Contract!Next]_(Contract!vars)
  BY DEF IInv, TypeOK, Contract!Next, Contract!vars, Contract!End

\* The session implements the contract: every step is a step of it, or none.
THEOREM Refinement == Spec => ImplementsContract
<1> USE DEF lifeVars, timerVars, upVars, clientVars, loopVars
<1>1. Init => Contract!Init
  BY DEF Init, Contract!Init
<1>2. ASSUME IInv, [Next]_vars
      PROVE  [Contract!Next]_(Contract!vars)
  <2>1. /\ TypeOK /\ gate \in Gate /\ highWaterMark \in Nat \ {0}
        /\ MaxBuffered \in Nat \ {0} /\ AppendBytes \in Nat \ {0}
        /\ ProviderBuffered \in Nat
    BY <1>2, SessionAssumption, BufferedNat DEF IInv, TypeOK, GateInv, SessionAssumption
  <2>2. audioBuffered <= ProviderBuffered \/ closed \/ audioBuffered = 0
    BY <1>2, <2>1, BacklogCounted DEF IInv, LifeCycle, TypeOK, Starting
  <2>3. CASE Start
    BY <1>2, <2>3, FlowRefines, CloseRefines
       DEF Start, PluginsStarted, Connected, StartRejected
  <2>4. CASE ClientMessage
    <3>1. gate'.clientPaused = gate.clientPaused
      BY <2>1, <2>4 DEF ClientMessage, ClientAudioDropped, ClientAudio, ClientCommit,
         ClientControl, Received, Gate
    <3>2. QED
      BY <1>2, <2>4, <3>1, FlowRefines DEF ClientMessage, ClientAudioDropped,
         ClientAudio, ClientCommit, ClientControl
  <2>5. CASE Continue
    <3>1. ~closed
      BY <1>2, <2>5 DEF IInv, TypeOK, LifeCycle, Continue, ForwardSilence,
         ForwardRefused, ForwardSpeech, SendCommit, TransformDrain
    <3>2. CASE ForwardSilence \/ SendCommit
      BY <1>2, <3>2, FlowRefines DEF ForwardSilence, SendCommit
    <3>3. CASE ForwardRefused
      BY <1>2, <2>1, <3>1, <3>3, GateFlow, FlowRefines DEF ForwardRefused
    <3>4. CASE ForwardSpeech
      <4>1. PICK n \in 1..AppendBytes :
              LET dispatched == IF Sendable
                                THEN EvaluateBackpressure(gate, ProviderBuffered + n, 1)
                                ELSE gate
                  ok == 1 < TransformHwm
              IN /\ audioBuffered' = IF Sendable THEN audioBuffered + n ELSE audioBuffered
                 /\ gate' = IF ok THEN dispatched ELSE PauseClient(dispatched)
                 /\ needDrain' = (needDrain \/ ~ok)
        BY <3>4 DEF ForwardSpeech
      <4> DEFINE dispatched == IF Sendable
                               THEN EvaluateBackpressure(gate, ProviderBuffered + n, 1)
                               ELSE gate
      <4>2. n \in Nat /\ n >= 1 /\ ProviderBuffered + n \in Nat
        BY <2>1
      <4>3. GateInv(dispatched)
        BY <1>2, <2>1, <4>2, SessionAssumption, GateSteps DEF IInv
      <4>4. gate' = dispatched \/ gate'.clientPaused
        BY <2>1, <3>1, <4>1, <4>3, GateFlow DEF GateInv
      <4>5. CASE ~Sendable
        BY <1>2, <3>4, <4>1, <4>4, <4>5, FlowRefines DEF ForwardSpeech
      <4>6. CASE Sendable
        <5>1. audioBuffered' = audioBuffered + n /\ closed' = closed
              /\ highWaterMark' = highWaterMark
          BY <3>4, <4>1, <4>6 DEF ForwardSpeech
        <5>2. audioBuffered <= ProviderBuffered /\ audioBuffered \in Nat
          BY <2>1, <4>6, BacklogCounted DEF Sendable, TypeOK
        <5>3. audioBuffered < highWaterMark /\ audioBuffered < MaxBuffered
          BY <2>1, <3>1, <3>4, <5>2, GateFlow DEF ForwardSpeech
        <5>4. audioBuffered + n >= highWaterMark => dispatched.clientPaused
          <6>1. audioBuffered + n <= ProviderBuffered + n
            BY <2>1, <4>2, <5>2
          <6>2. CASE IsBackpressured(gate, ProviderBuffered + n, 1)
            BY <2>1, <3>1, <4>2, <4>6, <6>2, GateFlow
          <6>3. CASE ~IsBackpressured(gate, ProviderBuffered + n, 1)
            <7>1. ProviderBuffered + n < highWaterMark
              BY <2>1, <3>1, <4>2, <6>3, GateFlow
            <7>2. QED
              BY <2>1, <4>2, <5>2, <6>1, <7>1
          <6>4. QED
            BY <6>2, <6>3
        <5>5. audioBuffered' >= highWaterMark => gate'.clientPaused
          BY <4>4, <5>1, <5>4
        <5>6. Contract!Accept
          BY <3>1, <4>2, <5>1, <5>3, <5>5 DEF Contract!Accept, Contract!Room
        <5>7. QED
          BY <5>6 DEF Contract!Next
      <4>7. QED
        BY <4>5, <4>6
    <3>5. CASE TransformDrain
      <4>1. \/ gate'.clientPaused
            \/ /\ ~gate'.clientPaused
               /\ ProviderBuffered < highWaterMark /\ ProviderBuffered < MaxBuffered
        BY <2>1, <3>1, <3>5, GateFlow DEF TransformDrain
      <4>2. \/ gate'.clientPaused
            \/ audioBuffered < highWaterMark /\ audioBuffered < MaxBuffered
        BY <2>1, <2>2, <3>1, <4>1 DEF TypeOK
      <4>3. QED
        BY <1>2, <3>5, <4>1, <4>2, FlowRefines DEF TransformDrain
    <3>6. QED
      BY <2>5, <3>2, <3>3, <3>4, <3>5 DEF Continue
  <2>6. CASE Timer
    <3>1. CASE MonitorTick \/ BackoffFires
      <4>1. CASE closed
        BY <1>2, <3>1, <4>1, FlowRefines DEF MonitorTick, BackoffFires
      <4>2. CASE ~closed
        <5>1. \/ gate' = gate
              \/ gate'.clientPaused
              \/ /\ ~gate'.clientPaused
                 /\ ProviderBuffered < highWaterMark /\ ProviderBuffered < MaxBuffered
          BY <2>1, <3>1, <4>2, GateFlow DEF MonitorTick, BackoffFires
        <5>2. \/ gate' = gate
              \/ gate'.clientPaused
              \/ audioBuffered < highWaterMark /\ audioBuffered < MaxBuffered
          BY <2>1, <2>2, <4>2, <5>1 DEF TypeOK
        <5>3. QED
          BY <1>2, <3>1, <5>1, <5>2, FlowRefines DEF MonitorTick, BackoffFires
      <4>3. QED
        BY <4>1, <4>2
    <3>2. CASE AdaptiveTick
      <4>1. Contract!Adapt
        BY <3>2 DEF AdaptiveTick, Contract!Adapt
      <4>2. QED
        BY <4>1 DEF Contract!Next
    <3>3. QED
      BY <2>6, <3>1, <3>2 DEF Timer
  <2>7. CASE Provider
    <3>1. CASE RateLimited
      BY <1>2, <2>1, <3>1, GateFlow, FlowRefines DEF RateLimited
    <3>2. CASE UpstreamFlush
      <4>1. CASE audioBuffered' = audioBuffered
        BY <1>2, <3>2, <4>1, FlowRefines DEF UpstreamFlush
      <4>2. CASE audioBuffered' # audioBuffered
        <5>1. audioBuffered' \in Nat /\ audioBuffered' < audioBuffered
          BY <2>1, <3>2, <4>2 DEF UpstreamFlush, TypeOK
        <5>2. Contract!Drain
          BY <2>1, <3>2, <5>1 DEF UpstreamFlush, TypeOK, Contract!Drain
        <5>3. QED
          BY <5>2 DEF Contract!Next
      <4>3. QED
        BY <4>1, <4>2
    <3>3. CASE UpstreamClosing
      BY <1>2, <3>3, FlowRefines DEF UpstreamClosing
    <3>4. CASE UpstreamClosed \/ UpstreamError
      BY <1>2, <3>4, FlowRefines, CloseRefines DEF UpstreamClosed, UpstreamError, CloseSession
    <3>5. QED
      BY <2>7, <3>1, <3>2, <3>3, <3>4 DEF Provider
  <2>8. CASE Client \/ Shutdown
    BY <1>2, <2>8, FlowRefines, CloseRefines DEF Client, PeerLeaves, ClientClosing,
       ClientClosed, ClientError, Shutdown, CloseSession
  <2>9. CASE UNCHANGED vars
    BY <1>2, <2>9, FlowRefines DEF vars
  <2>10. QED
    BY <1>2, <2>3, <2>4, <2>5, <2>6, <2>7, <2>8, <2>9 DEF Next
<1>3. QED
  BY <1>1, <1>2, Invariance, PTL DEF Spec, ImplementsContract, Contract!Spec

-----------------------------------------------------------------------------
(* A session lives as SessionLife says *)

\* What leaves start(), `closed' and the client's socket alone is a stutter.
LEMMA LifeStutters ==
  ASSUME UNCHANGED <<pc, closed, clientSock>>
  PROVE  [Life!Next]_(Life!vars)
  BY DEF Life!vars

\* close() ends session and socket in one step.
LEMMA LifeCloses ==
  ASSUME TypeOK, ~closed, NEW u, CloseSession(u, ClientEnded)
  PROVE  [Life!Next]_(Life!vars)
<1>1. Life!Close
  BY DEF TypeOK, CloseSession, ClientEnded, Life!Close, Life!Ended
<1> QED
  BY <1>1 DEF Life!Next

\* Every behaviour of a session is one of SessionLife, whatever its plugins,
\* its provider, its timers and its client do (gateway.ts 122-176, 240-255,
\* 619-631, server.ts 173-187).
THEOREM LifeRefinement == Spec => ImplementsLife
<1> USE DEF lifeVars, timerVars, upVars, clientVars, loopVars
<1>1. Init => Life!Init
  BY DEF Init, Life!Init
<1>2. ASSUME IInv, [Next]_vars
      PROVE  [Life!Next]_(Life!vars)
  <2>1. TypeOK
    BY <1>2 DEF IInv
  <2>2. CASE PluginsStarted \/ Connected
    <3>1. Life!Advance
      BY <2>2 DEF PluginsStarted, Connected, Life!Advance
    <3> QED
      BY <3>1 DEF Life!Next
  <2>3. CASE StartRejected
    <3>1. Life!Reject
      BY <2>3 DEF StartRejected, ClientEnded, Life!Reject, Life!Ended
    <3> QED
      BY <3>1 DEF Life!Next
  <2>4. CASE ClientMessage \/ Continue \/ Timer
    BY <2>4, LifeStutters DEF ClientMessage, ClientAudioDropped, ClientAudio,
       ClientCommit, ClientControl, Continue, ForwardSilence, ForwardRefused,
       ForwardSpeech, SendCommit, TransformDrain, Timer, MonitorTick, AdaptiveTick,
       BackoffFires
  <2>5. CASE RateLimited \/ UpstreamFlush \/ UpstreamClosing \/ PeerLeaves
    BY <2>5, LifeStutters DEF RateLimited, UpstreamFlush, UpstreamClosing, PeerLeaves
  <2>6. CASE UpstreamClosed \/ UpstreamError \/ Shutdown
    BY <2>1, <2>6, LifeCloses, LifeStutters DEF UpstreamClosed, UpstreamError, Shutdown
  <2>7. CASE ClientClosing
    <3>1. Life!PeerCloses
      BY <2>7 DEF ClientClosing, Life!PeerCloses
    <3> QED
      BY <3>1 DEF Life!Next
  <2>8. CASE ClientClosed
    <3>1. Life!SocketCloses
      BY <2>1, <2>8 DEF TypeOK, ClientClosed, Bound, CloseSession, Life!SocketCloses
    <3> QED
      BY <3>1 DEF Life!Next
  <2>9. CASE ClientError
    <3>1. Life!Close
      BY <2>1, <2>9 DEF TypeOK, ClientError, CloseSession, Life!Close, Life!Ended
    <3> QED
      BY <3>1 DEF Life!Next
  <2>10. CASE UNCHANGED vars
    BY <2>10, LifeStutters DEF vars
  <2> QED
    BY <1>2, <2>2, <2>3, <2>4, <2>5, <2>6, <2>7, <2>8, <2>9, <2>10
       DEF Next, Start, Provider, Client
<1> QED
  BY <1>1, <1>2, Invariance, PTL DEF Spec, ImplementsLife, Life!Spec

-----------------------------------------------------------------------------
(* What PausedResumes rests on, short of fairness *)

\* The monitor runs as long as an established session lives.  Before that there
\* is no connection that could be full: only the transform can pause, and its
\* 'drain' is then to come.
Watched ==
    /\ pc = "ready" /\ ~closed => pressureTimer
    /\ pc \in Starting /\ ~closed /\ gate.clientPaused => needDrain

\* With nothing waiting at the provider the gate finds no pressure, whatever
\* count the last resume froze.
LEMMA EmptyIsRoom ==
  ASSUME IInv, ~closed, ProviderBuffered = 0
  PROVE  /\ ~IsBackpressured(gate, ProviderBuffered, 0)
         /\ ~EvaluateBackpressure(gate, ProviderBuffered, 0).clientPaused
         /\ ~ResumeClient(gate, ProviderBuffered, 0).clientPaused
<1>1. /\ highWaterMark \in Nat \ {0} /\ MaxBuffered \in Nat /\ TransformHwm \in Nat \ {0}
      /\ gate.bufferedBytes \in Nat /\ gate.bufferedBytes < MaxBuffered
  BY SessionAssumption DEF SessionAssumption, IInv, TypeOK, GateInv, Gate
<1>2. ~IsBackpressured(gate, ProviderBuffered, 0)
  BY <1>1 DEF IsBackpressured, ShouldPause
<1> QED
  BY <1>2, GateFlow DEF IInv, TypeOK

LEMMA WatchedKept == IInv /\ Watched /\ [Next]_vars => Watched'
<1> SUFFICES ASSUME IInv, Watched, [Next]_vars PROVE Watched'
  OBVIOUS
<1> USE DEF lifeVars, timerVars, upVars, clientVars, loopVars
<1>1. ASSUME pc \in Starting, ~closed
      PROVE  /\ ProviderBuffered = 0 /\ ~Sendable /\ ~pressureTimer /\ timeouts = 0
             /\ ~IsBackpressured(gate, ProviderBuffered, 0)
  <2>1. ProviderBuffered = 0
    BY <1>1 DEF IInv, LifeCycle, ProviderBuffered
  <2> QED
    BY <1>1, <2>1, EmptyIsRoom DEF IInv, LifeCycle, Sendable
<1>2. CASE Start
  <2>1. CASE PluginsStarted
    BY <2>1 DEF PluginsStarted, Watched, Starting
  <2>2. CASE Connected
    BY <2>2 DEF Connected, Watched, Starting
  <2>3. CASE StartRejected
    BY <2>3 DEF StartRejected, Watched, Starting
  <2> QED
    BY <1>2, <2>1, <2>2, <2>3 DEF Start
<1>3. CASE ClientMessage
  <2>1. gate'.clientPaused = gate.clientPaused /\ ~needDrain
    BY <1>3 DEF ClientMessage, ClientAudioDropped, ClientAudio, ClientCommit, ClientControl,
       Receivable, Received, Idle, IInv, TypeOK, Gate
  <2>2. UNCHANGED <<pc, closed, pressureTimer>>
    BY <1>3 DEF ClientMessage, ClientAudioDropped, ClientAudio, ClientCommit, ClientControl
  <2> QED
    BY <2>1, <2>2 DEF Watched, Starting
<1>4. CASE Continue
  <2>1. UNCHANGED <<pc, closed, pressureTimer>>
    BY <1>4 DEF Continue, ForwardSilence, ForwardRefused, ForwardSpeech, SendCommit,
       TransformDrain
  <2>2. ASSUME pc \in Starting, ~closed, gate'.clientPaused
        PROVE  needDrain'
    <3>1. ~ForwardRefused
      BY <1>1, <2>2 DEF ForwardRefused
    <3>2. ~TransformDrain
      <4>1. ~EvaluateBackpressure(gate, ProviderBuffered, 0).clientPaused
        BY <1>1, <2>2, EmptyIsRoom
      <4> QED
        BY <2>2, <4>1 DEF TransformDrain
    <3>3. CASE ForwardSilence \/ SendCommit
      BY <2>2, <3>3 DEF Watched, ForwardSilence, SendCommit
    <3>4. CASE ForwardSpeech
      BY <1>1, <2>2, <3>4 DEF Watched, ForwardSpeech
    <3> QED
      BY <1>4, <3>1, <3>2, <3>3, <3>4 DEF Continue
  <2> QED
    BY <2>1, <2>2 DEF Watched
<1>5. CASE Timer
  <2>1. UNCHANGED <<pc, closed, pressureTimer>>
    BY <1>5 DEF Timer, MonitorTick, AdaptiveTick, BackoffFires
  <2>2. CASE pc \in Starting /\ ~closed
    <3>1. AdaptiveTick
      BY <1>1, <1>5, <2>2 DEF Timer, MonitorTick, BackoffFires
    <3> QED
      BY <2>1, <3>1 DEF AdaptiveTick, Watched
  <2> QED
    BY <2>1, <2>2 DEF Watched
<1>6. CASE Provider
  <2>1. CASE closed'
    BY <2>1 DEF Watched
  <2>2. CASE RateLimited
    BY <1>1, <2>2 DEF RateLimited, Watched
  <2>3. ASSUME UNCHANGED <<pc, closed, pressureTimer, gate, needDrain>> PROVE Watched'
    BY <2>3 DEF Watched
  <2> QED
    BY <1>6, <2>1, <2>2, <2>3 DEF Provider, UpstreamFlush, UpstreamClosing, UpstreamClosed,
       UpstreamError, CloseSession
<1>7. CASE Client \/ Shutdown
  <2>1. CASE closed'
    BY <2>1 DEF Watched
  <2>2. ASSUME UNCHANGED <<pc, closed, pressureTimer, gate, needDrain>> PROVE Watched'
    BY <2>2 DEF Watched
  <2> QED
    BY <1>7, <2>1, <2>2 DEF Client, PeerLeaves, ClientClosing, ClientClosed, ClientError,
       Shutdown, CloseSession
<1>8. CASE UNCHANGED vars
  BY <1>8 DEF vars, Watched
<1> QED
  BY <1>2, <1>3, <1>4, <1>5, <1>6, <1>7, <1>8 DEF Next

\* A client of a living session is never paused with nobody left to resume it:
\* the monitor is armed, or the transform's 'drain' is to come
\* (gateway.ts 182-184, 191-198, 351-369).
THEOREM PauseIsWatched ==
    Spec => [](gate.clientPaused /\ ~closed => pressureTimer \/ needDrain)
<1>1. Init => Watched
  BY DEF Init, Watched, Starting
<1>2. IInv /\ Watched => (gate.clientPaused /\ ~closed => pressureTimer \/ needDrain)
  BY DEF IInv, TypeOK, LifeCycle, Watched, Starting
<1> QED
  BY <1>1, <1>2, WatchedKept, Invariance, PTL DEF Spec

\* Once the provider has taken what was waiting, whoever looks next resumes the
\* client: the monitor, the backoff timer or the transform's 'drain', at any
\* mark and after any count that a resume froze (gateway.ts 479-499, 505-525,
\* 563-589, backpressure.ts 14-25).
THEOREM EmptyProviderResumes ==
    Spec => [][ (MonitorTick \/ BackoffFires \/ TransformDrain)
                  /\ ProviderBuffered = 0 /\ ~closed
                    => ~gate'.clientPaused ]_vars
<1> DEFINE Look == (MonitorTick \/ BackoffFires \/ TransformDrain)
                     /\ ProviderBuffered = 0 /\ ~closed
<1>1. IInv /\ Look => ~gate'.clientPaused
  BY EmptyIsRoom DEF MonitorTick, BackoffFires, TransformDrain
<1>2. IInv /\ [Next]_vars => [Look => ~gate'.clientPaused]_vars
  BY <1>1
<1> QED
  BY <1>2, Invariance, PTL DEF Spec

=============================================================================
