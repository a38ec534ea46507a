--------------------------- MODULE GatewaySession ---------------------------
(***************************************************************************)
(* One GatewaySession (src/gateway.ts): the bridge between a client        *)
(* WebSocket and a provider connection, with its backpressure gate, its    *)
(* rate-limit backoff and its start / close life cycle.                    *)
(*                                                                         *)
(* Every action is one callback of the Node event loop, which runs to      *)
(* completion.  The exceptions are a client message that yields several    *)
(* audio chunks: its chunks are handled one step at a time, and `chunks',  *)
(* `commitAfter' and `needDrain' keep every other callback out (Idle)      *)
(* until the loop and the 'drain' tick it schedules are over.              *)
(*                                                                         *)
(* Payloads are byte counts.  A chunk's VAD verdict is left open, and so   *)
(* is the number of chunks a message completes.                            *)
(***************************************************************************)
EXTENDS Integers

CONSTANTS
    HighWaterMark,  \* config.HIGH_WATER_MARK
    MaxBuffered,    \* config.MAX_BUFFERED_BYTES
    TransformHwm,   \* outbound.writableHighWaterMark, in frames
    AdaptiveMarks,  \* marks the adaptive loop may choose; {}: loop disabled
    AppendBytes,    \* the most one frame adds to connection.bufferedAmount()
    ControlBytes,   \* what one control event adds to it
    Residual,       \* messages ws may still deliver after client.pause()
    AsyncPlugins,   \* some plugin's onSessionStart really suspends
    MaxBurst,       \* bound: chunks one client message completes
    ControlCap,     \* bound: control bytes outstanding
    MaxAttempts     \* bound: rateLimitAttempts

ASSUME SessionAssumption ==
    /\ HighWaterMark \in Nat \ {0} /\ MaxBuffered \in Nat \ {0}
    /\ HighWaterMark <= MaxBuffered
    /\ TransformHwm \in Nat \ {0}
    /\ AdaptiveMarks \subseteq Nat \ {0}
    /\ AppendBytes \in Nat \ {0} /\ ControlBytes \in Nat
    /\ Residual \in Nat
    /\ AsyncPlugins \in BOOLEAN
    /\ MaxBurst \in Nat /\ ControlCap \in Nat /\ MaxAttempts \in Nat

VARIABLES
    pc,                 \* where start() is: see Starting below
    closed,             \* this.closed
    gate,               \* the backpressure state: see Gate below
    highWaterMark,      \* this.highWaterMark
    rateLimitAttempts,  \* this.rateLimitAttempts
    rateLimitTimer,     \* this.rateLimitTimer is not null
    timeouts,           \* backoff timeouts the event loop will still fire
    pressureTimer,      \* the 25 ms interval is live
    adaptiveTimer,      \* the 1 s interval is live
    attached,           \* this.connection is not null
    upstream,           \* the provider socket
    audioBuffered,      \* its part of bufferedAmount() that is audio
    ctrlBuffered,       \* its part of bufferedAmount() that is control
    clientSock,         \* client.readyState, OPEN or later
    peerGone,           \* the client's end of stream waits to be read
    chunks,             \* chunks the running handler has still to forward
    commitAfter,        \* ... and then a commit to send
    needDrain,          \* outbound will emit 'drain' on the next tick
    closedMidStart      \* history: close() ran before start() returned

lifeVars == <<pc, closed, closedMidStart>>
timerVars == <<rateLimitAttempts, rateLimitTimer, timeouts, pressureTimer,
               adaptiveTimer>>
upVars == <<attached, upstream, audioBuffered, ctrlBuffered>>
clientVars == <<clientSock, peerGone>>
loopVars == <<chunks, commitAfter, needDrain>>
vars == <<lifeVars, gate, highWaterMark, timerVars, upVars, clientVars, loopVars>>

Starting == {"plugins", "connecting"}     \* the two awaits of start()

Gate == [clientPaused  : BOOLEAN,         \* this.clientPaused
         circuitOpen   : BOOLEAN,         \* this.circuitOpen
         bufferedBytes : Nat,             \* this.bufferedBytes
         sockPaused    : BOOLEAN,         \* client socket reading is stopped
         told          : {"paused", "flowing"},  \* last event the client got
         late          : Nat]             \* messages ws read before the pause

Init ==
    /\ pc = "plugins"
    /\ closed = FALSE /\ closedMidStart = FALSE
    /\ gate = [clientPaused |-> FALSE, circuitOpen |-> FALSE,
               bufferedBytes |-> 0, sockPaused |-> FALSE,
               told |-> "flowing", late |-> 0]
    /\ highWaterMark = HighWaterMark
    /\ rateLimitAttempts = 0 /\ rateLimitTimer = FALSE /\ timeouts = 0
    /\ pressureTimer = FALSE /\ adaptiveTimer = FALSE
    /\ attached = FALSE /\ upstream = "none"
    /\ audioBuffered = 0 /\ ctrlBuffered = 0
    /\ clientSock = "open" /\ peerGone = FALSE
    /\ chunks = 0 /\ commitAfter = FALSE /\ needDrain = FALSE

-----------------------------------------------------------------------------
(* Helpers *)

\* bindClientHandlers() has run: it follows startAll() in the same turn.
Bound == pc # "plugins"

\* Another callback may run.  Without a plugin that suspends, startAll()
\* costs microtasks only, and nothing runs before the handlers are bound.
Idle ==
    /\ chunks = 0 /\ ~commitAfter /\ ~needDrain
    /\ AsyncPlugins \/ Bound

\* connection.bufferedAmount() of a connection, when there is one.
ProviderBuffered == IF attached THEN audioBuffered + ctrlBuffered ELSE 0

Sendable == attached /\ upstream = "open"

ShouldPause(up, pending, depth) ==
    \/ up >= highWaterMark
    \/ pending + up >= MaxBuffered
    \/ depth >= TransformHwm

IsBackpressured(g, up, depth) == ShouldPause(up, g.bufferedBytes, depth)

PauseClient(g) ==
    IF closed THEN g
    ELSE IF g.clientPaused THEN [g EXCEPT !.circuitOpen = TRUE]
    ELSE [g EXCEPT
            !.circuitOpen = TRUE,
            !.clientPaused = TRUE,
            !.sockPaused = (clientSock # "closed") \/ @,
            !.told = IF clientSock = "open" THEN "paused" ELSE @,
            !.late = Residual]

\* Mutant: the circuit is opened before the marks are looked at.
ResumeOpensCircuit(g, up, depth) ==
    IF closed THEN g
    ELSE IF IsBackpressured(g, up, depth) \/ ~g.clientPaused
    THEN [g EXCEPT !.circuitOpen = FALSE]
    ELSE [g EXCEPT !.circuitOpen = FALSE, !.clientPaused = FALSE,
                   !.bufferedBytes = up, !.sockPaused = FALSE,
                   !.told = IF clientSock = "open" THEN "flowing" ELSE @,
                   !.late = 0]

\* Mutant: the marks are not looked at.
ResumeUnchecked(g, up, depth) ==
    IF closed \/ ~g.clientPaused THEN g
    ELSE [g EXCEPT !.circuitOpen = FALSE, !.clientPaused = FALSE,
                   !.bufferedBytes = up, !.sockPaused = FALSE,
                   !.told = IF clientSock = "open" THEN "flowing" ELSE @,
                   !.late = 0]

\* Mutant: client.resume() is forgotten.
ResumeKeepsSocket(g, up, depth) ==
    IF closed \/ IsBackpressured(g, up, depth) \/ ~g.clientPaused THEN g
    ELSE [g EXCEPT !.circuitOpen = FALSE, !.clientPaused = FALSE,
                   !.bufferedBytes = up,
                   !.told = IF clientSock = "open" THEN "flowing" ELSE @]

ResumeClient(g, up, depth) ==
    IF closed \/ IsBackpressured(g, up, depth) THEN g
    ELSE IF ~g.clientPaused THEN [g EXCEPT !.circuitOpen = FALSE]
    ELSE [g EXCEPT
            !.circuitOpen = FALSE,
            !.clientPaused = FALSE,
            !.bufferedBytes = up,
            !.sockPaused = (clientSock = "closed") /\ @,
            !.told = IF clientSock = "open" THEN "flowing" ELSE @,
            !.late = 0]

EvaluateBackpressure(g, up, depth) ==
    IF closed THEN g
    ELSE IF IsBackpressured(g, up, depth) THEN PauseClient(g)
    ELSE ResumeClient(g, up, depth)

\* connection.close() and safeCloseClient(), as the socket states they leave.
UpstreamEnded == IF Sendable THEN "closing" ELSE upstream
ClientEnded == IF clientSock = "open" THEN "closing" ELSE clientSock

\* Mutant: the backoff timer is not cleared.
CloseKeepsBackoff(nextUpstream, nextClient) ==
    /\ closed' = TRUE /\ closedMidStart' = (pc \in Starting)
    /\ pressureTimer' = FALSE /\ adaptiveTimer' = FALSE
    /\ attached' = FALSE
    /\ upstream' = nextUpstream /\ clientSock' = nextClient
    /\ UNCHANGED <<pc, gate, highWaterMark, rateLimitAttempts, rateLimitTimer,
                   timeouts, audioBuffered, ctrlBuffered, peerGone, loopVars>>

\* Mutant: the provider connection is dropped without being closed.
CloseKeepsUpstream(nextUpstream, nextClient) ==
    /\ closed' = TRUE /\ closedMidStart' = (pc \in Starting)
    /\ rateLimitTimer' = FALSE
    /\ timeouts' = IF rateLimitTimer THEN timeouts - 1 ELSE timeouts
    /\ pressureTimer' = FALSE /\ adaptiveTimer' = FALSE
    /\ attached' = FALSE
    /\ clientSock' = nextClient
    /\ UNCHANGED <<pc, gate, highWaterMark, rateLimitAttempts, upstream,
                   audioBuffered, ctrlBuffered, peerGone, loopVars>>

\* close(), first call.  `closed' is set first, so the resumeClient("shutdown")
\* in it returns at once and leaves the gate, and the client socket, as it is.
CloseSession(nextUpstream, nextClient) ==
    /\ closed' = TRUE
    /\ closedMidStart' = (pc \in Starting)
    /\ rateLimitTimer' = FALSE
    /\ timeouts' = IF rateLimitTimer THEN timeouts - 1 ELSE timeouts
    /\ pressureTimer' = FALSE
    /\ adaptiveTimer' = FALSE
    /\ attached' = FALSE
    /\ upstream' = nextUpstream
    /\ clientSock' = nextClient
    /\ UNCHANGED <<pc, gate, highWaterMark, rateLimitAttempts, audioBuffered,
                   ctrlBuffered, peerGone, loopVars>>

-----------------------------------------------------------------------------
(* start() *)

PluginsStarted ==
    /\ pc = "plugins"
    /\ pc' = "connecting"
    /\ upstream' = "dialing"
    /\ UNCHANGED <<closed, closedMidStart, gate, highWaterMark, timerVars,
                   attached, audioBuffered, ctrlBuffered, clientVars, loopVars>>

\* connect() resolves.  `closed' is not looked at again.  The adapter has
\* sent its session.update; the monitor and the adaptive loop start.
Connected ==
    /\ pc = "connecting" /\ Idle
    /\ pc' = "ready"
    /\ upstream' = "open" /\ attached' = TRUE
    /\ ctrlBuffered' = ctrlBuffered + ControlBytes
    /\ pressureTimer' = TRUE
    /\ adaptiveTimer' = (AdaptiveMarks # {})
    /\ UNCHANGED <<closed, closedMidStart, gate, highWaterMark,
                   rateLimitAttempts, rateLimitTimer, timeouts, audioBuffered,
                   clientVars, loopVars>>

\* Mutant: the failure is logged and the session left open.
StartRejectedOpen ==
    /\ pc = "plugins" \/ (pc = "connecting" /\ Idle)
    /\ pc' = "failed"
    /\ upstream' = "none"
    /\ UNCHANGED <<closed, closedMidStart, gate, highWaterMark, timerVars,
                   attached, audioBuffered, ctrlBuffered, clientVars, loopVars>>

\* A plugin or connect() rejects; the server's catch closes the session.
StartRejected ==
    /\ pc = "plugins" \/ (pc = "connecting" /\ Idle)
    /\ pc' = "failed"
    /\ upstream' = "none"
    /\ closed' = TRUE
    /\ closedMidStart' = (closedMidStart \/ ~closed)
    /\ clientSock' = ClientEnded
    /\ UNCHANGED <<gate, highWaterMark, timerVars, attached, audioBuffered,
                   ctrlBuffered, peerGone, loopVars>>

-----------------------------------------------------------------------------
(* Client messages *)

\* ws hands over a message: the socket is read, or the message was already
\* in its receiver when the socket was paused.
Receivable ==
    /\ Idle /\ Bound /\ ~closed
    /\ clientSock = "open"
    /\ IF gate.sockPaused THEN gate.late > 0 ELSE ~peerGone

Received == IF gate.sockPaused THEN [gate EXCEPT !.late = @ - 1] ELSE gate

ClientAudioDropped ==
    /\ Receivable
    /\ gate.clientPaused \/ gate.circuitOpen
    /\ gate' = Received
    /\ UNCHANGED <<lifeVars, highWaterMark, timerVars, upVars, clientVars, loopVars>>

ClientAudio ==
    /\ Receivable
    /\ ~gate.clientPaused /\ ~gate.circuitOpen
    /\ chunks' \in 0..MaxBurst
    /\ gate' = Received
    /\ UNCHANGED <<lifeVars, highWaterMark, timerVars, upVars, clientVars,
                   commitAfter, needDrain>>

\* input_audio_buffer.commit: at most one flushed chunk, then the commit.
\* The paused gate is not consulted.
ClientCommit ==
    /\ Receivable
    /\ ctrlBuffered + ControlBytes <= ControlCap
    /\ chunks' \in 0..1
    /\ commitAfter' = TRUE
    /\ gate' = Received
    /\ UNCHANGED <<lifeVars, highWaterMark, timerVars, upVars, clientVars, needDrain>>

\* input_audio_buffer.clear, session.update, response.create and
\* conversation.item.create go to the provider as they are.
ClientControl ==
    /\ Receivable
    /\ ctrlBuffered + ControlBytes <= ControlCap
    /\ ctrlBuffered' = IF Sendable THEN ctrlBuffered + ControlBytes ELSE ctrlBuffered
    /\ gate' = Received
    /\ UNCHANGED <<lifeVars, highWaterMark, timerVars, attached, upstream,
                   audioBuffered, clientVars, loopVars>>

\* forwardAudioChunk(): the VAD says silence.
ForwardSilence ==
    /\ chunks > 0
    /\ chunks' = chunks - 1
    /\ UNCHANGED <<lifeVars, gate, highWaterMark, timerVars, upVars, clientVars,
                   commitAfter, needDrain>>

\* forwardAudioChunk(): speech, under pressure.
ForwardRefused ==
    /\ chunks > 0
    /\ IsBackpressured(gate, ProviderBuffered, 0)
    /\ chunks' = chunks - 1
    /\ gate' = PauseClient(gate)
    /\ UNCHANGED <<lifeVars, highWaterMark, timerVars, upVars, clientVars,
                   commitAfter, needDrain>>

\* Mutant: isBackpressured() is not asked before the frame is written.
ForwardUnguarded ==
    /\ chunks > 0
    /\ chunks' = chunks - 1
    /\ \E n \in 1..AppendBytes :
         /\ audioBuffered' = IF Sendable THEN audioBuffered + n ELSE audioBuffered
         /\ gate' = IF Sendable
                    THEN EvaluateBackpressure(gate, ProviderBuffered + n, 1)
                    ELSE gate
    /\ UNCHANGED <<lifeVars, highWaterMark, timerVars, attached, upstream,
                   ctrlBuffered, clientVars, commitAfter, needDrain>>

\* Mutant: the pressure is not evaluated after the send.
ForwardUnevaluated ==
    /\ chunks > 0
    /\ ~IsBackpressured(gate, ProviderBuffered, 0)
    /\ chunks' = chunks - 1
    /\ \E n \in 1..AppendBytes :
         audioBuffered' = IF Sendable THEN audioBuffered + n ELSE audioBuffered
    /\ UNCHANGED <<lifeVars, gate, highWaterMark, timerVars, attached, upstream,
                   ctrlBuffered, clientVars, commitAfter, needDrain>>

\* forwardAudioChunk(): speech, written to the transform, which hands it to
\* dispatchUpstreamFrame() inside write(), while it still counts as queued.
\* A frame there is no open connection for is lost without a trace.
ForwardSpeech ==
    /\ chunks > 0
    /\ ~IsBackpressured(gate, ProviderBuffered, 0)
    /\ chunks' = chunks - 1
    /\ \E n \in 1..AppendBytes :
         LET dispatched == IF Sendable
                           THEN EvaluateBackpressure(gate, ProviderBuffered + n, 1)
                           ELSE gate
             ok == 1 < TransformHwm
         IN /\ audioBuffered' = IF Sendable THEN audioBuffered + n ELSE audioBuffered
            /\ gate' = IF ok THEN dispatched ELSE PauseClient(dispatched)
            /\ needDrain' = (needDrain \/ ~ok)
    /\ UNCHANGED <<lifeVars, highWaterMark, timerVars, attached, upstream,
                   ctrlBuffered, clientVars, commitAfter>>

SendCommit ==
    /\ chunks = 0 /\ commitAfter
    /\ commitAfter' = FALSE
    /\ ctrlBuffered' = IF Sendable THEN ctrlBuffered + ControlBytes ELSE ctrlBuffered
    /\ UNCHANGED <<lifeVars, gate, highWaterMark, timerVars, attached, upstream,
                   audioBuffered, clientVars, chunks, needDrain>>

\* outbound 'drain', on the tick after the handler.
TransformDrain ==
    /\ needDrain /\ chunks = 0 /\ ~commitAfter
    /\ needDrain' = FALSE
    /\ gate' = EvaluateBackpressure(gate, ProviderBuffered, 0)
    /\ UNCHANGED <<lifeVars, highWaterMark, timerVars, upVars, clientVars, chunks,
                   commitAfter>>

-----------------------------------------------------------------------------
(* Timers *)

\* Mutant: the monitor pauses but leaves resuming to 'drain'.
MonitorPausesOnly ==
    /\ pressureTimer /\ Idle
    /\ gate' = IF IsBackpressured(gate, ProviderBuffered, 0)
               THEN PauseClient(gate) ELSE gate
    /\ UNCHANGED <<lifeVars, highWaterMark, timerVars, upVars, clientVars, loopVars>>

\* Mutant: the monitor resumes but leaves pausing to the send path.
MonitorResumesOnly ==
    /\ pressureTimer /\ Idle
    /\ gate' = ResumeClient(gate, ProviderBuffered, 0)
    /\ UNCHANGED <<lifeVars, highWaterMark, timerVars, upVars, clientVars, loopVars>>

MonitorTick ==
    /\ pressureTimer /\ Idle
    /\ gate' = EvaluateBackpressure(gate, ProviderBuffered, 0)
    /\ UNCHANGED <<lifeVars, highWaterMark, timerVars, upVars, clientVars, loopVars>>

AdaptiveTick ==
    /\ adaptiveTimer /\ Idle
    /\ highWaterMark' \in AdaptiveMarks
    /\ UNCHANGED <<lifeVars, gate, timerVars, upVars, clientVars, loopVars>>

BackoffFires ==
    /\ timeouts > 0 /\ Idle
    /\ timeouts' = timeouts - 1
    /\ rateLimitTimer' = FALSE
    /\ rateLimitAttempts' = IF rateLimitAttempts > 0 THEN rateLimitAttempts - 1 ELSE 0
    /\ gate' = ResumeClient(gate, ProviderBuffered, 0)
    /\ UNCHANGED <<lifeVars, highWaterMark, pressureTimer, adaptiveTimer, upVars,
                   clientVars, loopVars>>

-----------------------------------------------------------------------------
(* The provider *)

\* Mutant: the running backoff timer is not cleared.
RateLimitedAgain ==
    /\ Idle /\ ~closed /\ Sendable
    /\ rateLimitAttempts < MaxAttempts
    /\ rateLimitAttempts' = rateLimitAttempts + 1
    /\ gate' = PauseClient(gate)
    /\ timeouts' = timeouts + 1
    /\ rateLimitTimer' = TRUE
    /\ UNCHANGED <<lifeVars, highWaterMark, pressureTimer, adaptiveTimer, upVars,
                   clientVars, loopVars>>

\* handleRateLimit().
RateLimited ==
    /\ Idle /\ ~closed /\ Sendable
    /\ rateLimitAttempts < MaxAttempts
    /\ rateLimitAttempts' = rateLimitAttempts + 1
    /\ gate' = PauseClient(gate)
    /\ timeouts' = (IF rateLimitTimer THEN timeouts - 1 ELSE timeouts) + 1
    /\ rateLimitTimer' = TRUE
    /\ UNCHANGED <<lifeVars, highWaterMark, pressureTimer, adaptiveTimer, upVars,
                   clientVars, loopVars>>

\* Mutant: a send callback takes a whole frame off, without the clamp at 0.
FlushUnclamped ==
    /\ Idle
    /\ upstream \in {"open", "closing"}
    /\ audioBuffered > 0
    /\ audioBuffered' = audioBuffered - AppendBytes
    /\ UNCHANGED <<lifeVars, gate, highWaterMark, timerVars, attached, upstream,
                   ctrlBuffered, clientVars, loopVars>>

\* The provider's socket takes buffered bytes, even of a closing connection.
UpstreamFlush ==
    /\ Idle
    /\ upstream \in {"open", "closing"}
    /\ \/ /\ audioBuffered' \in 0..audioBuffered /\ audioBuffered' # audioBuffered
          /\ UNCHANGED ctrlBuffered
       \/ /\ ctrlBuffered' \in 0..ctrlBuffered /\ ctrlBuffered' # ctrlBuffered
          /\ UNCHANGED audioBuffered
    /\ UNCHANGED <<lifeVars, gate, highWaterMark, timerVars, attached, upstream,
                   clientVars, loopVars>>

\* A close frame from the provider: readyState changes before 'close' fires.
UpstreamClosing ==
    /\ Idle /\ upstream = "open"
    /\ upstream' = "closing"
    /\ UNCHANGED <<lifeVars, gate, highWaterMark, timerVars, attached,
                   audioBuffered, ctrlBuffered, clientVars, loopVars>>

\* 'close' of the provider socket; a closed session ignores it.
UpstreamClosed ==
    /\ Idle /\ upstream \in {"open", "closing"}
    /\ IF attached /\ ~closed
       THEN CloseSession("closed", ClientEnded)
       ELSE /\ upstream' = "closed"
            /\ UNCHANGED <<lifeVars, gate, highWaterMark, timerVars, attached,
                           audioBuffered, ctrlBuffered, clientVars, loopVars>>

\* 'error' of the provider socket, which is closed by the session or by ws.
UpstreamError ==
    /\ Idle /\ ~closed
    /\ attached /\ upstream \in {"open", "closing"}
    /\ CloseSession("closing", ClientEnded)

-----------------------------------------------------------------------------
(* The client's socket *)

PeerLeaves ==
    /\ ~peerGone
    /\ peerGone' = TRUE
    /\ UNCHANGED <<lifeVars, gate, highWaterMark, timerVars, upVars, clientSock,
                   loopVars>>

\* ws reads the peer's close frame and answers it.
ClientClosing ==
    /\ Idle /\ clientSock = "open"
    /\ peerGone /\ ~gate.sockPaused
    /\ clientSock' = "closing"
    /\ UNCHANGED <<lifeVars, gate, highWaterMark, timerVars, upVars, peerGone,
                   loopVars>>

\* Mutant: the handlers are bound when start() is over.
ClientClosedUnheard ==
    /\ Idle
    /\ \/ clientSock = "closing"
       \/ clientSock = "open" /\ peerGone /\ ~gate.sockPaused
    /\ IF pc \notin Starting /\ ~closed
       THEN CloseSession(UpstreamEnded, "closed")
       ELSE /\ clientSock' = "closed"
            /\ UNCHANGED <<lifeVars, gate, highWaterMark, timerVars, upVars,
                           peerGone, loopVars>>

\* 'close' of the client socket.  A paused socket does not see the peer go;
\* one that is closing is torn down by ws in any case.  Before the handlers
\* are bound nobody tells the session.
ClientClosed ==
    /\ Idle
    /\ \/ clientSock = "closing"
       \/ clientSock = "open" /\ peerGone /\ ~gate.sockPaused
    /\ IF Bound /\ ~closed
       THEN CloseSession(UpstreamEnded, "closed")
       ELSE /\ clientSock' = "closed"
            /\ UNCHANGED <<lifeVars, gate, highWaterMark, timerVars, upVars,
                           peerGone, loopVars>>

ClientError ==
    /\ Idle /\ Bound /\ ~closed
    /\ clientSock = "open"
    /\ CloseSession(UpstreamEnded, "closing")

\* SessionManager.closeAll().
Shutdown ==
    /\ Idle /\ ~closed
    /\ CloseSession(UpstreamEnded, ClientEnded)

-----------------------------------------------------------------------------

Start == PluginsStarted \/ Connected \/ StartRejected

ClientMessage == ClientAudioDropped \/ ClientAudio \/ ClientCommit \/ ClientControl

\* The handler that is running, and the 'drain' tick behind it.
Continue ==
    ForwardSilence \/ ForwardRefused \/ ForwardSpeech \/ SendCommit \/ TransformDrain

Timer == MonitorTick \/ AdaptiveTick \/ BackoffFires

Provider ==
    RateLimited \/ UpstreamFlush \/ UpstreamClosing \/ UpstreamClosed \/ UpstreamError

Client == PeerLeaves \/ ClientClosing \/ ClientClosed \/ ClientError

Next == Start \/ ClientMessage \/ Continue \/ Timer \/ Provider \/ Client \/ Shutdown

Spec == Init /\ [][Next]_vars

\* A handler that has begun is finished.  Between handlers the event loop
\* serves the timers that are due and polls every socket once a turn, so no
\* stream of client messages can overtake them for ever: the fairness of a
\* callback is strong, because it is disabled while a handler runs.  An open
\* provider socket keeps taking bytes, and the poll after a resume() sees that
\* the peer has gone.  Plugins that do not suspend are over within the turn
\* that starts them.  Nothing is assumed of other plugins, of connect(), of
\* the client or of what the provider sends.
Fairness ==
    /\ WF_vars(Continue)
    /\ SF_vars(MonitorTick)
    /\ SF_vars(BackoffFires)
    /\ SF_vars(UpstreamFlush)
    /\ SF_vars(ClientClosed)
    /\ AsyncPlugins \/ WF_vars(PluginsStarted)

FairSpec == Spec /\ Fairness

-----------------------------------------------------------------------------
(* Properties *)

\* Types, and the bounds that are constants of the instance.
TypeOK ==
    /\ pc \in {"plugins", "connecting", "ready", "failed"}
    /\ closed \in BOOLEAN /\ closedMidStart \in BOOLEAN
    /\ gate \in Gate
    /\ highWaterMark \in {HighWaterMark} \cup AdaptiveMarks
    /\ rateLimitAttempts \in Nat /\ rateLimitTimer \in BOOLEAN
    /\ timeouts \in Nat
    /\ pressureTimer \in BOOLEAN /\ adaptiveTimer \in BOOLEAN
    /\ attached \in BOOLEAN
    /\ upstream \in {"none", "dialing", "open", "closing", "closed"}
    /\ audioBuffered \in Nat /\ ctrlBuffered \in Nat
    /\ clientSock \in {"open", "closing", "closed"} /\ peerGone \in BOOLEAN
    /\ chunks \in Nat /\ commitAfter \in BOOLEAN /\ needDrain \in BOOLEAN

\* While the session lives its two flags, the client's socket and the last
\* gateway.pause / gateway.resume the client was sent all say the same, after
\* every step of the many that pause and resume (gateway.ts 527-589).
PauseViewsAgree ==
    ~closed =>
        /\ gate.circuitOpen = gate.clientPaused
        /\ clientSock = "open" =>
              /\ gate.sockPaused = gate.clientPaused
              /\ (gate.told = "paused") = gate.clientPaused

\* The count frozen at the last resume never reaches the hard limit by
\* itself: if it did, isBackpressured() would stay true with an empty
\* provider socket and a paused client would never be resumed (505-514, 571).
ReliefPossible == gate.bufferedBytes < MaxBuffered

\* Audio waiting for the provider overshoots MAX_BUFFERED_BYTES by less than
\* one frame, whatever burst a message brings, whatever the adaptive loop does
\* to the mark, and although commits are handled while paused (333-369).
AudioBacklogBounded == audioBuffered < MaxBuffered + AppendBytes

\* At most one backoff timeout is armed and the handle names it; the session
\* then is open and counts an attempt, so the Math.max in the timer callback
\* never acts and the delay exponent is never negative (468-499).
OneBackoffTimer ==
    /\ timeouts <= 1
    /\ rateLimitTimer <=> timeouts = 1
    /\ rateLimitTimer => ~closed /\ rateLimitAttempts > 0

\* What a session holds at each point of start() and close(): the connection
\* and the timers come with the end of start(), a failed start has closed the
\* session, and close() finds no handler half done (122-176, server.ts 173-187).
LifeCycle ==
    /\ pc \in Starting =>
         /\ ~attached /\ ~pressureTimer /\ ~adaptiveTimer /\ timeouts = 0
         /\ upstream \in {"none", "dialing"}
         /\ audioBuffered = 0 /\ ctrlBuffered = 0
         /\ closedMidStart = closed
    /\ pc = "ready" /\ ~closed => attached
    /\ attached => pc = "ready" /\ upstream \in {"open", "closing", "closed"}
    /\ pc = "failed" => closed /\ closedMidStart
    /\ closed => timeouts = 0 /\ chunks = 0 /\ ~commitAfter /\ ~needDrain
    /\ pc = "plugins" => chunks = 0 /\ ~commitAfter /\ ~needDrain

\* A session closed after its start leaves no timer, no connection and no
\* provider socket that was not told to close (139-176).
CleanUnlessClosedMidStart ==
    closed /\ ~closedMidStart =>
        /\ ~pressureTimer /\ ~adaptiveTimer /\ timeouts = 0
        /\ ~attached
        /\ upstream \in {"closing", "closed"}

\* After close() nothing more is forwarded, the gate rests, no backoff timer
\* acts and the client's socket does not come back.
NothingAfterClose ==
    [][closed => /\ closed'
                 /\ gate' = gate
                 /\ audioBuffered' <= audioBuffered
                 /\ rateLimitAttempts' = rateLimitAttempts
                 /\ timeouts' = 0
                 /\ clientSock # "open" => clientSock' # "open"]_vars

\* The session keeps the promises of BackpressureContract.
Contract == INSTANCE BackpressureContract WITH
    Limit   <- MaxBuffered,
    Frame   <- AppendBytes,
    Marks   <- {HighWaterMark} \cup AdaptiveMarks,
    flow    <- IF closed THEN "ended"
               ELSE IF gate.clientPaused THEN "paused" ELSE "flowing",
    backlog <- audioBuffered,
    mark    <- highWaterMark

ImplementsContract == Contract!Spec

\* The session lives as SessionLife says: it closes once, with its socket, and
\* hears the end of the socket from the moment its handlers are bound.
Life == INSTANCE SessionLife WITH sock <- clientSock

ImplementsLife == Life!Spec

\* A paused client is resumed, or its session ends: pausing stops what feeds
\* the backlog, and the monitor looks again until the backlog is gone.
PausedResumes == gate.clientPaused ~> (~gate.clientPaused \/ closed)

\* A provider that stays above the mark is noticed, though control events
\* reach it without passing the gate (191-200, 297-318).
PressureNoticed ==
    (attached /\ ProviderBuffered >= highWaterMark) ~>
        (gate.clientPaused \/ ProviderBuffered < highWaterMark \/ closed)

\* A client that went away is noticed although its socket may be paused at
\* that time (gateway.ts 244-250, 539).
GoneClientNoticed == peerGone ~> closed

-----------------------------------------------------------------------------
(* Statements of the repository the code does not keep *)

\* "rate limited; backing off": audio stays paused while the backoff runs.
BackoffHeld == rateLimitTimer => gate.clientPaused

\* A closed session whose start() is over holds nothing.
ClosedHoldsNothing ==
    closed /\ pc \notin Starting => ~attached /\ ~pressureTimer

=============================================================================
