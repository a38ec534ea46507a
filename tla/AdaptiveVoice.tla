---------------------------- MODULE AdaptiveVoice ----------------------------
(***************************************************************************)
(* The voice gate under the adaptive loop (src/gateway.ts 191-213): what   *)
(* the gate drops and sends, what backpressure drops, the queue and the    *)
(* round trips make the statistics of src/session/stats.ts; each second    *)
(* the controller reads a snapshot of them and the session takes over its  *)
(* parameters, which decide what the gate drops next.                      *)
(*                                                                         *)
(* The chunk duration the controller computes is used by nobody.           *)
(***************************************************************************)
EXTENDS VoiceGate, AdaptiveController

CONSTANTS
    Loads,          \* outbound.writableLength and providerBuffered(), together
    Rtts,           \* what Date.now() may differ by in one turn
    RttWindow,      \* the round trips stats.ts keeps (64)
    MaxUpdates      \* bound: turns of the adaptive loop

ASSUME AdaptiveAssumption ==
    /\ Loads \subseteq [depth : Nat, bytes : Nat] /\ Rtts \subseteq Nat
    /\ RttWindow \in Nat \ {0} /\ MaxUpdates \in Nat

VARIABLES
    params,                             \* AdaptiveStreamingController
    highWaterMark,                      \* GatewaySession
    queueDepth, bufferOccupancyBytes,   \* SessionStats, as the monitor left them
    rttSamples,                         \* SessionStats
    updates                             \* history: turns of the adaptive loop

loadVars == <<queueDepth, bufferOccupancyBytes, rttSamples>>
loopVars == <<params, highWaterMark, updates>>
vars == <<gateVars, loadVars, loopVars>>

Init ==
    /\ GateInit
    /\ params = Initially(config)
    /\ highWaterMark = config.HIGH_WATER_MARK
    /\ queueDepth = 0 /\ bufferOccupancyBytes = 0
    /\ rttSamples = <<>>
    /\ updates = 0

-----------------------------------------------------------------------------

\* snapshot().
Snapshot == [
    queueDepth |-> queueDepth, bufferOccupancyBytes |-> bufferOccupancyBytes,
    rttKnown |-> rttSamples # <<>>,
    avgRttMs |-> IF rttSamples = <<>> THEN 0 ELSE FoldFunction(+, 0, rttSamples) \div Len(rttSamples),
    speechFramesSent |-> speechFramesSent, silenceDroppedFrames |-> silenceDroppedFrames,
    vadTriggers |-> vadTriggers]

Hear == Chunk \/ DropMessage

\* The monitor writes down what it saw: stats.updateQueue().
MonitorTick ==
    /\ \E load \in Loads :
         queueDepth' = load.depth /\ bufferOccupancyBytes' = load.bytes
    /\ UNCHANGED <<gateVars, rttSamples, loopVars>>

\* "gateway.ping": markPing() and markPong() in one turn.
Ping ==
    /\ \E rtt \in Rtts :
         LET samples == Append(rttSamples, rtt)
         IN  rttSamples' = IF Len(samples) > RttWindow THEN Tail(samples) ELSE samples
    /\ UNCHANGED <<gateVars, queueDepth, bufferOccupancyBytes, loopVars>>

\* One turn of the loop, which ADAPTIVE_STREAMING=false does not start.
AdaptiveTick ==
    /\ config.ADAPTIVE_STREAMING
    /\ updates < MaxUpdates /\ updates' = updates + 1
    /\ params' = Updated(config, params, Snapshot)
    /\ highWaterMark' = params'.highWaterMark
    /\ TakeOver(params'.vadHangoverMs, params'.vadEntropyThreshold)
    /\ UNCHANGED loadVars

Next ==
    \/ Hear /\ UNCHANGED <<loadVars, loopVars>>
    \/ MonitorTick \/ Ping \/ AdaptiveTick

Spec == Init /\ [][Next]_vars

-----------------------------------------------------------------------------
(* Properties *)

Params == [chunkDurationMs : 10..200, highWaterMark : Nat \ {0},
           vadHangoverMs : 0..MaxHangoverMs, vadEntropyThreshold : 0..320]

TypeOK ==
    /\ GateTypeOK
    /\ params \in Params
    /\ highWaterMark \in Nat \ {0}
    /\ queueDepth \in Nat /\ bufferOccupancyBytes \in Nat
    /\ rttSamples \in Seq(Nat) /\ Len(rttSamples) <= RttWindow
    /\ updates \in Nat

\* A value that moves stays in lo..hi, or comes no farther from it.
Toward(lo, hi, old, new) == AtMost(old, lo) <= new /\ new <= AtLeast(old, hi)

\* Whatever was configured, whatever the session goes through, no parameter
\* leaves the range the controller keeps it in, and one configured outside only
\* comes closer: the branches never push against each other's bounds.  The mark
\* ends between the floor of the low-latency branch and MAX_BUFFERED_BYTES,
\* whichever is the larger (controller.ts 39-54).
ParametersConverge ==
    [][ /\ Toward(20, 100, params.chunkDurationMs, params'.chunkDurationMs)
        /\ Toward(AtMost(MarkFloor, config.MAX_BUFFERED_BYTES),
                  AtLeast(MarkFloor, config.MAX_BUFFERED_BYTES),
                  params.highWaterMark, params'.highWaterMark)
        /\ Toward(200, 600, params.vadHangoverMs, params'.vadHangoverMs)
        /\ Toward(120, 200, params.vadEntropyThreshold, params'.vadEntropyThreshold)
      ]_vars

=============================================================================
