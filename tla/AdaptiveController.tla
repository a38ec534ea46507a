-------------------------- MODULE AdaptiveController --------------------------
(***************************************************************************)
(* The update rule of src/adaptive/controller.ts, as a function of the     *)
(* settings, the parameters so far and a snapshot of the statistics.       *)
(*                                                                         *)
(* Products with 1.1, 0.95, 0.8 and 0.7 are taken exactly; the entropy     *)
(* threshold is in twentieths, so that its steps of 0.1 and 0.05 are 2     *)
(* and 1.                                                                  *)
(***************************************************************************)
EXTENDS GatewayConfig

AtLeast(lo, n) == IF n < lo THEN lo ELSE n
AtMost(hi, n) == IF n > hi THEN hi ELSE n

\* The floor of the low-latency branch, in bytes.
MarkFloor == 65536

\* The parameters of a new controller.
Initially(config) == [
    chunkDurationMs     |-> config.CHUNK_DURATION_MS,
    highWaterMark       |-> config.HIGH_WATER_MARK,
    vadHangoverMs       |-> config.VAD_HANGOVER_MS,
    vadEntropyThreshold |-> config.VAD_ENTROPY_THRESHOLD]

\* A queue that builds up, or a provider that does not keep up.
Congested(config, snap) ==
    snap.queueDepth > 8 \/ 5 * snap.bufferOccupancyBytes > 4 * config.HIGH_WATER_MARK

\* avgRttMs is a number below 50, and the queue is short.
Quick(snap) == snap.rttKnown /\ snap.avgRttMs < 50 /\ snap.queueDepth < 2

\* silenceRatio > 0.7; 0 before the first frame.
MostlySilent(snap) ==
    10 * snap.silenceDroppedFrames > 7 * (snap.speechFramesSent + snap.silenceDroppedFrames)

Transport(config, p, snap) ==
    IF Congested(config, snap)
    THEN [chunkDurationMs |-> AtMost(100, p.chunkDurationMs + 10),
          highWaterMark |-> AtMost(config.MAX_BUFFERED_BYTES, (11 * p.highWaterMark) \div 10)]
    ELSE IF Quick(snap)
    THEN [chunkDurationMs |-> AtLeast(20, p.chunkDurationMs - 5),
          highWaterMark |-> AtLeast(MarkFloor, (95 * p.highWaterMark) \div 100)]
    ELSE [chunkDurationMs |-> p.chunkDurationMs, highWaterMark |-> p.highWaterMark]

\* Mutant: the configured hangover is restored without a cap.
VoiceUncapped(config, p, snap) ==
    IF MostlySilent(snap)
    THEN [vadHangoverMs |-> AtLeast(200, p.vadHangoverMs - 25),
          vadEntropyThreshold |-> AtMost(200, p.vadEntropyThreshold + 2)]
    ELSE IF snap.vadTriggers > 0
    THEN [vadHangoverMs |-> AtLeast(config.VAD_HANGOVER_MS, p.vadHangoverMs),
          vadEntropyThreshold |-> AtLeast(120, p.vadEntropyThreshold - 1)]
    ELSE [vadHangoverMs |-> p.vadHangoverMs, vadEntropyThreshold |-> p.vadEntropyThreshold]

Voice(config, p, snap) ==
    IF MostlySilent(snap)
    THEN [vadHangoverMs |-> AtLeast(200, p.vadHangoverMs - 25),
          vadEntropyThreshold |-> AtMost(200, p.vadEntropyThreshold + 2)]
    ELSE IF snap.vadTriggers > 0
    THEN [vadHangoverMs |-> AtMost(600, AtLeast(config.VAD_HANGOVER_MS, p.vadHangoverMs)),
          vadEntropyThreshold |-> AtLeast(120, p.vadEntropyThreshold - 1)]
    ELSE [vadHangoverMs |-> p.vadHangoverMs, vadEntropyThreshold |-> p.vadEntropyThreshold]

\* update(), with ADAPTIVE_STREAMING.
Updated(config, p, snap) ==
    LET t == Transport(config, p, snap)
        v == Voice(config, p, snap)
    IN  [chunkDurationMs |-> t.chunkDurationMs, highWaterMark |-> t.highWaterMark,
         vadHangoverMs |-> v.vadHangoverMs, vadEntropyThreshold |-> v.vadEntropyThreshold]

=============================================================================
