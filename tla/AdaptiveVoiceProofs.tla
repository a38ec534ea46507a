------------------------- MODULE AdaptiveVoiceProofs -------------------------
(***************************************************************************)
(* Proofs about AdaptiveVoice, for every accepted configuration, every     *)
(* chunk and every load: types, the counters, the hangover, and the range  *)
(* of the adaptive parameters.                                             *)
(*                                                                         *)
(* What makes the hangover provable is HangoverLeft: what VadState still   *)
(* holds is the hangover of the last detection less the samples since,     *)
(* however they were cut into chunks.                                      *)
(***************************************************************************)
EXTENDS AdaptiveVoice, TLAPS

HangoverLeft == PassThrough \/ hangoverSamplesRemaining = Monus(held, quiet)

VInv ==
    /\ TypeOK
    /\ FramesAccounted
    /\ HangoverLeft

Assumptions == VoiceAssumption /\ SpectrumAssumption /\ AdaptiveAssumption

-----------------------------------------------------------------------------
(* Arithmetic of the settings *)

LEMMA HangoverBound == MaxHangoverMs \in Nat /\ MaxHangoverMs >= 600
  BY DEF MaxHangoverMs

LEMMA DivNat == ASSUME NEW a \in Nat, NEW d \in Nat \ {0} PROVE a \div d \in Nat
  BY SMT

LEMMA RemainderRange ==
  ASSUME NEW a \in Nat, NEW d \in Nat \ {0} PROVE a % d \in 0..(d - 1)
  BY SMT

LEMMA ProductNat == ASSUME NEW a \in Nat, NEW b \in Nat PROVE a * b \in Nat
  BY SMT

\* The settings the proofs look at.
LEMMA SettingsTyped ==
  ASSUME NEW c, Accepted(c)
  PROVE  /\ c.SAMPLE_RATE \in Nat /\ c.CHUNK_DURATION_MS \in Nat
         /\ c.CHUNK_DURATION_MS \in 10..200 /\ c.VAD_HANGOVER_MS \in 0..MaxHangoverMs
         /\ c.VAD_ENTROPY_THRESHOLD \in 0..320
         /\ c.HIGH_WATER_MARK \in Nat \ {0} /\ c.MAX_BUFFERED_BYTES \in Nat \ {0}
<1>1. InRange(c)
  BY DEF Accepted
<1>2. c.CHUNK_DURATION_MS \in 10..200
  BY <1>1 DEF InRange
<1>3. c.CHUNK_DURATION_MS \in Nat
  BY <1>2
<1> QED
  BY <1>1, <1>2, <1>3 DEF InRange

LEMMA SamplesNat ==
  ASSUME TypeOK
  PROVE  /\ HangoverSamples \in Nat
         /\ WholeChunk \in Nat \ {0}
<1>1. /\ hangoverMs \in Nat /\ config.SAMPLE_RATE \in Nat
      /\ config.CHUNK_DURATION_MS \in Nat
  <2>1. hangoverMs \in 0..MaxHangoverMs /\ Accepted(config)
    BY DEF TypeOK, GateTypeOK
  <2> QED
    BY <2>1, SettingsTyped, HangoverBound
<1>2. /\ hangoverMs * config.SAMPLE_RATE \in Nat
      /\ config.SAMPLE_RATE * config.CHUNK_DURATION_MS \in Nat
  BY <1>1, ProductNat
<1>3. /\ (hangoverMs * config.SAMPLE_RATE) \div 1000 \in Nat
      /\ (config.SAMPLE_RATE * config.CHUNK_DURATION_MS) \div 1000 \in Nat
  BY <1>2, DivNat
<1> QED
  BY <1>3 DEF HangoverSamples, WholeChunk

LEMMA ChunkSizesNat ==
  ASSUME Assumptions, TypeOK, NEW n \in ChunkSizes
  PROVE  n \in Nat \ {0}
  BY SamplesNat DEF Assumptions, VoiceAssumption, ChunkSizes

-----------------------------------------------------------------------------
(* The controller *)

LEMMA AtLeastBounds ==
  ASSUME NEW hi \in Int, NEW a \in 0..hi, NEW b \in 0..hi
  PROVE  AtLeast(a, b) \in 0..hi /\ AtLeast(a, b) >= b
  BY DEF AtLeast

LEMMA TowardRests ==
  ASSUME NEW lo \in Int, NEW hi \in Int, NEW n \in Int
  PROVE  Toward(lo, hi, n, n)
  BY DEF Toward, AtMost, AtLeast

\* One update keeps the parameters well typed and converging.
LEMMA UpdateConverges ==
  ASSUME NEW c, Accepted(c), NEW p \in Params, NEW snap
  PROVE  LET q == Updated(c, p, snap)
         IN  /\ q \in Params
             /\ Toward(20, 100, p.chunkDurationMs, q.chunkDurationMs)
             /\ Toward(AtMost(MarkFloor, c.MAX_BUFFERED_BYTES),
                       AtLeast(MarkFloor, c.MAX_BUFFERED_BYTES),
                       p.highWaterMark, q.highWaterMark)
             /\ Toward(200, 600, p.vadHangoverMs, q.vadHangoverMs)
             /\ Toward(120, 200, p.vadEntropyThreshold, q.vadEntropyThreshold)
<1> DEFINE t == Transport(c, p, snap)
           v == Voice(c, p, snap)
<1>1. /\ p.chunkDurationMs \in 10..200 /\ p.highWaterMark \in Nat \ {0}
      /\ p.vadHangoverMs \in 0..MaxHangoverMs /\ p.vadEntropyThreshold \in 0..320
      /\ c.MAX_BUFFERED_BYTES \in Nat \ {0} /\ c.VAD_HANGOVER_MS \in 0..MaxHangoverMs
  BY SettingsTyped DEF Params
<1>2. /\ t.chunkDurationMs \in 10..200
      /\ Toward(20, 100, p.chunkDurationMs, t.chunkDurationMs)
  BY <1>1 DEF Transport, Toward, AtMost, AtLeast
<1>3. /\ t.highWaterMark \in Nat \ {0}
      /\ Toward(AtMost(MarkFloor, c.MAX_BUFFERED_BYTES),
                AtLeast(MarkFloor, c.MAX_BUFFERED_BYTES),
                p.highWaterMark, t.highWaterMark)
  <2>1. /\ (11 * p.highWaterMark) \div 10 \in Nat
        /\ (11 * p.highWaterMark) \div 10 >= p.highWaterMark
        /\ (95 * p.highWaterMark) \div 100 \in Nat
        /\ (95 * p.highWaterMark) \div 100 <= p.highWaterMark
    BY <1>1, SMT
  <2> QED
    BY <1>1, <2>1 DEF Transport, Toward, AtMost, AtLeast, MarkFloor
<1>4. /\ v.vadHangoverMs \in 0..MaxHangoverMs
      /\ Toward(200, 600, p.vadHangoverMs, v.vadHangoverMs)
  <2> DEFINE h == p.vadHangoverMs
             shrunk == AtLeast(200, h - 25)
             restored == AtMost(600, AtLeast(c.VAD_HANGOVER_MS, h))
  <2>1. v.vadHangoverMs \in {h, shrunk, restored}
    BY DEF Voice
  <2>2. h \in 0..MaxHangoverMs /\ c.VAD_HANGOVER_MS \in 0..MaxHangoverMs
    BY <1>1
  <2> HIDE DEF h, v
  <2>3. shrunk \in 0..MaxHangoverMs /\ Toward(200, 600, h, shrunk)
    BY <2>2, HangoverBound DEF Toward, AtMost, AtLeast
  <2>4. restored \in 0..MaxHangoverMs /\ Toward(200, 600, h, restored)
    <3> DEFINE base == c.VAD_HANGOVER_MS
               least == AtLeast(base, h)
    <3>1. least \in 0..MaxHangoverMs /\ least >= h
      <4> HIDE DEF base
      <4>1. base \in 0..MaxHangoverMs /\ h \in 0..MaxHangoverMs
        BY <2>2 DEF base
      <4> QED
        BY <4>1, HangoverBound DEF AtLeast
    <3>2. restored = AtMost(600, least)
      OBVIOUS
    <3> HIDE DEF least, restored
    <3> QED
      BY <2>2, <3>1, <3>2, HangoverBound DEF Toward, AtMost, AtLeast
  <2>5. Toward(200, 600, h, h)
    BY <2>2, HangoverBound DEF Toward, AtMost, AtLeast
  <2> QED
    BY <2>1, <2>2, <2>3, <2>4, <2>5 DEF h
<1>5. /\ v.vadEntropyThreshold \in 0..320
      /\ Toward(120, 200, p.vadEntropyThreshold, v.vadEntropyThreshold)
  BY <1>1 DEF Voice, Toward, AtMost, AtLeast
<1>6. Updated(c, p, snap) =
        [chunkDurationMs |-> t.chunkDurationMs, highWaterMark |-> t.highWaterMark,
         vadHangoverMs |-> v.vadHangoverMs, vadEntropyThreshold |-> v.vadEntropyThreshold]
  BY DEF Updated
<1> HIDE DEF t, v
<1> QED
  BY <1>2, <1>3, <1>4, <1>5, <1>6 DEF Params

\* A step that leaves the parameters alone converges as well.
LEMMA RestConverges ==
  ASSUME NEW c, Accepted(c), NEW p \in Params
  PROVE  /\ Toward(20, 100, p.chunkDurationMs, p.chunkDurationMs)
         /\ Toward(AtMost(MarkFloor, c.MAX_BUFFERED_BYTES),
                   AtLeast(MarkFloor, c.MAX_BUFFERED_BYTES),
                   p.highWaterMark, p.highWaterMark)
         /\ Toward(200, 600, p.vadHangoverMs, p.vadHangoverMs)
         /\ Toward(120, 200, p.vadEntropyThreshold, p.vadEntropyThreshold)
<1>1. /\ p.chunkDurationMs \in 10..200 /\ p.highWaterMark \in Nat
      /\ p.vadHangoverMs \in 0..MaxHangoverMs /\ p.vadEntropyThreshold \in 0..320
      /\ c.MAX_BUFFERED_BYTES \in Nat
  BY SettingsTyped DEF Params
<1>2. /\ AtMost(MarkFloor, c.MAX_BUFFERED_BYTES) \in Int
      /\ AtLeast(MarkFloor, c.MAX_BUFFERED_BYTES) \in Int
  BY <1>1 DEF AtMost, AtLeast, MarkFloor
<1>3. p.chunkDurationMs \in Int
  BY <1>1
<1>4. p.highWaterMark \in Int
  BY <1>1
<1>5. p.vadHangoverMs \in Int
  BY <1>1, HangoverBound
<1>6. p.vadEntropyThreshold \in Int
  BY <1>1
<1>7. 20 \in Int /\ 100 \in Int /\ 200 \in Int /\ 600 \in Int /\ 120 \in Int
  OBVIOUS
<1> QED
  BY <1>2, <1>3, <1>4, <1>5, <1>6, <1>7, TowardRests, Zenon

-----------------------------------------------------------------------------
(* The gate *)

\* A chunk keeps every part of the invariant, whichever way it leaves.
LEMMA JudgeKeeps ==
  ASSUME Assumptions, VInv, NEW sound \in Sounds, NEW n \in ChunkSizes, Judge(sound, n),
         speechFramesSent' + silenceDroppedFrames' + lost' =
            speechFramesSent + silenceDroppedFrames + lost + 1,
         speechFramesSent' \in Nat, silenceDroppedFrames' \in Nat, lost' \in Nat
  PROVE  /\ GateTypeOK' /\ FramesAccounted' /\ HangoverLeft'
         /\ quiet' > quiet => (lastVadSpeech' = (PassThrough \/ quiet < held))
<1> DEFINE active == Detected(sound)
           speech == IsSpeech(active, n)
<1>1. /\ n \in Nat \ {0} /\ HangoverSamples \in Nat
      /\ hangoverSamplesRemaining \in Nat /\ held \in Nat /\ quiet \in Nat
      /\ UNCHANGED <<config, hangoverMs, entropyThreshold>>
  BY ChunkSizesNat, SamplesNat DEF VInv, TypeOK, GateTypeOK, Judge
<1>2. Hangover(active, n) /\ Triggers(speech) /\ Analyze(sound, n)
  BY DEF Judge
<1>3. /\ held' = IF active THEN HangoverSamples ELSE held
      /\ quiet' = IF active THEN 0 ELSE quiet + n
  BY DEF Judge
<1>4. active \in BOOLEAN /\ speech \in BOOLEAN /\ PassThrough \in BOOLEAN
  BY DEF Detected, IsSpeech, PassThrough
<1>5. PassThrough' = PassThrough
  BY <1>1 DEF PassThrough
<1>6. speech = (PassThrough \/ active \/ hangoverSamplesRemaining > 0)
  BY DEF IsSpeech
<1> HIDE DEF active, speech
<1>7. hangoverSamplesRemaining' \in Nat /\ held' \in Nat /\ quiet' \in Nat
  BY <1>1, <1>2, <1>3 DEF Hangover, Monus
<1>8. HangoverLeft'
  <2>1. CASE PassThrough
    BY <2>1, <1>5 DEF HangoverLeft
  <2>2. CASE ~PassThrough /\ active
    BY <2>2, <1>1, <1>2, <1>3 DEF HangoverLeft, Hangover, Monus
  <2>3. CASE ~PassThrough /\ ~active
    BY <2>3, <1>1, <1>2, <1>3 DEF VInv, HangoverLeft, Hangover, Monus
  <2> QED
    BY <2>1, <2>2, <2>3, <1>4
<1>9. quiet' > quiet => (lastVadSpeech' = (PassThrough \/ quiet < held))
  <2>1. SUFFICES ASSUME quiet' > quiet PROVE lastVadSpeech' = (PassThrough \/ quiet < held)
    OBVIOUS
  <2>2. ~active
    BY <2>1, <1>1, <1>3
  <2>3. lastVadSpeech' = speech
    BY <1>2 DEF Triggers
  <2>4. ~PassThrough => (hangoverSamplesRemaining > 0 <=> quiet < held)
    BY <1>1 DEF VInv, HangoverLeft, Monus
  <2> QED
    BY <2>2, <2>3, <2>4, <1>4, <1>6
<1>10. /\ vadTriggers' \in Nat /\ lastSpeech' = speech
       /\ vadTriggersTotal' \in Nat /\ lastVadSpeech' = speech
  BY <1>2, <1>4 DEF VInv, TypeOK, GateTypeOK, Triggers
<1>11. FramesAccounted' /\ frames' \in Nat
  <2>1. /\ frames \in Nat /\ frames' = frames + 1
        /\ frames = speechFramesSent + silenceDroppedFrames + lost
        /\ speechFramesSent \in Nat /\ silenceDroppedFrames \in Nat /\ lost \in Nat
    BY DEF Judge, VInv, TypeOK, GateTypeOK, FramesAccounted
  <2>2. frames' \in Nat
    BY <2>1
  <2>3. frames' = speechFramesSent' + silenceDroppedFrames' + lost'
    BY <2>1
  <2> QED
    BY <2>2, <2>3 DEF FramesAccounted
<1>12. /\ windowed' \in [Points -> 0..(Prime - 1)]
       /\ analyzed' \in [wave : [Points -> Nat], length : Nat]
  <2>1. CASE UNCHANGED <<windowed, analyzed>>
    BY <2>1 DEF VInv, TypeOK, GateTypeOK
  <2>2. CASE /\ windowed' = Windowed(sound.wave, n, windowed)
             /\ analyzed' = [wave |-> sound.wave, length |-> n]
    <3>1. sound.wave \in [Points -> Nat]
      BY DEF Assumptions, VoiceAssumption
    <3>2. Prime \in Nat \ {0} /\ \A m \in Points : Hann[m] \in 0..(Prime - 1)
      BY DEF Assumptions, SpectrumAssumption
    <3>3. \A m \in Points : (sound.wave[m] * Hann[m]) % Prime \in 0..(Prime - 1)
      <4> TAKE m \in Points
      <4>1. sound.wave[m] \in Nat /\ Hann[m] \in Nat
        BY <3>1, <3>2
      <4>2. sound.wave[m] * Hann[m] \in Nat
        BY <4>1, ProductNat
      <4> QED
        BY <3>2, <4>2, RemainderRange
    <3>4. 0 \in 0..(Prime - 1)
      BY <3>2
    <3> QED
      BY <2>2, <3>1, <3>3, <3>4, <1>1 DEF Windowed
  <2> QED
    BY <2>1, <2>2, <1>2 DEF Analyze
<1> QED
  BY <1>1, <1>4, <1>7, <1>8, <1>9, <1>10, <1>11, <1>12
     DEF VInv, TypeOK, GateTypeOK

-----------------------------------------------------------------------------
(* The steps *)

LEMMA StartsWell == Assumptions /\ Init => VInv
<1> SUFFICES ASSUME Assumptions, Init PROVE VInv
  OBVIOUS
<1>1. Accepted(config) /\ params = Initially(config)
  BY DEF Init, GateInit
<1>2. /\ config.CHUNK_DURATION_MS \in 10..200 /\ config.VAD_HANGOVER_MS \in 0..MaxHangoverMs
      /\ config.VAD_ENTROPY_THRESHOLD \in 0..320 /\ config.HIGH_WATER_MARK \in Nat \ {0}
  BY <1>1, SettingsTyped
<1>3. params \in Params /\ highWaterMark \in Nat \ {0}
  BY <1>1, <1>2 DEF Init, Initially, Params
<1>4. /\ queueDepth \in Nat /\ bufferOccupancyBytes \in Nat /\ updates \in Nat
      /\ rttSamples \in Seq(Nat) /\ Len(rttSamples) <= RttWindow
  BY DEF Init, Assumptions, AdaptiveAssumption
<1>5. windowed \in [Points -> 0..(Prime - 1)] /\ windowed \in [Points -> Nat]
  BY DEF Init, GateInit, Assumptions, SpectrumAssumption
<1>6. analyzed \in [wave : [Points -> Nat], length : Nat]
  BY <1>5 DEF Init, GateInit
<1>7. /\ hangoverMs = config.VAD_HANGOVER_MS
      /\ entropyThreshold = config.VAD_ENTROPY_THRESHOLD
      /\ hangoverSamplesRemaining = 0 /\ held = 0 /\ quiet = 0
      /\ vadTriggersTotal = 0 /\ vadTriggers = 0
      /\ speechFramesSent = 0 /\ silenceDroppedFrames = 0 /\ frames = 0 /\ lost = 0
  BY DEF Init, GateInit
<1>8. GateTypeOK
  <2>1. lastVadSpeech \in BOOLEAN /\ lastSpeech \in BOOLEAN
    BY DEF Init, GateInit
  <2> QED
    BY <1>1, <1>2, <1>5, <1>6, <1>7, <2>1 DEF GateTypeOK
<1>9. FramesAccounted
  BY <1>7 DEF FramesAccounted
<1>10. HangoverLeft
  BY <1>7 DEF HangoverLeft, Monus
<1> QED
  BY <1>3, <1>4, <1>8, <1>9, <1>10 DEF VInv, TypeOK

\* The rest of the state, in a step of the gate.
LEMMA LoopRests ==
  ASSUME VInv, UNCHANGED <<loadVars, loopVars>>, GateTypeOK'
  PROVE  TypeOK'
  BY DEF VInv, TypeOK, loadVars, loopVars

LEMMA ChunkStep ==
  ASSUME Assumptions, VInv, Chunk, UNCHANGED <<loadVars, loopVars>>
  PROVE  VInv' /\ (quiet' > quiet => (lastVadSpeech' = (PassThrough \/ quiet < held)))
<1>1. PICK sound \in Sounds, n \in ChunkSizes :
        DropSilence(sound, n) \/ Refuse(sound, n) \/ SendSpeech(sound, n)
        \/ LoseSpeech(sound, n)
  BY DEF Chunk
<1>2. speechFramesSent \in Nat /\ silenceDroppedFrames \in Nat /\ lost \in Nat
  BY DEF VInv, TypeOK, GateTypeOK
<1>3. /\ Judge(sound, n)
      /\ \/ silenceDroppedFrames' = silenceDroppedFrames + 1
            /\ UNCHANGED <<speechFramesSent, lost>>
         \/ speechFramesSent' = speechFramesSent + 1
            /\ UNCHANGED <<silenceDroppedFrames, lost>>
         \/ lost' = lost + 1
            /\ UNCHANGED <<speechFramesSent, silenceDroppedFrames>>
  BY <1>1 DEF DropSilence, Refuse, SendSpeech, LoseSpeech
<1>4. /\ speechFramesSent' + silenceDroppedFrames' + lost' =
            speechFramesSent + silenceDroppedFrames + lost + 1
      /\ speechFramesSent' \in Nat /\ silenceDroppedFrames' \in Nat /\ lost' \in Nat
  BY <1>2, <1>3
<1>5. /\ GateTypeOK' /\ FramesAccounted' /\ HangoverLeft'
      /\ quiet' > quiet => (lastVadSpeech' = (PassThrough \/ quiet < held))
  BY <1>3, <1>4, JudgeKeeps
<1> QED
  BY <1>5, LoopRests DEF VInv

LEMMA DropStep ==
  ASSUME VInv, DropMessage, UNCHANGED <<loadVars, loopVars>>
  PROVE  VInv' /\ quiet' = quiet
<1>1. /\ frames' = frames + 1 /\ silenceDroppedFrames' = silenceDroppedFrames + 1
      /\ UNCHANGED <<config, hangoverMs, entropyThreshold, hangoverSamplesRemaining,
                     windowed, analyzed, held, quiet, lastVadSpeech, vadTriggersTotal,
                     lastSpeech, vadTriggers, speechFramesSent, lost>>
  BY DEF DropMessage, vadVars, sessionVars
<1>2. /\ frames \in Nat /\ silenceDroppedFrames \in Nat
      /\ speechFramesSent \in Nat /\ lost \in Nat
      /\ frames = speechFramesSent + silenceDroppedFrames + lost
  BY DEF VInv, TypeOK, GateTypeOK, FramesAccounted
<1>3. FramesAccounted'
  BY <1>1, <1>2 DEF FramesAccounted
<1>4. GateTypeOK'
  BY <1>1, <1>2 DEF VInv, TypeOK, GateTypeOK
<1>5. HangoverLeft'
  BY <1>1 DEF VInv, HangoverLeft, PassThrough
<1> QED
  BY <1>1, <1>3, <1>4, <1>5, LoopRests DEF VInv

LEMMA LoadStep ==
  ASSUME Assumptions, VInv, MonitorTick \/ Ping
  PROVE  VInv' /\ UNCHANGED gateVars /\ UNCHANGED loopVars
<1>1. UNCHANGED gateVars /\ UNCHANGED loopVars
  BY DEF MonitorTick, Ping
<1>2. queueDepth' \in Nat /\ bufferOccupancyBytes' \in Nat
  BY DEF VInv, TypeOK, MonitorTick, Ping, Assumptions, AdaptiveAssumption
<1>3. rttSamples' \in Seq(Nat) /\ Len(rttSamples') <= RttWindow
  <2>1. CASE MonitorTick
    BY <2>1 DEF VInv, TypeOK, MonitorTick
  <2>2. CASE Ping
    <3>1. PICK rtt \in Rtts :
            rttSamples' = IF Len(Append(rttSamples, rtt)) > RttWindow
                          THEN Tail(Append(rttSamples, rtt)) ELSE Append(rttSamples, rtt)
      BY <2>2 DEF Ping
    <3>2. /\ rttSamples \in Seq(Nat) /\ Len(rttSamples) <= RttWindow
          /\ RttWindow \in Nat /\ rtt \in Nat
      BY DEF VInv, TypeOK, Assumptions, AdaptiveAssumption
    <3> QED
      BY <3>1, <3>2
  <2> QED
    BY <2>1, <2>2
<1> QED
  BY <1>1, <1>2, <1>3 DEF VInv, TypeOK, GateTypeOK, FramesAccounted,
     HangoverLeft, PassThrough, gateVars, vadVars, sessionVars, statVars, history, loopVars

LEMMA AdaptStep ==
  ASSUME VInv, AdaptiveTick
  PROVE  VInv' /\ quiet' = quiet
<1>1. Accepted(config) /\ params \in Params /\ updates \in Nat
  BY DEF VInv, TypeOK, GateTypeOK
<1>2. params' = Updated(config, params, Snapshot)
  BY DEF AdaptiveTick
<1>3. params' \in Params
  BY <1>1, <1>2, UpdateConverges
<1>4. /\ highWaterMark' \in Nat \ {0} /\ updates' \in Nat
      /\ hangoverMs' \in 0..MaxHangoverMs /\ entropyThreshold' \in 0..320
  BY <1>1, <1>3 DEF AdaptiveTick, TakeOver, Params
<1>5. UNCHANGED <<config, vadVars, sessionVars, statVars, history, loadVars>>
  BY DEF AdaptiveTick, TakeOver
<1> QED
  BY <1>3, <1>4, <1>5 DEF VInv, TypeOK, GateTypeOK, FramesAccounted,
     HangoverLeft, PassThrough, vadVars, sessionVars, statVars, history, loadVars

LEMMA Stutter ==
  ASSUME VInv, UNCHANGED vars
  PROVE  VInv'
  BY DEF VInv, TypeOK, GateTypeOK, FramesAccounted, HangoverLeft,
     PassThrough, vars, gateVars, vadVars, sessionVars, statVars, history, loadVars,
     loopVars

THEOREM Invariance == Spec => []VInv
<1>1. Assumptions
  BY VoiceAssumption, SpectrumAssumption, AdaptiveAssumption DEF Assumptions
<1>2. Init => VInv
  BY <1>1, StartsWell
<1>3. VInv /\ [Next]_vars => VInv'
  BY <1>1, ChunkStep, DropStep, LoadStep, AdaptStep, Stutter DEF Next, Hear
<1> QED
  BY <1>2, <1>3, PTL DEF Spec

-----------------------------------------------------------------------------
(* The theorems *)

\* Every reachable state is well typed, whatever is configured and heard
\* (gateway.ts 191-213, 333-379).
THEOREM TypeCorrect == Spec => []TypeOK
<1>1. VInv => TypeOK
  BY DEF VInv
<1> QED
  BY <1>1, Invariance, PTL

\* No chunk and no refused message is counted twice or not at all (gateway.ts
\* 285-289, 342-379).
THEOREM FramesAllCounted == Spec => []FramesAccounted
<1>1. VInv => FramesAccounted
  BY DEF VInv
<1> QED
  BY <1>1, Invariance, PTL

\* The hangover lasts to the sample, for every cut of the stream into chunks
\* and every hangover the adaptive loop sets meanwhile (vad-util.ts 115-134).
THEOREM HangoverExact == Spec => SilenceAfterHangover
<1>1. Assumptions
  BY VoiceAssumption, SpectrumAssumption, AdaptiveAssumption DEF Assumptions
<1>2. VInv /\ [Next]_vars =>
        [quiet' > quiet => (lastVadSpeech' = (PassThrough \/ quiet < held))]_gateVars
  <2> SUFFICES ASSUME VInv, [Next]_vars
               PROVE  [quiet' > quiet =>
                         (lastVadSpeech' = (PassThrough \/ quiet < held))]_gateVars
    OBVIOUS
  <2>1. quiet \in Nat
    BY DEF VInv, TypeOK, GateTypeOK
  <2>2. CASE Chunk /\ UNCHANGED <<loadVars, loopVars>>
    BY <1>1, <2>2, ChunkStep
  <2>3. CASE quiet' = quiet
    BY <2>1, <2>3
  <2>4. CASE UNCHANGED gateVars
    BY <2>4
  <2> QED
    BY <1>1, <2>2, <2>3, <2>4, DropStep, LoadStep, AdaptStep DEF Next, Hear, vars
<1> QED
  BY <1>2, Invariance, PTL DEF Spec, SilenceAfterHangover

\* Every adaptive parameter stays in its range or approaches it, for every
\* accepted configuration and every load (controller.ts 31-57).
THEOREM ParametersStayInRange == Spec => ParametersConverge
<1> DEFINE Moves ==
      /\ Toward(20, 100, params.chunkDurationMs, params'.chunkDurationMs)
      /\ Toward(AtMost(MarkFloor, config.MAX_BUFFERED_BYTES),
                AtLeast(MarkFloor, config.MAX_BUFFERED_BYTES),
                params.highWaterMark, params'.highWaterMark)
      /\ Toward(200, 600, params.vadHangoverMs, params'.vadHangoverMs)
      /\ Toward(120, 200, params.vadEntropyThreshold, params'.vadEntropyThreshold)
<1>1. VInv /\ [Next]_vars => [Moves]_vars
  <2> SUFFICES ASSUME VInv, [Next]_vars PROVE Moves
    OBVIOUS
  <2>1. Accepted(config) /\ params \in Params
    BY DEF VInv, TypeOK, GateTypeOK
  <2>2. CASE AdaptiveTick
    BY <2>1, <2>2, UpdateConverges DEF AdaptiveTick
  <2>3. CASE params' = params
    BY <2>1, <2>3, RestConverges
  <2> QED
    BY <2>2, <2>3 DEF Next, MonitorTick, Ping, loopVars, vars
<1> QED
  BY <1>1, Invariance, PTL DEF Spec, ParametersConverge

-----------------------------------------------------------------------------
(* The parameters over a whole session *)

\* Approaching twice is approaching.
LEMMA TowardAgain ==
  ASSUME NEW lo \in Int, NEW hi \in Int, NEW a \in Int, NEW b \in Int, NEW c \in Int,
         Toward(lo, hi, a, b), Toward(lo, hi, b, c)
  PROVE  Toward(lo, hi, a, c)
  BY DEF Toward, AtMost, AtLeast

\* From what was configured, all the way.
Tuned ==
    /\ Toward(20, 100, config.CHUNK_DURATION_MS, params.chunkDurationMs)
    /\ Toward(AtMost(MarkFloor, config.MAX_BUFFERED_BYTES),
              AtLeast(MarkFloor, config.MAX_BUFFERED_BYTES),
              config.HIGH_WATER_MARK, params.highWaterMark)
    /\ Toward(200, 600, config.VAD_HANGOVER_MS, params.vadHangoverMs)
    /\ Toward(120, 200, config.VAD_ENTROPY_THRESHOLD, params.vadEntropyThreshold)

\* The session runs on what the controller holds.
Adopted ==
    /\ highWaterMark = params.highWaterMark
    /\ hangoverMs = params.vadHangoverMs
    /\ entropyThreshold = params.vadEntropyThreshold

LEMMA MarkRange ==
  ASSUME NEW c, Accepted(c)
  PROVE  /\ AtMost(MarkFloor, c.MAX_BUFFERED_BYTES) \in Int
         /\ AtLeast(MarkFloor, c.MAX_BUFFERED_BYTES) \in Int
         /\ AtLeast(c.HIGH_WATER_MARK, AtLeast(MarkFloor, c.MAX_BUFFERED_BYTES)) =
              AtLeast(MarkFloor, c.MAX_BUFFERED_BYTES)
<1>1. /\ c.MAX_BUFFERED_BYTES \in Nat /\ c.HIGH_WATER_MARK \in Nat
      /\ c.HIGH_WATER_MARK <= c.MAX_BUFFERED_BYTES
  BY SettingsTyped DEF Accepted, Coherent
<1> QED
  BY <1>1 DEF AtMost, AtLeast, MarkFloor

LEMMA TunedStep ==
  ASSUME VInv, Tuned, AdaptiveTick
  PROVE  Tuned'
<1>1. /\ Accepted(config) /\ params \in Params /\ config' = config
      /\ params' = Updated(config, params, Snapshot)
  BY DEF VInv, TypeOK, GateTypeOK, AdaptiveTick, TakeOver
<1>2. PICK q \in Params :
        /\ params' = q
        /\ Toward(20, 100, params.chunkDurationMs, q.chunkDurationMs)
        /\ Toward(AtMost(MarkFloor, config.MAX_BUFFERED_BYTES),
                  AtLeast(MarkFloor, config.MAX_BUFFERED_BYTES),
                  params.highWaterMark, q.highWaterMark)
        /\ Toward(200, 600, params.vadHangoverMs, q.vadHangoverMs)
        /\ Toward(120, 200, params.vadEntropyThreshold, q.vadEntropyThreshold)
  BY <1>1, UpdateConverges
<1>3. ASSUME NEW p \in Params
      PROVE  /\ p.chunkDurationMs \in Int /\ p.highWaterMark \in Int
             /\ p.vadHangoverMs \in Int /\ p.vadEntropyThreshold \in Int
  <2>1. /\ p.chunkDurationMs \in 10..200 /\ p.highWaterMark \in Nat
        /\ p.vadHangoverMs \in 0..MaxHangoverMs /\ p.vadEntropyThreshold \in 0..320
    BY DEF Params
  <2> QED
    BY <2>1, HangoverBound
<1>4. /\ config.CHUNK_DURATION_MS \in Int /\ config.HIGH_WATER_MARK \in Int
      /\ config.VAD_HANGOVER_MS \in Int /\ config.VAD_ENTROPY_THRESHOLD \in Int
  <2>1. /\ config.CHUNK_DURATION_MS \in Nat /\ config.HIGH_WATER_MARK \in Nat
        /\ config.VAD_HANGOVER_MS \in 0..MaxHangoverMs
        /\ config.VAD_ENTROPY_THRESHOLD \in 0..320
    BY <1>1, SettingsTyped
  <2> QED
    BY <2>1, HangoverBound
<1>5. Toward(20, 100, config.CHUNK_DURATION_MS, q.chunkDurationMs)
  BY <1>1, <1>2, <1>3, <1>4, TowardAgain DEF Tuned
<1>6. Toward(AtMost(MarkFloor, config.MAX_BUFFERED_BYTES),
             AtLeast(MarkFloor, config.MAX_BUFFERED_BYTES),
             config.HIGH_WATER_MARK, q.highWaterMark)
  BY <1>1, <1>2, <1>3, <1>4, MarkRange, TowardAgain DEF Tuned
<1>7. Toward(200, 600, config.VAD_HANGOVER_MS, q.vadHangoverMs)
  BY <1>1, <1>2, <1>3, <1>4, TowardAgain DEF Tuned
<1>8. Toward(120, 200, config.VAD_ENTROPY_THRESHOLD, q.vadEntropyThreshold)
  BY <1>1, <1>2, <1>3, <1>4, TowardAgain DEF Tuned
<1> QED
  BY <1>1, <1>2, <1>5, <1>6, <1>7, <1>8 DEF Tuned

LEMMA TuningKept == Spec => [](Tuned /\ Adopted)
<1>1. Assumptions
  BY VoiceAssumption, SpectrumAssumption, AdaptiveAssumption DEF Assumptions
<1>2. Init => Tuned /\ Adopted
  <2> SUFFICES ASSUME Init PROVE Tuned /\ Adopted
    OBVIOUS
  <2>1. /\ params = Initially(config) /\ Accepted(config)
        /\ highWaterMark = config.HIGH_WATER_MARK /\ hangoverMs = config.VAD_HANGOVER_MS
        /\ entropyThreshold = config.VAD_ENTROPY_THRESHOLD
    BY DEF Init, GateInit
  <2>2. params \in Params
    BY <1>1, StartsWell DEF VInv, TypeOK
  <2>3. /\ params.chunkDurationMs = config.CHUNK_DURATION_MS
        /\ params.highWaterMark = config.HIGH_WATER_MARK
        /\ params.vadHangoverMs = config.VAD_HANGOVER_MS
        /\ params.vadEntropyThreshold = config.VAD_ENTROPY_THRESHOLD
    BY <2>1 DEF Initially
  <2> QED
    BY <2>1, <2>2, <2>3, RestConverges DEF Tuned, Adopted
<1>3. VInv /\ Tuned /\ Adopted /\ [Next]_vars => (Tuned /\ Adopted)'
  <2> SUFFICES ASSUME VInv, Tuned, Adopted, [Next]_vars PROVE Tuned' /\ Adopted'
    OBVIOUS
  <2>1. CASE AdaptiveTick
    BY <2>1, TunedStep DEF AdaptiveTick, TakeOver, Adopted
  <2>2. CASE UNCHANGED <<config, params, highWaterMark, hangoverMs, entropyThreshold>>
    BY <2>2 DEF Tuned, Adopted
  <2>3. \/ AdaptiveTick
        \/ UNCHANGED <<config, params, highWaterMark, hangoverMs, entropyThreshold>>
    BY DEF Next, Hear, Chunk, DropSilence, Refuse, SendSpeech, LoseSpeech, Judge,
       DropMessage, MonitorTick, Ping, gateVars, loopVars, vars
  <2> QED
    BY <2>1, <2>2, <2>3
<1> QED
  BY <1>2, <1>3, Invariance, PTL DEF Spec

\* At no time of a session is a parameter outside its range and what was
\* configured for it, and the gate and the mark run on what the controller
\* holds (controller.ts 17-57, gateway.ts 199-213).
THEOREM ParametersNeverStray == Spec => [](Tuned /\ Adopted)
  BY TuningKept

\* The loop keeps the order the configuration asks of its two limits, the mark
\* below MAX_BUFFERED_BYTES, unless the floor of its low-latency branch is
\* above it (config.ts 98-104, controller.ts 38-46, gateway.ts 199-213).
THEOREM MarkStaysBelowLimit ==
    Spec => [](highWaterMark <= AtLeast(MarkFloor, config.MAX_BUFFERED_BYTES))
<1>1. VInv /\ Tuned /\ Adopted => highWaterMark <= AtLeast(MarkFloor, config.MAX_BUFFERED_BYTES)
  BY MarkRange, Zenon DEF VInv, TypeOK, GateTypeOK, Tuned, Adopted, Toward
<1> QED
  BY <1>1, TuningKept, Invariance, PTL

-----------------------------------------------------------------------------
(* The workspace *)

\* What is in the workspace is the windowed frame analyzed last, zero beyond
\* its end.
Fresh ==
    windowed = [m \in Points |->
                  IF m < analyzed.length THEN (analyzed.wave[m] * Hann[m]) % Prime ELSE 0]

\* The frames of a session share one workspace, and none leaves anything in it
\* for the next, whichever of them are analyzed and however short they are
\* (vad-util.ts 161-187).
THEOREM WorkspaceIsFresh == Spec => []Fresh
<1>1. Init => Fresh
  <2> SUFFICES ASSUME Init PROVE Fresh
    OBVIOUS
  <2>1. windowed = [m \in Points |-> 0] /\ analyzed.length = 0
    BY DEF Init, GateInit
  <2>2. \A m \in Points : ~ (m < 0)
    BY DEF Points
  <2> QED
    BY <2>1, <2>2 DEF Fresh
<1>2. Fresh /\ [Next]_vars => Fresh'
  <2> SUFFICES ASSUME Fresh, [Next]_vars PROVE Fresh'
    OBVIOUS
  <2>1. ASSUME NEW sound, NEW n, Analyze(sound, n) PROVE Fresh'
    <3>1. CASE UNCHANGED <<windowed, analyzed>>
      BY <3>1 DEF Fresh
    <3>2. CASE /\ windowed' = Windowed(sound.wave, n, windowed)
               /\ analyzed' = [wave |-> sound.wave, length |-> n]
      BY <3>2 DEF Fresh, Windowed
    <3> QED
      BY <2>1, <3>1, <3>2 DEF Analyze
  <2>2. CASE Chunk
    BY <2>1, <2>2 DEF Chunk, DropSilence, Refuse, SendSpeech, LoseSpeech, Judge
  <2>3. CASE UNCHANGED <<windowed, analyzed>>
    BY <2>3 DEF Fresh
  <2>4. Chunk \/ UNCHANGED <<windowed, analyzed>>
    BY DEF Next, Hear, DropMessage, MonitorTick, Ping, AdaptiveTick, TakeOver, gateVars,
       vadVars, vars
  <2> QED
    BY <2>2, <2>3, <2>4
<1> QED
  BY <1>1, <1>2, PTL DEF Spec

\* What the FFT is to compute: of each frame, as the workspace holds it, the
\* discrete transform.  A statement about the constants alone.
TransformExact ==
    \A wave \in [Points -> Nat], n \in Nat :
        Analyzed([m \in Points |-> IF m < n THEN (wave[m] * Hann[m]) % Prime ELSE 0])
            = Dft(wave, n)

\* An FFT that transforms single frames correctly makes the gate see the right
\* spectrum in every session (vad-util.ts 161-187, 241-280).
THEOREM SpectrumFollows == TransformExact => (Spec => []SpectrumOfChunk)
<1> SUFFICES ASSUME TransformExact PROVE Spec => []SpectrumOfChunk
  OBVIOUS
<1>1. VInv /\ Fresh => SpectrumOfChunk
  <2> SUFFICES ASSUME VInv, Fresh PROVE SpectrumOfChunk
    OBVIOUS
  <2>1. analyzed.wave \in [Points -> Nat] /\ analyzed.length \in Nat
    BY DEF VInv, TypeOK, GateTypeOK
  <2> QED
    BY <2>1 DEF TransformExact, Fresh, SpectrumOfChunk
<1> QED
  BY <1>1, WorkspaceIsFresh, Invariance, PTL

=============================================================================
