------------------------------ MODULE VoiceGate ------------------------------
(***************************************************************************)
(* The voice gate of a session: the verdict of src/vad-util.ts with its    *)
(* hangover, behind the engines of src/vad, the two trigger counters fed   *)
(* from it (src/gateway.ts and src/session/stats.ts), and the fate of      *)
(* every chunk it lets through or drops, as the statistics record it.      *)
(*                                                                         *)
(* A chunk is its length in samples, the first samples of it and the three *)
(* levels computed from them, the last two by way of Spectrum.  The        *)
(* session's hangoverMs and entropyThreshold may change between any two    *)
(* chunks; AdaptiveVoice says how.  Neither a commit nor a clear of the    *)
(* input buffer touches the gate.                                          *)
(***************************************************************************)
EXTENDS GatewayConfig, Spectrum

CONSTANTS
    Configs,        \* environments the process may be started with
    Sounds,         \* chunks, as [wave, energy, entropy, highBandRatio]
    EnergyFloor,    \* config.VAD_ENERGY_FLOOR, in the unit of `energy'
    FricativeRatio, \* config.VAD_FRICATIVE_RATIO, in that of `highBandRatio'
    FlushSizes,     \* samples a flush may leave for its last chunk
    MaxFrames       \* bound: chunks and dropped messages

ASSUME VoiceAssumption ==
    /\ \E c \in Configs : Accepted(c)
    /\ \A sound \in Sounds : /\ sound.wave \in [Points -> Nat]
                             /\ sound.energy \in Nat /\ sound.entropy \in Nat
                             /\ sound.highBandRatio \in Nat
    /\ EnergyFloor \in Nat /\ FricativeRatio \in Nat
    /\ FlushSizes \subseteq Nat \ {0}
    /\ MaxFrames \in Nat

VARIABLES
    config,                     \* the frozen settings
    hangoverMs,                 \* GatewaySession
    entropyThreshold,           \* GatewaySession, in twentieths of a bit
    hangoverSamplesRemaining,   \* VadState
    windowed,                   \* VadWorkspace
    lastVadSpeech,              \* GatewaySession: the verdict before
    vadTriggersTotal,           \* ... and the metric it counts
    lastSpeech, vadTriggers,    \* SessionStats: the same, kept apart
    speechFramesSent,           \* SessionStats
    silenceDroppedFrames,       \* SessionStats
    frames,                     \* history: chunks and dropped messages seen
    lost,                       \* history: chunks no open connection took
    analyzed,                   \* history: the chunk analyzed last
    held,                       \* history: the hangover at the last detection
    quiet                       \* history: samples without detection since then

sessionVars == <<lastVadSpeech, vadTriggersTotal>>
statVars == <<lastSpeech, vadTriggers, speechFramesSent, silenceDroppedFrames>>
vadVars == <<hangoverSamplesRemaining, windowed, analyzed, held, quiet>>
history == <<frames, lost>>
gateVars == <<config, hangoverMs, entropyThreshold, vadVars, sessionVars, statVars,
              history>>

GateInit ==
    /\ config \in {c \in Configs : Accepted(c)}
    /\ hangoverMs = config.VAD_HANGOVER_MS
    /\ entropyThreshold = config.VAD_ENTROPY_THRESHOLD
    /\ hangoverSamplesRemaining = 0
    /\ lastVadSpeech = FALSE /\ vadTriggersTotal = 0
    /\ lastSpeech = FALSE /\ vadTriggers = 0
    /\ speechFramesSent = 0 /\ silenceDroppedFrames = 0
    /\ frames = 0 /\ lost = 0
    /\ held = 0 /\ quiet = 0
    /\ windowed = [m \in Points |-> 0] /\ analyzed = [wave |-> windowed, length |-> 0]

-----------------------------------------------------------------------------
(* The verdict *)

\* samplesPerChunk of the AudioProcessor, whose duration is never adapted.
WholeChunk == LET n == (config.SAMPLE_RATE * config.CHUNK_DURATION_MS) \div 1000
              IN  IF n < 1 THEN 1 ELSE n

ChunkSizes == {WholeChunk} \cup {n \in FlushSizes : n < WholeChunk}

\* The passthrough engine, and opus, take everything for speech and keep no
\* state.  getVadEngine() takes any other name for spectral-entropy.
PassThrough == config.VAD_ENGINE = "passthrough" \/ config.AUDIO_FORMAT = "opus"

\* A frame this quiet, or a gate without entropy, needs no analysis.
NeedsAnalysis(sound) == sound.energy >= EnergyFloor /\ entropyThreshold > 0

\* detectSpeechFrame().  The last disjunct is the fricative rescue.
Detected(sound) ==
    /\ sound.energy >= EnergyFloor
    /\ \/ entropyThreshold <= 0
       \/ sound.entropy <= entropyThreshold
       \/ sound.highBandRatio >= FricativeRatio /\ 2 * sound.energy >= EnergyFloor

\* ... and what it leaves in the workspace.
Analyze(sound, n) ==
    IF NeedsAnalysis(sound) /\ ~PassThrough
    THEN /\ windowed' = Windowed(sound.wave, n, windowed)
         /\ analyzed' = [wave |-> sound.wave, length |-> n]
    ELSE UNCHANGED <<windowed, analyzed>>

\* Taken exactly: the code rounds a floating-point product down, which may leave
\* one sample less (290 ms at 24000 Hz).
HangoverSamples == (hangoverMs * config.SAMPLE_RATE) \div 1000

Monus(a, b) == IF a > b THEN a - b ELSE 0

\* isSpeech(): the verdict on a chunk of n samples.
IsSpeech(active, n) == PassThrough \/ active \/ hangoverSamplesRemaining > 0

\* Mutant: the count is not clamped at zero.
HangoverUnclamped(active, n) ==
    hangoverSamplesRemaining' =
        IF PassThrough THEN hangoverSamplesRemaining
        ELSE IF active THEN HangoverSamples ELSE hangoverSamplesRemaining - n

\* Mutant: a hangover never runs down.
HangoverKept(active, n) ==
    hangoverSamplesRemaining' =
        IF PassThrough \/ ~active THEN hangoverSamplesRemaining ELSE HangoverSamples

\* ... and what it does to the hangover.
Hangover(active, n) ==
    hangoverSamplesRemaining' =
        IF PassThrough THEN hangoverSamplesRemaining
        ELSE IF active THEN HangoverSamples ELSE Monus(hangoverSamplesRemaining, n)

\* stats.recordVad() and the session's own edge detection.
Triggers(speech) ==
    /\ vadTriggers' = vadTriggers + (IF speech /\ ~lastSpeech THEN 1 ELSE 0)
    /\ lastSpeech' = speech
    /\ vadTriggersTotal' = vadTriggersTotal + (IF speech /\ ~lastVadSpeech THEN 1 ELSE 0)
    /\ lastVadSpeech' = speech

\* What every chunk goes through before its fate is decided.
Judge(sound, n) ==
    LET active == Detected(sound)
    IN  /\ frames < MaxFrames /\ frames' = frames + 1
        /\ Analyze(sound, n)
        /\ Hangover(active, n)
        /\ Triggers(IsSpeech(active, n))
        /\ held' = IF active THEN HangoverSamples ELSE held
        /\ quiet' = IF active THEN 0 ELSE quiet + n
        /\ UNCHANGED <<config, hangoverMs, entropyThreshold>>

Speech(sound, n) == IsSpeech(Detected(sound), n)

\* A silent chunk.
DropSilence(sound, n) ==
    /\ ~Speech(sound, n)
    /\ Judge(sound, n)
    /\ silenceDroppedFrames' = silenceDroppedFrames + 1
    /\ UNCHANGED <<speechFramesSent, lost>>

\* Mutant: a refused chunk is counted as sent as well.
RefuseCounted(sound, n) ==
    /\ Speech(sound, n)
    /\ Judge(sound, n)
    /\ silenceDroppedFrames' = silenceDroppedFrames + 1
    /\ speechFramesSent' = speechFramesSent + 1
    /\ UNCHANGED lost

\* Speech under backpressure, which counts as dropped silence.
Refuse(sound, n) ==
    /\ Speech(sound, n)
    /\ Judge(sound, n)
    /\ silenceDroppedFrames' = silenceDroppedFrames + 1
    /\ UNCHANGED <<speechFramesSent, lost>>

\* Speech that reaches the provider.
SendSpeech(sound, n) ==
    /\ Speech(sound, n)
    /\ Judge(sound, n)
    /\ speechFramesSent' = speechFramesSent + 1
    /\ UNCHANGED <<silenceDroppedFrames, lost>>

\* Speech there is no open connection for: nothing records it.
LoseSpeech(sound, n) ==
    /\ Speech(sound, n)
    /\ Judge(sound, n)
    /\ lost' = lost + 1
    /\ UNCHANGED <<speechFramesSent, silenceDroppedFrames>>

\* An audio message while the client is paused: one drop, whatever it held.
DropMessage ==
    /\ frames < MaxFrames /\ frames' = frames + 1
    /\ silenceDroppedFrames' = silenceDroppedFrames + 1
    /\ UNCHANGED <<config, hangoverMs, entropyThreshold, vadVars, sessionVars,
                   lastSpeech, vadTriggers, speechFramesSent, lost>>

\* The session takes over new parameters; the running hangover is not touched.
TakeOver(ms, threshold) ==
    /\ hangoverMs' = ms
    /\ entropyThreshold' = threshold
    /\ UNCHANGED <<config, vadVars, sessionVars, statVars, history>>

Chunk ==
    \E sound \in Sounds, n \in ChunkSizes :
        DropSilence(sound, n) \/ Refuse(sound, n) \/ SendSpeech(sound, n)
        \/ LoseSpeech(sound, n)

-----------------------------------------------------------------------------
(* Properties *)

GateTypeOK ==
    /\ Accepted(config)
    /\ hangoverMs \in 0..MaxHangoverMs /\ entropyThreshold \in 0..320
    /\ hangoverSamplesRemaining \in Nat
    /\ lastVadSpeech \in BOOLEAN /\ vadTriggersTotal \in Nat
    /\ lastSpeech \in BOOLEAN /\ vadTriggers \in Nat
    /\ speechFramesSent \in Nat /\ silenceDroppedFrames \in Nat
    /\ frames \in Nat /\ lost \in Nat
    /\ held \in Nat /\ quiet \in Nat
    /\ windowed \in [Points -> 0..(Prime - 1)]
    /\ analyzed \in [wave : [Points -> Nat], length : Nat]

\* A chunk is taken for silence exactly when nothing is detected in it and the
\* chunks since the last detection have used up the hangover that was in force
\* then, whatever their sizes and whatever the adaptive loop has set since:
\* "keep reporting speech this many ms after last positive detection"
\* (vad-util.ts 20-21, 115-134).
SilenceAfterHangover ==
    [][quiet' > quiet => (lastVadSpeech' = (PassThrough \/ quiet < held))]_gateVars

\* Every chunk and every refused message is counted once, but for the chunks
\* no connection took (gateway.ts 285-289, 342-379).
FramesAccounted == frames = speechFramesSent + silenceDroppedFrames + lost

\* What the gate looks at is the spectrum of the chunk it judges, shorter or
\* longer than the transform, and of no chunk that was analyzed in the same
\* workspace before it (vad-util.ts 161-187, 241-280).
SpectrumOfChunk == Analyzed(windowed) = Dft(analyzed.wave, analyzed.length)

=============================================================================
