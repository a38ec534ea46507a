----------------------------- MODULE MCVoiceGate -----------------------------
(* AdaptiveVoice for TLC. *)
EXTENDS AdaptiveVoice

\* 100 samples a second: a chunk of 200 ms is 20 samples, and so is the hangover,
\* which the chunk after a detection uses up to the last.
MCBase == [Defaults EXCEPT !.PROVIDER = "mock", !.SAMPLE_RATE = 100,
                           !.CHUNK_DURATION_MS = 200, !.VAD_HANGOVER_MS = 200]

\* Marks and voice settings below, in and above the ranges of the controller;
\* the last two are not accepted.
MCConfigs == {
    MCBase,
    [MCBase EXCEPT !.HIGH_WATER_MARK = 30000, !.MAX_BUFFERED_BYTES = 40000,
                   !.CHUNK_DURATION_MS = 10, !.VAD_HANGOVER_MS = 10,
                   !.VAD_ENTROPY_THRESHOLD = 0],
    [MCBase EXCEPT !.HIGH_WATER_MARK = 60000, !.MAX_BUFFERED_BYTES = 70000,
                   !.VAD_HANGOVER_MS = 650, !.VAD_ENTROPY_THRESHOLD = 320],
    [MCBase EXCEPT !.ADAPTIVE_STREAMING = FALSE, !.AUDIO_FORMAT = "opus"],
    [MCBase EXCEPT !.VAD_ENGINE = "passthrough"],
    [MCBase EXCEPT !.HIGH_WATER_MARK = 80000, !.MAX_BUFFERED_BYTES = 70000],
    [MCBase EXCEPT !.VAD_HANGOVER_MS = 6000]}

\* Too quiet, tonal, noise, a fricative.
MCSound(wave, energy, entropy, ratio) ==
    [wave |-> [m \in 0..7 |-> wave[m + 1]], energy |-> energy, entropy |-> entropy,
     highBandRatio |-> ratio]
MCSounds == {MCSound(<<0, 0, 0, 0, 0, 0, 0, 0>>, 9, 100, 9),
             MCSound(<<0, 1, 2, 3, 3, 2, 1, 0>>, 30, 149, 5),
             MCSound(<<1, 0, 0, 4, 2, 5, 6, 3>>, 30, 170, 5),
             MCSound(<<0, 0, 1, 0, 6, 0, 1, 3>>, 30, 170, 20)}

MCLoads == {[depth |-> 0, bytes |-> 0], [depth |-> 9, bytes |-> 0],
            [depth |-> 0, bytes |-> 300000]}

\* A field of seven numbers: 3 is the root of 2, 5 is that of 1/2.
MCCosOf == 2 :> 6 @@ 4 :> 0 @@ 8 :> 5
MCSinOf == 2 :> 0 @@ 4 :> 1 @@ 8 :> 5
MCHann == [n \in 0..7 |-> <<0, 1, 3, 5, 5, 3, 1, 2>>[n + 1]]

=============================================================================
