---------------------------- MODULE GatewayConfig ----------------------------
(***************************************************************************)
(* What bootConfig() lets through (src/config.ts): the settings the models *)
(* look at, the ranges of the schema, and the conditions between settings. *)
(* A process whose environment is not Accepted exits before it listens;    *)
(* one that is keeps its settings for life, frozen.                        *)
(*                                                                         *)
(* An API key is told apart by what the conditions ask of it: "none",      *)
(* "short" (less than 8 characters), "sk-", "sk-ant-" (8 or more, with     *)
(* that prefix) or "long".  Thresholds of the entropy gate are in          *)
(* twentieths of a bit.                                                    *)
(***************************************************************************)
EXTENDS Integers

Providers == {"anthropic", "openai", "gemini", "deepgram", "mock"}

\* The longest VAD_HANGOVER_MS.
MaxHangoverMs == 5000

\* The defaults of the schema: PROVIDER=anthropic, and no key.
Defaults == [
    PROVIDER |-> "anthropic", API_KEY |-> "none",
    ADAPTIVE_STREAMING |-> TRUE,
    VAD_ENGINE |-> "spectral-entropy", AUDIO_FORMAT |-> "pcm16",
    SAMPLE_RATE |-> 24000, CHUNK_DURATION_MS |-> 40,
    VAD_ENTROPY_THRESHOLD |-> 150, VAD_HANGOVER_MS |-> 400,
    HIGH_WATER_MARK |-> 262144, MAX_BUFFERED_BYTES |-> 1048576,
    RATE_LIMIT_BASE_DELAY_MS |-> 500, RATE_LIMIT_MAX_DELAY_MS |-> 30000,
    AUTH_REQUIRED |-> FALSE, AUTH_JWT_SECRET |-> FALSE]

\* z.coerce.number() and the enumerations, setting by setting.
InRange(c) ==
    /\ c.PROVIDER \in Providers
    /\ c.API_KEY \in {"none", "short", "sk-", "sk-ant-", "long"}
    /\ c.ADAPTIVE_STREAMING \in BOOLEAN
    /\ c.AUTH_REQUIRED \in BOOLEAN /\ c.AUTH_JWT_SECRET \in BOOLEAN
    /\ c.VAD_ENGINE \in STRING /\ c.AUDIO_FORMAT \in {"pcm16", "opus"}
    /\ c.SAMPLE_RATE \in Nat \ {0}
    /\ c.CHUNK_DURATION_MS \in 10..200
    /\ c.VAD_ENTROPY_THRESHOLD \in 0..320
    /\ c.VAD_HANGOVER_MS \in 0..MaxHangoverMs
    /\ c.HIGH_WATER_MARK \in Nat \ {0} /\ c.MAX_BUFFERED_BYTES \in Nat \ {0}
    /\ c.RATE_LIMIT_BASE_DELAY_MS \in Nat \ {0}
    /\ c.RATE_LIMIT_MAX_DELAY_MS \in Nat \ {0}

\* The keys each provider is started with; the mock takes any.
Keys == [anthropic |-> {"sk-ant-"},
         openai    |-> {"sk-", "sk-ant-"},
         gemini    |-> {"sk-", "sk-ant-", "long"},
         deepgram  |-> {"sk-", "sk-ant-", "long"},
         mock      |-> {"none", "short", "sk-", "sk-ant-", "long"}]

\* superRefine().
Coherent(c) ==
    /\ c.RATE_LIMIT_BASE_DELAY_MS <= c.RATE_LIMIT_MAX_DELAY_MS
    /\ c.HIGH_WATER_MARK <= c.MAX_BUFFERED_BYTES
    /\ c.AUTH_REQUIRED => c.AUTH_JWT_SECRET
    /\ c.API_KEY \in Keys[c.PROVIDER]

Accepted(c) == InRange(c) /\ Coherent(c)

=============================================================================
