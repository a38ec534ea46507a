# Verification of the audio gateway

TLA+ models of the gateway in `src/src`, TLC runs of them on small instances and
TLAPS proofs about them for every size. The gateway relays audio from browser
WebSockets to a real-time provider (Anthropic, OpenAI, Gemini, Deepgram or a
mock): it chunks the audio, drops silence, stops a client that is faster than
the provider, backs off when the provider says 429, and admits clients under
per-subject quotas.

## Inventory

The program is one Node process. Nothing is persisted and there is one thread,
so a callback runs to completion; what interleaves is callbacks: socket events
of the client and of the provider, timers, the continuations of `await`.

| Part | State it keeps | Operations | What makes it correct |
| --- | --- | --- | --- |
| `gateway.ts` GatewaySession | `closed`, `clientPaused`, `circuitOpen`, `bufferedBytes`, `highWaterMark`, backoff attempts and timer, two intervals, the connection | `start`, `close`, client messages, forward, pause/resume/evaluate, rate limit, monitor, adaptive tick, relaying | views of the pause agree; backlog bounded; a paused client is resumed; `close` is final and leaves nothing; what the client is told is in order |
| `backpressure.ts` | none | `shouldPause`, `shouldResume` | - |
| `audio-processor.ts` | ring, read/write positions, pool of 32 buffers, pool index | `push`, `flush`, `reset` | audio in order, complete unless the ring overflows, never overwritten before it is read |
| `vad-util.ts`, `vad/` | remaining hangover, FFT workspace | `isSpeech` | the hangover lasts as the last detection calls for; the spectrum is that of the chunk |
| `session/stats.ts` | counters, last verdict, queue, round-trip samples | `record*`, `snapshot` | counts agree with what happened |
| `adaptive/controller.ts` | mark, hangover, threshold, chunk size | `update` | parameters stay in their ranges, or move into them |
| `auth.ts` | per subject: rate window, session count | `allowConnect`, `release` | quota and rate hold, and are given back |
| `server.ts` | the two WebSocket servers | upgrade, connection, close, failed start, `close()` | every session is known and released once |
| `session/manager.ts` | map of sessions | `add`, `remove`, `closeAll`, `aggregate` | holds exactly the sessions that live |
| `webrtc/ingress.ts` | - (per socket: offer seen) | offer, close, failed start | as for `server.ts` |
| `index.ts` | `shuttingDown` | signals, forced exit | the drain ends |
| `providers/*` | ws socket, handler, `pendingBytes` | `connect`, `send*`, `bufferedAmount`, `close` | the load reported is that of the frames still held |
| `plugins/registry.ts` | map of plugins | `register`, `startAll`, `endAll`, `processFrame` | a sweep reaches every plugin once; which plugins are ended without a start |
| `config.ts` | environment | parse, freeze | only coherent settings start a process |
| `metrics/` | counters, a gauge | count | the gauge is the number of sessions |

How they interact: `server.ts` authenticates an upgrade, creates a
GatewaySession, adds it to the SessionManager and calls `start()`; the session
awaits the plugins, binds to the client's socket, awaits the provider's
`connect()`, and from then on is driven by callbacks. A client message goes
through the AudioProcessor, each chunk through the VAD, then through an
object-mode Transform to `connection.sendAudioAppend`. `connection.bufferedAmount()`
feeds back into the pause decision. The adaptive loop reads SessionStats once a
second and sets the mark and the hangover.

What is hard: the two awaits of `start()` with a `close()` between them; five
callbacks that pause and resume the same client; a backoff timer that races
them; a paused socket that does not see its peer leave; one message that
becomes many chunks; buffers reused before they are read; a live Map walked
with an await in the loop; the turn between a provider's 'open' and its
handlers; a feedback loop from what the gate drops to what it drops next; a
quota released on two paths. PROJECT.json lists each hazard with its line and
the properties that watch it, or the reason why none does.

## Modules

Three levels: promises, the session, and its parts.

* **BackpressureContract** - the promise of the gate: audio flows, is paused or
  has ended (`flow`), bytes accepted and not yet taken (`backlog`), the mark in
  force. Audio is accepted only with room, acceptance that reaches the mark
  pauses in the same step, and only room resumes.
* **SessionLife** - the promise of a session to everybody around it: where
  `start()` is, `closed`, and the client's socket, which ends with it.
  `GatewaySession` and `SessionStart` implement it from the inside, each
  connection of `Admission` from the outside, so that the session `Admission`
  reduces to three variables is one the other two can be. Whether the handlers
  of the client are bound before anything else can run is left open.
* **GatewaySession** - the core. One action per callback. `gate` holds the five
  pieces of state pausing touches (the two flags, `bufferedBytes`, whether the
  socket is read, the last event the client got), so that `PauseClient`,
  `ResumeClient` and `EvaluateBackpressure` are functions of it, composed in the
  order the code calls them. `pc` is the await `start()` is in. A message that
  yields several chunks is taken one chunk per step; `chunks`, `commitAfter` and
  `needDrain` keep other callbacks out meanwhile (`Idle`). The provider is the
  ws socket behind the adapters, with its buffered bytes split in audio and
  control; the client is its socket state and whether the peer has left.
* **SessionStart**, over **PluginRegistry** and **ProviderLink** - the same
  session's start and end, between its plugins, its provider and its client.
  - `PluginRegistry`: the Map is its list of entries, with holes where one was
    removed; a sweep (`startAll()` or `endAll()`) is the entry it is at and the
    hooks it has called, and awaits each of them while plugins come and go.
  - `ProviderLink`: the five adapters are records of what they differ in (what
    they send, what they count, whether there is a socket and a hello). `opened`
    is the turn between 'open' and the handlers. What a frame becomes on the way
    to the session is `Heard`.
  - `SessionStart`: `told` is the list of events the client was sent, pongs
    included; those about pauses and the end of a backoff are left to
    `GatewaySession`. A client may ping as soon as its handlers are bound, and is
    answered while `connect()` is still pending.
* **AudioQueue** - the promise of the audio path to its consumer: a queue of
  samples that drops its oldest one when it is full, of which the consumer takes
  the next, a chunk at most at a time, or has all forgotten.
* **AudioProcessor** - ring, chunker, pool and the loop that consumes them. A
  sample is its position in the stream, so order and loss are visible.
* **GatewayConfig** - the settings the models look at, and which of them
  `bootConfig()` accepts.
* **Spectrum** - window, workspace and in-place FFT, over a finite field, beside
  the sum they are meant to compute (`Dft`).
* **VoiceGate**, over both - the engines, the verdict, the hangover, the
  trigger counters and the four fates of a chunk.
* **AdaptiveController** - the update rule as a function; **AdaptiveVoice**
  closes it with VoiceGate and the statistics into the loop the session runs.
* **Admission** - quotas with their clock, both connection paths, the registry,
  the gauge and the shutdown, for many connections. The clock is the age of each
  window and, as history, the ticks `since` each connection's upgrade was let
  through, up to beyond the window's length.
* **GatewaySessionProofs**, **SessionLifeProofs**, **SessionStartProofs**,
  **AudioProcessorProofs**, **AdaptiveVoiceProofs** and **AdmissionProofs** - the theorems. The MC modules hold the values a cfg
  cannot write down.

How they fit. `GatewaySession` is shown to implement `BackpressureContract`
(`ImplementsContract`, with `flow` from `closed` and `clientPaused`, `backlog`
from the audio bytes) and `SessionLife` (`ImplementsLife`); `Admission` is shown
to implement one `SessionLife` for each connection (`SessionsLive`), and
`SessionStart` implements it too (its own `ImplementsLife`). The others give the
details `GatewaySession` leaves open: `AudioProcessor` the number of chunks of a
message, `AdaptiveVoice` which of them is speech and what `AdaptiveMarks` can
be, `ProviderLink` what `bufferedAmount()` counts, and `SessionStart` what
happens between the awaits of `start()`. `AudioProcessor` is shown to implement
`AudioQueue` (`ImplementsQueue`). The details meet the core by the variables
they share in name, not by a refinement.

A mutant of an operation stands just before it, commented "Mutant"; it belongs
to no specification and shows that the property named with it in PROJECT.json
can fail.

## Runs

| Run | Shows | Instance |
| --- | --- | --- |
| session_safety | types, agreement of the pause views, relief, backlog bound, one backoff timer, life cycle, clean close, nothing after close, both refinements | mark 4 or adaptive 2/7, limit 6, frames of 1..3 bytes, bursts of 3, plugins that suspend |
| session_live | a paused client is resumed, pressure and a client that left are noticed | mark 3 or adaptive 2/7, limit 4, bursts of 2, a Transform of one frame, plugins that do not suspend |
| session_start | sweeps reach every plugin, which plugins are ended without a start, who can be left deaf, the load of a connection, the order of the events, the refinement of SessionLife | registries of no or two plugins that change, pings, four kinds of adapter, nine kinds of frame, closes from every side |
| audio_stream | the ring holds the newest samples, less than a chunk stays, the whole implements AudioQueue | ring of 5, chunks of 2, pool of 3, messages of 1..7, stream of 14 |
| voice_gate | the fate of each chunk, hangovers that run out, spectrum and the range of the parameters, in the adaptive loop | seven environments, two of them refused; chunks of 20, 7 and 1 samples; transform of 8 points; 3 chunks, 2 turns of the loop |
| admission_safety | quota never leaks and errs by at most the failed starts, shutdown knows every open session, each connection lives as SessionLife says | 3 connections of 2 subjects on "/", 1 on "/webrtc" |
| admission_drain | a sliding window sees at most twice the rate, the gauge counts the registry, shutdown ends without the forced exit | 3 connections on "/", plugins that suspend, a window of 2 ticks |
| backoff_held, closed_holds_nothing, audio_burst, quota_holds | the findings below | |

The bounds. Byte counts are small because only comparisons with the two marks
matter: each run has values below, at and beyond both, and a frame that crosses
them. `MaxBurst` 3 lets a burst be accepted, reach the mark and be refused in
one message. `ControlCap` bounds the control bytes and `MaxAttempts` the
rate-limit attempts, neither of which is bounded in the code. `Residual` is the
number of messages ws had read before `client.pause()`. The ring's capacity is
odd, so that chunks wrap, and shorter than a message, so that it overflows; its
pool holds the chunks the ring can yield at once (audio_burst drops that).

`MaxEntries` 3 lets both plugins of a registry go and one come back behind the
place of the sweep. `MaxSends` 2 has a counted frame and an uncounted one in one
socket; `MaxTold` 3 is a pong, gateway.ready and one frame in
every order the code allows (a pong before gateway.ready among them), and what a
close adds comes after it. A registry of one plugin is left out: one of two whose
second plugin goes while the first is awaited is as much. Anthropic is left out of the kinds of that run because its record
is that of OpenAI; the proofs take all five.

In voice_gate a chunk of 200 ms is 20 samples at 100 Hz, and a flush leaves 7.
The hangover of 200 ms is 20 samples too: the chunk after a detection uses it up
and the third is judged silent, while a flush of 7 leaves some of it, and the
gate open, for the third; another environment has chunks and a hangover of one
sample (10 ms), and a third one a hangover of 650 ms, which outlasts the run. So three chunks see the gate close after a
positive hangover, and stay open while one lasts. The field
of seven numbers has a root for each stage of an 8-point transform, the smallest
with three stages; the window vanishes at one end only, so that the bit reversal
and the clearing of the workspace both show. The controller's numbers (65536,
8 frames, 0.8 and 0.7) are those of the code, and the environments lie on both
sides of each.

In Admission a connection is used once; three of them allow a start to fail, its
slot to be taken, and its socket to close afterwards. `MaxHits` bounds the
upgrades of one window. With `Window` 2 a burst at the end of one window and one
at the start of the next fall into one stretch. Deadlock is not checked: every
model ends, by its bounds, in a closed session, or in the exit.

Which configuration each instance stands for: `HIGH_WATER_MARK <=
MAX_BUFFERED_BYTES` is what `config.ts` enforces (`Coherent`). The adaptive
marks lie beyond the limit too, because the controller's low-latency branch has
a floor of 65536 and no cap (`ParametersConverge` says how far a mark can go).
`AsyncPlugins = FALSE` is what the repository registers.

## Fairness

* GatewaySession: a handler that has begun is finished (weak). The monitor,
  the backoff timer, the provider's socket taking bytes and 'close' of a client
  socket that is read are strongly fair: each is disabled while a handler runs,
  and libuv serves due timers and polls every socket once a turn, so messages
  cannot overtake them for ever. A provider socket that is open keeps taking
  bytes; one that stalls for ever would leave its client paused for ever, and
  the code has no timeout for that. Nothing is assumed of `connect()`, of what
  the provider or the client sends, or of plugins that suspend.
* Admission: ws ends a closing handshake by itself (it has a timeout), and the
  callbacks of `wss.close` and `server.close` run. The forced exit is not
  assumed.
* The other specifications state no fairness and no liveness.

## Proofs

Six modules of proofs. What they assume are the named assumptions on the
constants, which TLC evaluates in the runs, and the preconditions given here.

**GatewaySessionProofs** proves, for all marks, limits, frame sizes, bursts,
residues and transforms with `HIGH_WATER_MARK <= MAX_BUFFERED_BYTES`
(`SessionAssumption`), that every invariant of session_safety holds, that
`NothingAfterClose` holds, both refinements, and two facts on which
`PausedResumes` rests. The invariants are not inductive alone. The backlog bound
needs that the test before a send looks at the bytes of the very socket it sends
to: an unattached session that lives has none (`LifeCycle`). That a close leaves
nothing needs to know what each stage of `start()` holds, and that no handler is
half done in a closed session, which rests on `Idle`. So `IInv` is the
conjunction of `TypeOK`, `LifeCycle`, `OneBackoffTimer`, `AudioBacklogBounded`,
`CleanUnlessClosedMidStart` and `GateInv`, which states `PauseViewsAgree` and
`ReliefPossible` for any gate. One lemma (`GateSteps`) shows that pausing,
resuming and evaluating keep `GateInv` whatever they are given - the count that
a resume freezes is below the limit because `isBackpressured()` has just been
false - and is cited for each caller; one lemma for each group of actions shows
that `IInv` is kept, with one step for each action. A step that writes to the
provider is the contract's `Accept`, because the evaluation after the send
pauses the client whenever the new backlog reaches the mark. `PauseIsWatched`
adds to `IInv` that the monitor runs as long as an established session lives,
and that before it only the transform pauses and has its 'drain' to come;
`EmptyProviderResumes` says that the next look at an empty provider resumes the
client, since no frozen count reaches the limit. With them `PausedResumes` needs
of fairness only that the provider's socket empties and that somebody then
looks.

**SessionLifeProofs** proves what that promise gives: a session and its client's
socket end together (`LifeEnds`), which by the refinements holds of
`GatewaySession`, of `SessionStart` and of each connection of `Admission`.
BackpressureContract has no properties of its own: what it promises is what
`Refinement` proves of the code.

**SessionStartProofs** proves every property of session_start, for any set of
plugins, any registry, any frames and all five adapters. The sweeps rest on
`Placed`: a plugin that stays keeps its entry, and has been called once if that
entry is behind the sweep's place and not at all if it is ahead; entries never
move, and a key that comes back comes as a new entry at the end, of a plugin
that did not stay. So a plugin between the places of the two sweeps is one that
was ended and not started (`EndsWithoutStart`), and there is no other. The load rests on `LinkShape`: while a connection is open its
pending bytes are `FrameBytes` for each frame in flight, so that the clamp of a
callback never bites; a failed write, which takes nothing off, is the end of
that. The order of the events is `Story`, with the facts that before
`start()` is through nothing but pongs is told (`Pongs`), that from then on
gateway.ready is among what was told (`Greeted`), and that nothing is told after
the client's socket has been closed. `LifeRefinement` maps each step to one of `SessionLife` or to a stutter:
every way of closing is its `Close`, the end of the socket its `SocketCloses`,
and the steps of plugins, provider and relay are stutters.

**AudioProcessorProofs** proves, for every chunk, ring, pool and message size,
types, `RingHoldsNewest` and `ResidueShort` (`RingInv`, by the slots behind the
write position: `SlotBehind` is what the two `%` of `readInto()` compute), and
`StreamAccounted` under `BurstFits`: the chunks of one message need no more
buffers than there are. There the invariant says which buffer each view has,
that no two have the same, what each holds, and that the samples heard,
overwritten, in views and in the ring are all that were written. From the same
invariant no two views of a call share a buffer (`PoolSuffices`), between calls
less than a chunk is held back (`NothingHeldBack`), and every step is one of
`AudioQueue` or a stutter (`QueueRefinement`): a write is its `Arrive` because
no view is left while a message is written, so that what is held is what the
ring holds; the chunker moves samples from the ring to views and stutters; a
view that is read is `Take`. `StreamAccounted`, the consumer's side of it,
follows from the refinement and is not run by itself. Without a precondition on
the pool, a ring with room for a residue and the longest message overwrites
nothing (`RoomyRingKeepsAll`). `BurstFits` is not met by the defaults (a ring of
250 chunks, a message of up to 8 MiB, 32 buffers), as audio_burst shows; it is
met by every client that sends at most 32 chunks' worth of audio at a time.

**AdaptiveVoiceProofs** proves, for every accepted configuration, every chunk
and every load, types, `FramesAccounted`, `SilenceAfterHangover` and `ParametersConverge`. What the state still holds of a
hangover is the hangover of the last detection less the samples since
(`HangoverLeft`), however they were cut into chunks; the parameters need a lemma
per branch of the rule only, since `Toward` is kept by each. That a step moves a
parameter toward its range is an action property; over a whole session it adds
up to `Tuned` (each parameter lies in its range, or between it and what was
configured) and `Adopted` (gate and session run on the controller's parameters),
from which the mark stays below `MAX_BUFFERED_BYTES` or the floor, whichever is
higher (`MarkStaysBelowLimit`). `WorkspaceIsFresh` is what sharing one workspace
needs: it always holds the windowed frame analyzed last and zeros beyond.
`SpectrumFollows` concludes that `SpectrumOfChunk` holds in every session if
`TransformExact` does, the statement about the constants alone that the FFT of
one frame is its discrete transform.

**AdmissionProofs** proves, for any number of connections and subjects, types,
`QuotaNotLeaked`, `QuotaErrorBounded`, `SessionsLive`, `OpenSessionsKnown` if no
plugin suspends (`~AsyncPlugins`), `GaugeCountsSessions` without "/webrtc"
(`RtcConns = {}`), and `SlidingRate`. The quota is two inequalities between
`active` and cardinalities that every step moves together: what is charged is
covered by sockets and lost upgrades, and sockets by what is charged and the
failed starts, so that a subject none of whose starts has failed keeps within it
(`QuotaKeptUnlessStartsFail`). The rate rests on `RateInv`: of the upgrades the
last `Window` ticks saw, those since the bucket began are at most its hits, and
those before it at most the rate. There is no third bucket among them, because
one is replaced only when it is older than the window, by the first attempt, so
nobody is let through between its end and the next one's beginning. `Reached`
says where the registry and the sockets can be at each stage of a start: hence
the only open sessions outside the registry are those whose client left
(`OrphansHaveLeft`), and, once shutdown has begun, each "/" socket is in its
closing handshake (`DrainWaitsForNobody`), which leaves `DrainEnds` to fairness.

Only model-checked:

* The liveness properties (`PausedResumes`, `PressureNoticed`,
  `GoneClientNoticed`, `DrainEnds`): reasoning from fairness needs ENABLED, which
  is out of the prover's reach. The safety parts are proved, as said above.
* `TransformExact`, and so `SpectrumOfChunk` without it: the FFT is a recursion
  over the stages, the permutation a fold, and what they compute for every input
  is an induction over data. voice_gate checks it for an 8-point transform.

## Where the code and its documents disagree

* **backoff_held** - after a 429 the log announces a backoff, but the next
  monitor tick finds no pressure and resumes the client.
* **closed_holds_nothing** - a session that is closed while it connects is given
  a connection and two intervals afterwards; nothing closes them. The README's
  bound on memory by sessions does not see it. `CleanUnlessClosedMidStart` shows
  that this is the only way.
* **audio_burst** - a message of more than 32 chunks (the default ring yields up
  to 250 at once, and a message may have 8 MiB) overwrites pooled buffers that
  `push` has returned. The comment beside the pool says it
  is sized for a burst. `QueueRefinement` proves that the stream is kept whenever
  the chunks fit.
* **quota_holds** - a failed start releases the quota in the catch and again on
  'close'. `QuotaErrorBounded` shows how far it goes, `QuotaNotLeaked` that it
  never errs the other way but for an upgrade that ws gives up.

Other things the models show and no document denies: a client whose session
could not start is never told why, since `close()` comes before the error, and
one that pings may hear a pong before gateway.ready, or in a session that never
becomes ready (`ClientStory`); a plugin may be ended without having been started,
or before its start (`EndsWithoutStart`); a client that leaves while a plugin suspends leaves a session
behind (`DeafOnlyToPlugins`); a rate limit of Deepgram is not recognised, because
its event is normalised first; the adaptive loop may switch a gate that was
configured off (threshold 0) on; its floor of 65536 lifts the mark above a
`MAX_BUFFERED_BYTES` configured below that, but no higher (`MarkStaysBelowLimit`).

## Not modelled

* Wording and layout of what is relayed; token parsing, signatures and origins
  (pure functions); HTTP routes, `aggregate()` and the other counters, which are
  only read; ports, URLs and model names of the configuration.
* Floating point: energy, entropy and band ratio of a chunk are given with it,
  and the transform is exact. Rounding of the mark is that of the integers.
  `HangoverSamples` is the exact floor; the code's `Math.floor` of a floating-point
  product may be one sample less (290 ms at 24000 Hz).
* `RING_BUFFER_SECONDS`, which may be a fraction: the ring's size is a constant of
  `AudioProcessor`.
* What a client hears of pauses is in `GatewaySession` and not in the order
  `ClientStory` is about: a pause may be told before gateway.ready.
* A message of an odd number of bytes: the sample is the model's unit.
* The 'drain' the Anthropic connection listens for: ws emits none.
* Steps after which the process is gone: an 'error' of a socket nobody listens
  to yet, an `onSessionEnd` that rejects.
* How ws routes an upgrade between two servers with different paths on one http
  server is the library's business and not in the repository: `Admission`
  assumes that each server gets the upgrades of its path.
* What is queued towards the client, which has no bound and no reader in the
  code.
* Bench, examples and dashboards.

## Plan

Done, in this order: BackpressureContract, GatewaySession and its proofs,
AudioProcessor with AudioQueue, Admission, VoiceGate; SessionLife and the
refinements to it, the clock of the rate window, the adaptive loop with its
statistics, the spectrum, the configuration, the plugin registry, the adapters
and SessionStart, and the proofs of all of these and of AudioProcessor. To come:

1. `SessionStart` and `GatewaySession` as one composition, with the frames of
   `ProviderLink` for the two byte counts of the core.
2. The way to the client: what a slow client that is sent audio makes of the
   session, once the code has a bound to check.
