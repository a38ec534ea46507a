--------------------------- MODULE AudioProcessor ---------------------------
(***************************************************************************)
(* The PCM path of src/audio-processor.ts: PcmRingBuffer, the chunker and  *)
(* its pool of reused buffers, with the consumer that empties what push()  *)
(* and flush() return (GatewaySession.forwardAudioChunk).                  *)
(*                                                                         *)
(* A call runs to completion before the next; its loops are taken one      *)
(* turn at a time because the pool's danger lies between them: push()      *)
(* packs all the chunks of a message before the first one is read.         *)
(*                                                                         *)
(* A sample is its position in the stream the client has sent, from 1; 0   *)
(* stands for a sample that was never received.                            *)
(***************************************************************************)
EXTENDS Integers, Sequences

CONSTANTS
    SamplesPerChunk,    \* this.samplesPerChunk
    Capacity,           \* ring.capacitySamples
    PoolSize,           \* chunkPool.length
    MaxMessage,         \* bound: samples in one message
    MaxSamples          \* bound: samples in the stream

ASSUME ProcessorAssumption ==
    /\ SamplesPerChunk \in Nat \ {0}
    /\ Capacity \in Nat /\ Capacity >= 2 * SamplesPerChunk
    /\ PoolSize \in Nat \ {0}
    /\ MaxMessage \in Nat /\ MaxSamples \in Nat

VARIABLES
    samples, writePos, readable,    \* PcmRingBuffer
    pool,           \* chunkPool: what each buffer holds
    poolIndex,      \* this.poolIndex
    emitScratch,    \* chunks returned and not yet consumed: views of pool
    phase,          \* the loop that is running
    left,           \* samples of the message still to be written
    written,        \* samples of the stream so far
    out,            \* the chunk the consumer read last
    heard,          \* history: the last sample it holds, or was told to forget
    overwritten     \* history: samples after it that a full ring has lost

ringVars == <<samples, writePos, readable>>
history == <<heard, overwritten>>
vars == <<ringVars, pool, poolIndex, emitScratch, phase, left, written, out, history>>

Slots == 0..(Capacity - 1)
Buffers == 0..(PoolSize - 1)

Init ==
    /\ samples = [s \in Slots |-> 0]
    /\ writePos = 0 /\ readable = 0
    /\ pool = [b \in Buffers |-> [i \in 1..SamplesPerChunk |-> 0]]
    /\ poolIndex = 0
    /\ emitScratch = <<>>
    /\ phase = "idle"
    /\ left = 0 /\ written = 0
    /\ out = <<>> /\ heard = 0 /\ overwritten = 0

-----------------------------------------------------------------------------

\* The slot of the i-th oldest readable sample, counted from 0.
ReadSlot(i) ==
    LET readPos == (writePos - readable + Capacity) % Capacity
    IN (readPos + i) % Capacity

\* The next chunk: n samples of the ring, the rest of the buffer zero.
Packed(n) ==
    [i \in 1..SamplesPerChunk |-> IF i <= n THEN samples[ReadSlot(i - 1)] ELSE 0]

\* Mutant: the pool is not rotated.
SameBuffer == poolIndex

NextBuffer == (poolIndex + 1) % PoolSize

\* Mutant: readable grows past the capacity.
GrownUnchecked == readable + 1

\* What one more sample makes of `readable': a full ring has lost its oldest.
Grown == IF readable < Capacity THEN readable + 1 ELSE readable

\* Mutant: the write position wraps one slot late.
AdvancedLate == IF writePos + 1 > Capacity THEN 0 ELSE writePos + 1

Advanced == IF writePos + 1 >= Capacity THEN 0 ELSE writePos + 1

\* push(): a message of at least one whole sample arrives.
Push ==
    /\ phase = "idle"
    /\ left' \in 1..MaxMessage
    /\ written + left' <= MaxSamples
    /\ phase' = "writing"
    /\ emitScratch' = <<>>
    /\ UNCHANGED <<ringVars, pool, poolIndex, written, out, history>>

\* writeFromLeBuffer(), one turn of its loop.
WriteSample ==
    /\ phase = "writing"
    /\ samples' = [samples EXCEPT ![writePos] = written + 1]
    /\ writePos' = Advanced
    /\ readable' = Grown
    /\ written' = written + 1
    /\ left' = left - 1
    /\ phase' = IF left = 1 THEN "chunking" ELSE "writing"
    /\ overwritten' = IF readable = Capacity THEN overwritten + 1 ELSE overwritten
    /\ UNCHANGED <<pool, poolIndex, emitScratch, out, heard>>

\* Mutant: the while runs once.
EmitOnce ==
    /\ phase = "chunking" /\ readable >= SamplesPerChunk
    /\ pool' = [pool EXCEPT ![poolIndex] = Packed(SamplesPerChunk)]
    /\ poolIndex' = NextBuffer
    /\ readable' = readable - SamplesPerChunk
    /\ emitScratch' = <<[buffer |-> poolIndex, length |-> SamplesPerChunk]>>
    /\ phase' = "consuming"
    /\ UNCHANGED <<samples, writePos, left, written, out, history>>

\* push(), one turn of its while: readInto() and packChunkSamples().
EmitChunk ==
    /\ phase = "chunking"
    /\ readable >= SamplesPerChunk
    /\ pool' = [pool EXCEPT ![poolIndex] = Packed(SamplesPerChunk)]
    /\ poolIndex' = NextBuffer
    /\ readable' = readable - SamplesPerChunk
    /\ emitScratch' = Append(emitScratch, [buffer |-> poolIndex, length |-> SamplesPerChunk])
    /\ UNCHANGED <<samples, writePos, phase, left, written, out, history>>

\* push() returns.
PushReturns ==
    /\ phase = "chunking"
    /\ readable < SamplesPerChunk
    /\ phase' = IF emitScratch = <<>> THEN "idle" ELSE "consuming"
    /\ UNCHANGED <<ringVars, pool, poolIndex, emitScratch, left, written, out, history>>

\* flush(): what is left, as a short view of a pooled buffer.
Flush ==
    /\ phase = "idle"
    /\ readable > 0
    /\ LET n == IF readable < SamplesPerChunk THEN readable ELSE SamplesPerChunk
       IN /\ pool' = [pool EXCEPT ![poolIndex] = Packed(n)]
          /\ emitScratch' = <<[buffer |-> poolIndex, length |-> readable]>>
          /\ readable' = readable - n
    /\ poolIndex' = NextBuffer
    /\ phase' = "consuming"
    /\ UNCHANGED <<samples, writePos, left, written, out, history>>

\* The consumer's loop: it reads the view, now, and goes on to the next.
Consume ==
    /\ phase = "consuming"
    /\ LET view == Head(emitScratch)
       IN out' = SubSeq(pool[view.buffer], 1, view.length)
    /\ heard' = out'[Len(out')]
    /\ overwritten' = 0
    /\ emitScratch' = Tail(emitScratch)
    /\ phase' = IF Len(emitScratch) = 1 THEN "idle" ELSE "consuming"
    /\ UNCHANGED <<ringVars, pool, poolIndex, left, written>>

\* reset(), on input_audio_buffer.clear.
Reset ==
    /\ phase = "idle"
    /\ writePos' = 0 /\ readable' = 0
    /\ poolIndex' = 0
    /\ emitScratch' = <<>>
    /\ out' = <<>> /\ heard' = written /\ overwritten' = 0
    /\ UNCHANGED <<samples, pool, phase, left, written>>

Next == Push \/ WriteSample \/ EmitChunk \/ PushReturns \/ Flush \/ Consume \/ Reset

Spec == Init /\ [][Next]_vars

-----------------------------------------------------------------------------
(* Properties *)

TypeOK ==
    /\ samples \in [Slots -> Nat]
    /\ writePos \in Slots /\ readable \in 0..Capacity
    /\ pool \in [Buffers -> [1..SamplesPerChunk -> Nat]]
    /\ poolIndex \in Buffers
    /\ emitScratch \in Seq([buffer : Buffers, length : 1..SamplesPerChunk])
    /\ phase \in {"idle", "writing", "chunking", "consuming"}
    /\ left \in Nat /\ written \in Nat
    /\ out \in Seq(Nat) /\ heard \in Nat /\ overwritten \in Nat

\* The readable part of the ring is the newest part of the stream, oldest
\* first, across the wrap, an overflow, a partial read and a reset (52-91).
RingHoldsNewest ==
    \A i \in 0..(readable - 1) : samples[ReadSlot(i)] = written - readable + 1 + i

\* Between calls less than a chunk stays in the ring, so flush() needs one
\* buffer and its view is shorter than a chunk (183-211).
ResidueShort == phase \in {"idle", "consuming"} => readable < SamplesPerChunk

Consumed == phase = "consuming" /\ emitScratch' # emitScratch

\* Every chunk the consumer reads goes on where the last one ended, but for
\* the samples a full ring has overwritten: nothing is lost without reason,
\* repeated, reordered or made up (gateway.ts 291-302).
StreamAccounted ==
    [][Consumed => \A i \in 1..Len(out') : out'[i] = heard + overwritten + i]_vars

\* Ring, chunker, pool and views together are a queue that drops its oldest
\* samples: the consumer gets all the others, once and in order, nothing is
\* dropped but from a full ring, and a clear forgets everything (52-91,
\* 161-220, gateway.ts 291-302).
Queue == INSTANCE AudioQueue

ImplementsQueue == Queue!Spec

-----------------------------------------------------------------------------
(* Statements of the repository the code does not keep *)

\* "Pool sized for a burst of frames within one event-loop turn before
\* base64": no two views of one call share a buffer.
PoolHoldsBurst ==
    \A i, j \in 1..Len(emitScratch) :
        emitScratch[i].buffer = emitScratch[j].buffer => i = j

=============================================================================
