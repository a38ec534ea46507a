------------------------- MODULE AudioProcessorProofs -------------------------
(***************************************************************************)
(* Proofs about AudioProcessor, for every chunk size, ring, pool and       *)
(* message: what the ring holds, and, as long as the chunks of one message *)
(* fit the pool (BurstFits), that the consumer reads the stream.           *)
(*                                                                         *)
(* RingInv is inductive once the phases say what is left and what has been *)
(* returned.  The stream needs to know which buffer each view has           *)
(* (ViewBuffer: the last ones the pool has turned to, no two the same),    *)
(* what it holds, and that the samples heard, overwritten, in views and in *)
(* the ring make up all that were written (Written).                       *)
(***************************************************************************)
EXTENDS AudioProcessor, TLAPS, SequenceTheorems

RingInv ==
    /\ TypeOK
    /\ RingHoldsNewest
    /\ ResidueShort
    /\ phase = "writing" => left > 0
    /\ phase \in {"idle", "writing"} => emitScratch = <<>>
    /\ phase = "consuming" => emitScratch # <<>>

Views == 1..Len(emitScratch)

\* The slot of the i-th of r readable samples behind the write position w.
SlotBehind(w, r, i) == IF w - r + i >= 0 THEN w - r + i ELSE w - r + i + Capacity

\* n views of whole chunks and r samples in the ring are no more than the ring
\* holds, and no more than one message and the residue before it.
Yield(n, r) ==
    /\ n * SamplesPerChunk + r <= Capacity
    /\ n * SamplesPerChunk + r < SamplesPerChunk + MaxMessage

\* The chunks of one message never need more buffers than there are.
BurstFits ==
    \/ Capacity < (PoolSize + 1) * SamplesPerChunk
    \/ SamplesPerChunk + MaxMessage <= (PoolSize + 1) * SamplesPerChunk

\* The buffer of the i-th of n views.
ViewBuffer(n, i) ==
    IF poolIndex - n + i > 0 THEN poolIndex - n + i - 1 ELSE poolIndex - n + i - 1 + PoolSize

\* Samples in views.
Pending ==
    IF emitScratch = <<>> THEN 0
    ELSE (Len(emitScratch) - 1) * SamplesPerChunk + emitScratch[Len(emitScratch)].length

Written == written = heard + overwritten + Pending + readable

ViewsPlaced ==
    \A i \in Views : emitScratch[i].buffer = ViewBuffer(Len(emitScratch), i)

ViewsHold ==
    \A i \in Views : \A j \in 1..emitScratch[i].length :
        pool[emitScratch[i].buffer][j] = heard + overwritten + (i - 1) * SamplesPerChunk + j

\* Only flush() returns a short view, and no other with it.
ViewsFull ==
    \A i \in Views : phase = "chunking" \/ i < Len(emitScratch) =>
        emitScratch[i].length = SamplesPerChunk

StreamInv ==
    /\ RingInv
    /\ Written
    /\ ViewsPlaced /\ ViewsHold /\ ViewsFull
    /\ Len(emitScratch) <= PoolSize
    /\ phase = "writing" => readable + left < SamplesPerChunk + MaxMessage
    /\ phase = "chunking" => Yield(Len(emitScratch), readable)

-----------------------------------------------------------------------------
(* Arithmetic *)

\* What `%' is to a number of less than two turns.
LEMMA OneTurn ==
  ASSUME NEW c \in Nat \ {0}, NEW a \in 0..(2 * c - 1)
  PROVE  a % c = IF a < c THEN a ELSE a - c
  BY SMT

LEMMA Sizes ==
  /\ SamplesPerChunk \in Nat \ {0}
  /\ Capacity \in Nat /\ Capacity >= 2 * SamplesPerChunk
  /\ PoolSize \in Nat \ {0}
  /\ MaxMessage \in Nat
  BY ProcessorAssumption DEF ProcessorAssumption

LEMMA SlotRange ==
  ASSUME NEW w \in Slots, NEW r \in 0..Capacity, NEW i \in 0..(r - 1)
  PROVE  SlotBehind(w, r, i) \in Slots
  BY Sizes DEF Slots, SlotBehind

\* The slots the code computes are those behind the write position.
LEMMA ReadSlotBehind ==
  ASSUME writePos \in Slots, readable \in 0..Capacity, NEW i \in 0..(readable - 1)
  PROVE  ReadSlot(i) = SlotBehind(writePos, readable, i)
<1>1. /\ Capacity \in Nat \ {0} /\ readable \in Nat /\ readable <= Capacity
      /\ i \in Nat /\ i < readable /\ writePos \in Nat /\ writePos < Capacity
  BY Sizes DEF Slots
<1>2. PICK a \in 0..(2 * Capacity - 1) : a = writePos - readable + Capacity
  BY <1>1
<1>3. a % Capacity = IF a < Capacity THEN a ELSE a - Capacity
  BY <1>1, OneTurn
<1>4. PICK b \in 0..(2 * Capacity - 1) : b = (a % Capacity) + i
  BY <1>1, <1>2, <1>3
<1>5. b % Capacity = IF b < Capacity THEN b ELSE b - Capacity
  BY <1>1, OneTurn
<1>6. b % Capacity = SlotBehind(writePos, readable, i)
  BY <1>1, <1>2, <1>3, <1>4, <1>5 DEF SlotBehind
<1>7. ReadSlot(i) = b % Capacity
  BY <1>2, <1>4 DEF ReadSlot
<1> QED
  BY <1>6, <1>7

\* Views of whole chunks, one more or one less.
LEMMA Distributes ==
  ASSUME NEW n \in Int, NEW s \in Int
  PROVE  /\ n * s \in Int
         /\ (n + 1) * s = n * s + s
         /\ (n - 1) * s = n * s - s
         /\ 0 * s = 0
         /\ 1 * s = s
  BY SMT

LEMMA Fewer ==
  ASSUME NEW n \in Nat, NEW p \in Nat, NEW s \in Nat \ {0}, n * s < (p + 1) * s
  PROVE  n <= p
  BY SMT

\* A queue of views and its head.
LEMMA QueueFacts ==
  ASSUME NEW S, NEW q \in Seq(S), q # <<>>
  PROVE  /\ Len(q) \in Nat \ {0} /\ Head(q) = q[1] /\ q[1] \in S
         /\ Tail(q) \in Seq(S) /\ Len(Tail(q)) = Len(q) - 1
         /\ \A i \in 1..(Len(q) - 1) : Tail(q)[i] = q[i + 1]
         /\ Tail(q) = <<>> <=> Len(q) = 1
<1>1. Len(q) \in Nat \ {0} /\ Head(q) = q[1] /\ q[1] \in S
  OBVIOUS
<1>2. Tail(q) \in Seq(S) /\ Len(Tail(q)) = Len(q) - 1
  OBVIOUS
<1>3. \A i \in 1..(Len(q) - 1) : Tail(q)[i] = q[i + 1]
  OBVIOUS
<1>4. Tail(q) = <<>> <=> Len(Tail(q)) = 0
  BY <1>2, EmptySeq
<1> QED
  BY <1>1, <1>2, <1>3, <1>4

LEMMA QueueOfOne ==
  ASSUME NEW S, NEW e \in S
  PROVE  /\ <<e>> \in Seq(S) /\ Len(<<e>>) = 1 /\ <<e>>[1] = e
  OBVIOUS

LEMMA QueueGrows ==
  ASSUME NEW S, NEW q \in Seq(S), NEW e \in S, NEW n \in Nat, n = Len(q)
  PROVE  /\ Append(q, e) \in Seq(S) /\ Len(Append(q, e)) = n + 1
         /\ \A i \in 1..n : Append(q, e)[i] = q[i]
         /\ Append(q, e)[n + 1] = e
  OBVIOUS

-----------------------------------------------------------------------------
(* The ring *)

\* RingHoldsNewest, by the slots behind the write position.
Newest ==
    \A i \in 0..(readable - 1) :
        samples[SlotBehind(writePos, readable, i)] = written - readable + 1 + i

LEMMA RingIsNewest == TypeOK => (RingHoldsNewest <=> Newest)
  BY ReadSlotBehind DEF TypeOK, RingHoldsNewest, Newest

LEMMA PackedHolds ==
  ASSUME TypeOK, RingHoldsNewest, NEW n \in 0..SamplesPerChunk, n <= readable
  PROVE  /\ Packed(n) \in [1..SamplesPerChunk -> Nat]
         /\ \A j \in 1..n : Packed(n)[j] = written - readable + j
<1>1. /\ samples \in [Slots -> Nat] /\ writePos \in Slots /\ readable \in 0..Capacity
      /\ written \in Nat /\ readable \in Nat /\ n \in Nat
  BY Sizes DEF TypeOK
<1>2. ASSUME NEW j \in 1..n
      PROVE  samples[ReadSlot(j - 1)] \in Nat /\ samples[ReadSlot(j - 1)] = written - readable + j
  <2>1. j - 1 \in 0..(readable - 1)
    BY <1>1
  <2>2. ReadSlot(j - 1) \in Slots
    BY <1>1, <2>1, ReadSlotBehind, SlotRange
  <2>3. samples[ReadSlot(j - 1)] = written - readable + 1 + (j - 1)
    BY <2>1 DEF RingHoldsNewest
  <2> QED
    BY <1>1, <2>2, <2>3
<1>3. ASSUME NEW j \in 1..SamplesPerChunk
      PROVE  (IF j <= n THEN samples[ReadSlot(j - 1)] ELSE 0) \in Nat
  <2>1. CASE j <= n
    BY <1>2, <2>1, <1>1, Sizes
  <2>2. CASE ~ (j <= n)
    BY <2>2
  <2> QED
    BY <2>1, <2>2
<1>4. Packed(n) \in [1..SamplesPerChunk -> Nat]
  BY <1>3 DEF Packed
<1>5. ASSUME NEW j \in 1..n PROVE Packed(n)[j] = written - readable + j
  <2>1. j \in 1..SamplesPerChunk /\ j <= n
    BY <1>1, Sizes
  <2> QED
    BY <1>2, <2>1 DEF Packed
<1> QED
  BY <1>4, <1>5

\* A chunk taken off the ring leaves the newest in it.
LEMMA TakenOff ==
  ASSUME TypeOK, RingHoldsNewest, NEW n \in 0..readable, readable' = readable - n,
         UNCHANGED <<samples, writePos, written>>, TypeOK'
  PROVE  RingHoldsNewest'
<1>1. /\ writePos \in Slots /\ readable \in 0..Capacity /\ readable \in Nat /\ n \in Nat
      /\ written \in Nat /\ Capacity \in Nat /\ writePos \in Nat
  BY Sizes DEF TypeOK, Slots
<1>2. Newest
  BY RingIsNewest
<1>3. ASSUME NEW i \in 0..(readable' - 1)
      PROVE  samples'[SlotBehind(writePos', readable', i)] = written' - readable' + 1 + i
  <2>1. i + n \in 0..(readable - 1) /\ i \in Nat
    BY <1>1
  <2>2. SlotBehind(writePos', readable', i) = SlotBehind(writePos, readable, i + n)
    BY <1>1, <2>1 DEF SlotBehind
  <2>3. samples[SlotBehind(writePos, readable, i + n)] = written - readable + 1 + (i + n)
    BY <1>2, <2>1 DEF Newest
  <2> QED
    BY <1>1, <2>1, <2>2, <2>3
<1>4. Newest'
  BY <1>3 DEF Newest
<1> QED
  BY <1>4, RingIsNewest, PTL

-----------------------------------------------------------------------------
(* One step of the ring *)

LEMMA InitRing == Init => RingInv
<1> SUFFICES ASSUME Init PROVE RingInv
  OBVIOUS
<1>1. /\ readable = 0 /\ writePos = 0 /\ emitScratch = <<>> /\ phase = "idle"
      /\ out = <<>> /\ written = 0 /\ left = 0 /\ heard = 0 /\ overwritten = 0
      /\ poolIndex = 0
      /\ samples = [s \in Slots |-> 0]
      /\ pool = [b \in Buffers |-> [i \in 1..SamplesPerChunk |-> 0]]
  BY DEF Init
<1>2. TypeOK
  BY <1>1, Sizes DEF TypeOK, Slots, Buffers
<1>3. RingHoldsNewest /\ ResidueShort
  BY <1>1, Sizes DEF RingHoldsNewest, ResidueShort
<1> QED
  BY <1>1, <1>2, <1>3 DEF RingInv

LEMMA PushRing == ASSUME RingInv, Push PROVE RingInv'
<1>1. /\ phase = "idle" /\ phase' = "writing" /\ left' \in 1..MaxMessage
      /\ emitScratch' = <<>>
      /\ UNCHANGED <<samples, writePos, readable, pool, poolIndex, written, out, heard,
                     overwritten>>
  BY DEF Push, ringVars, history
<1>2. TypeOK'
  BY <1>1, Sizes DEF RingInv, TypeOK
<1>3. RingHoldsNewest'
  BY <1>1 DEF RingInv, RingHoldsNewest, ReadSlot
<1>4. left' > 0
  BY <1>1, Sizes
<1> QED
  BY <1>1, <1>2, <1>3, <1>4 DEF RingInv, ResidueShort

\* One sample more: it takes the slot before the oldest, or that of the oldest.
LEMMA SampleNewest ==
  ASSUME TypeOK, TypeOK', RingHoldsNewest,
         samples' = [samples EXCEPT ![writePos] = written + 1],
         writePos' = Advanced, readable' = Grown, written' = written + 1
  PROVE  RingHoldsNewest'
<1>1. /\ samples \in [Slots -> Nat] /\ writePos \in Slots /\ writePos \in Nat
      /\ writePos < Capacity /\ readable \in 0..Capacity /\ readable \in Nat
      /\ readable <= Capacity /\ written \in Nat /\ Capacity \in Nat \ {0}
  <2>1. Capacity \in Nat \ {0}
    BY Sizes
  <2> QED
    BY <2>1 DEF TypeOK, Slots
<1>2. Newest
  BY RingIsNewest
<1>3. ASSUME NEW i \in 0..(readable' - 1)
      PROVE  samples'[SlotBehind(writePos', readable', i)] = written' - readable' + 1 + i
  <2>1. /\ writePos' = IF writePos + 1 = Capacity THEN 0 ELSE writePos + 1
        /\ readable' = IF readable < Capacity THEN readable + 1 ELSE readable
        /\ i \in Nat /\ i < readable'
    BY <1>1 DEF Advanced, Grown
  <2>2. CASE i = readable' - 1
    <3>1. SlotBehind(writePos', readable', i) = writePos
      BY <1>1, <2>1, <2>2 DEF SlotBehind
    <3>2. samples'[writePos] = written + 1
      BY <1>1
    <3> QED
      BY <1>1, <2>1, <2>2, <3>1, <3>2
  <2>3. CASE i < readable' - 1 /\ readable < Capacity
    <3>1. i \in 0..(readable - 1) /\ readable' = readable + 1
      BY <1>1, <2>1, <2>3
    <3>2. /\ SlotBehind(writePos', readable', i) = SlotBehind(writePos, readable, i)
          /\ SlotBehind(writePos, readable, i) # writePos
      BY <1>1, <2>1, <2>3, <3>1 DEF SlotBehind
    <3>3. SlotBehind(writePos, readable, i) \in Slots
      BY <1>1, <3>1, SlotRange
    <3>4. samples[SlotBehind(writePos, readable, i)] = written - readable + 1 + i
      BY <1>2, <3>1 DEF Newest
    <3> QED
      BY <1>1, <2>1, <3>1, <3>2, <3>3, <3>4
  <2>4. CASE i < readable' - 1 /\ readable = Capacity
    <3>1. i + 1 \in 0..(readable - 1) /\ readable' = readable
      BY <1>1, <2>1, <2>4
    <3>2. /\ SlotBehind(writePos', readable', i) = SlotBehind(writePos, readable, i + 1)
          /\ SlotBehind(writePos, readable, i + 1) # writePos
      BY <1>1, <2>1, <2>4, <3>1 DEF SlotBehind
    <3>3. SlotBehind(writePos, readable, i + 1) \in Slots
      BY <1>1, <3>1, SlotRange
    <3>4. samples[SlotBehind(writePos, readable, i + 1)] = written - readable + 1 + (i + 1)
      BY <1>2, <3>1 DEF Newest
    <3> QED
      BY <1>1, <2>1, <3>1, <3>2, <3>3, <3>4
  <2> QED
    BY <1>1, <2>1, <2>2, <2>3, <2>4
<1>4. Newest'
  BY <1>3 DEF Newest
<1> QED
  BY <1>4, RingIsNewest, PTL

LEMMA WriteRing == ASSUME RingInv, WriteSample PROVE RingInv'
<1>1. /\ phase = "writing" /\ phase' \in {"chunking", "writing"}
      /\ (phase' = "writing" <=> left # 1)
      /\ samples' = [samples EXCEPT ![writePos] = written + 1]
      /\ writePos' = Advanced /\ readable' = Grown /\ written' = written + 1
      /\ left' = left - 1
      /\ overwritten' = IF readable = Capacity THEN overwritten + 1 ELSE overwritten
      /\ UNCHANGED <<pool, poolIndex, emitScratch, out, heard>>
  BY DEF WriteSample
<1>2. TypeOK /\ left > 0 /\ emitScratch = <<>>
  BY <1>1 DEF RingInv
<1>3. Capacity \in Nat \ {0} /\ writePos \in Nat /\ writePos < Capacity
  BY <1>2, Sizes DEF TypeOK, Slots
<1>4. writePos' \in Slots /\ readable' \in 0..Capacity
  BY <1>1, <1>2, <1>3 DEF TypeOK, Slots, Advanced, Grown
<1>5. samples' \in [Slots -> Nat] /\ written' \in Nat /\ left' \in Nat /\ overwritten' \in Nat
  BY <1>1, <1>2 DEF TypeOK
<1>6. TypeOK'
  BY <1>1, <1>2, <1>4, <1>5 DEF TypeOK
<1>7. RingHoldsNewest'
  BY <1>1, <1>2, <1>6, SampleNewest DEF RingInv
<1>8. ResidueShort' /\ (phase' = "writing" => left' > 0)
  BY <1>1, <1>2 DEF ResidueShort, TypeOK
<1> QED
  BY <1>1, <1>2, <1>6, <1>7, <1>8 DEF RingInv

\* What push() and flush() share: a view of n packed samples.
LEMMA PackTypes ==
  ASSUME TypeOK, RingHoldsNewest, NEW n \in 1..SamplesPerChunk, n <= readable,
         pool' = [pool EXCEPT ![poolIndex] = Packed(n)],
         poolIndex' = NextBuffer, readable' = readable - n
  PROVE  /\ pool' \in [Buffers -> [1..SamplesPerChunk -> Nat]]
         /\ poolIndex' \in Buffers
         /\ readable' \in 0..Capacity
         /\ [buffer |-> poolIndex, length |-> n] \in [buffer : Buffers, length : 1..SamplesPerChunk]
<1>1. Packed(n) \in [1..SamplesPerChunk -> Nat]
  BY PackedHolds
<1>2. pool' \in [Buffers -> [1..SamplesPerChunk -> Nat]]
  BY <1>1 DEF TypeOK
<1>3. poolIndex \in Nat /\ PoolSize \in Nat \ {0} /\ poolIndex < PoolSize
  BY Sizes DEF TypeOK, Buffers
<1>4. poolIndex' \in Buffers
  BY <1>3 DEF NextBuffer, Buffers
<1>5. readable' \in 0..Capacity
  BY Sizes DEF TypeOK
<1> QED
  BY <1>2, <1>4, <1>5 DEF TypeOK

LEMMA EmitRing == ASSUME RingInv, EmitChunk PROVE RingInv'
<1>1. /\ phase = "chunking" /\ readable >= SamplesPerChunk
      /\ pool' = [pool EXCEPT ![poolIndex] = Packed(SamplesPerChunk)]
      /\ poolIndex' = NextBuffer /\ readable' = readable - SamplesPerChunk
      /\ emitScratch' = Append(emitScratch, [buffer |-> poolIndex, length |-> SamplesPerChunk])
      /\ UNCHANGED <<samples, writePos, phase, left, written, out, heard, overwritten>>
  BY DEF EmitChunk, history
<1>2. TypeOK /\ RingHoldsNewest
  BY DEF RingInv
<1>3. SamplesPerChunk \in 1..SamplesPerChunk /\ SamplesPerChunk \in 0..readable
  BY <1>1, <1>2, Sizes DEF TypeOK
<1>4. /\ pool' \in [Buffers -> [1..SamplesPerChunk -> Nat]]
      /\ poolIndex' \in Buffers /\ readable' \in 0..Capacity
      /\ [buffer |-> poolIndex, length |-> SamplesPerChunk]
            \in [buffer : Buffers, length : 1..SamplesPerChunk]
  BY <1>1, <1>2, <1>3, PackTypes
<1>5. emitScratch' \in Seq([buffer : Buffers, length : 1..SamplesPerChunk])
  BY <1>1, <1>2, <1>4 DEF TypeOK
<1>6. TypeOK'
  BY <1>1, <1>2, <1>4, <1>5 DEF TypeOK
<1>7. RingHoldsNewest'
  BY <1>1, <1>2, <1>3, <1>6, TakenOff
<1> QED
  BY <1>1, <1>6, <1>7 DEF RingInv, ResidueShort

LEMMA ReturnRing == ASSUME RingInv, PushReturns PROVE RingInv'
<1>1. /\ phase = "chunking" /\ readable < SamplesPerChunk
      /\ phase' = IF emitScratch = <<>> THEN "idle" ELSE "consuming"
      /\ UNCHANGED <<samples, writePos, readable, pool, poolIndex, emitScratch, left,
                     written, out, heard, overwritten>>
  BY DEF PushReturns, ringVars, history
<1>2. TypeOK' /\ RingHoldsNewest'
  BY <1>1 DEF RingInv, TypeOK, RingHoldsNewest, ReadSlot
<1> QED
  BY <1>1, <1>2 DEF RingInv, ResidueShort

LEMMA FlushStep ==
  ASSUME RingInv, Flush
  PROVE  /\ phase = "idle" /\ phase' = "consuming"
         /\ readable \in 1..SamplesPerChunk /\ readable' = readable - readable
         /\ pool' = [pool EXCEPT ![poolIndex] = Packed(readable)]
         /\ poolIndex' = NextBuffer
         /\ emitScratch' = <<[buffer |-> poolIndex, length |-> readable]>>
         /\ UNCHANGED <<samples, writePos, left, written, out, heard, overwritten>>
<1>1. phase = "idle" /\ readable > 0 /\ readable < SamplesPerChunk /\ readable \in 0..Capacity
  BY DEF Flush, RingInv, ResidueShort, TypeOK
<1> QED
  BY <1>1, Sizes DEF Flush, history

LEMMA FlushRing == ASSUME RingInv, Flush PROVE RingInv'
<1>1. TypeOK /\ RingHoldsNewest
  BY DEF RingInv
<1>2. readable \in 0..readable /\ readable <= readable /\ readable' = 0
  BY FlushStep, <1>1, Sizes DEF TypeOK
<1>3. /\ pool' \in [Buffers -> [1..SamplesPerChunk -> Nat]]
      /\ poolIndex' \in Buffers /\ readable' \in 0..Capacity
      /\ [buffer |-> poolIndex, length |-> readable]
            \in [buffer : Buffers, length : 1..SamplesPerChunk]
  BY <1>1, <1>2, FlushStep, PackTypes
<1>4. emitScratch' \in Seq([buffer : Buffers, length : 1..SamplesPerChunk])
  <2>1. emitScratch' = <<[buffer |-> poolIndex, length |-> readable]>>
    BY FlushStep
  <2>2. <<[buffer |-> poolIndex, length |-> readable]>>
          \in Seq([buffer : Buffers, length : 1..SamplesPerChunk])
    BY <1>3, QueueOfOne, Zenon
  <2> QED
    BY <2>1, <2>2, Zenon
<1>5. TypeOK'
  BY <1>1, <1>3, <1>4, FlushStep DEF TypeOK
<1>6. RingHoldsNewest'
  BY <1>2 DEF RingHoldsNewest
<1>7. emitScratch' # <<>>
  BY FlushStep
<1> QED
  BY <1>2, <1>5, <1>6, <1>7, FlushStep, Sizes DEF RingInv, ResidueShort

LEMMA ConsumeStep ==
  ASSUME RingInv, Consume
  PROVE  /\ phase = "consuming" /\ emitScratch # <<>>
         /\ emitScratch[1].buffer \in Buffers /\ emitScratch[1].length \in 1..SamplesPerChunk
         /\ out' \in Seq(Nat) /\ Len(out') = emitScratch[1].length
         /\ \A i \in 1..Len(out') : out'[i] = pool[emitScratch[1].buffer][i]
         /\ heard' = pool[emitScratch[1].buffer][emitScratch[1].length] /\ heard' \in Nat
         /\ overwritten' = 0
         /\ emitScratch' = Tail(emitScratch)
         /\ phase' = IF Len(emitScratch) = 1 THEN "idle" ELSE "consuming"
         /\ UNCHANGED <<samples, writePos, readable, pool, poolIndex, left, written>>
<1> DEFINE view == Head(emitScratch)
<1>1. /\ phase = "consuming" /\ emitScratch # <<>>
      /\ emitScratch \in Seq([buffer : Buffers, length : 1..SamplesPerChunk])
      /\ pool \in [Buffers -> [1..SamplesPerChunk -> Nat]]
  BY DEF Consume, RingInv, TypeOK
<1>2. view = emitScratch[1] /\ view \in [buffer : Buffers, length : 1..SamplesPerChunk]
  BY <1>1, QueueFacts, Zenon
<1>3. pool[view.buffer] \in [1..SamplesPerChunk -> Nat]
  BY <1>1, <1>2
<1>4. pool[view.buffer] \in Seq(Nat) /\ Len(pool[view.buffer]) = SamplesPerChunk
  BY <1>3, Sizes
<1>5. view.length \in Nat /\ 1 <= view.length /\ view.length <= SamplesPerChunk
  BY <1>2, Sizes
<1>6. out' = SubSeq(pool[view.buffer], 1, view.length)
  BY DEF Consume
<1>7. /\ out' \in Seq(Nat) /\ Len(out') = view.length
      /\ \A i \in 1..view.length : out'[i] = pool[view.buffer][i]
  BY <1>4, <1>5, <1>6
<1>8. heard' = out'[Len(out')]
  BY DEF Consume
<1>9. heard' = pool[view.buffer][view.length] /\ heard' \in Nat
  BY <1>3, <1>5, <1>7, <1>8
<1> QED
  BY <1>1, <1>2, <1>7, <1>9 DEF Consume, ringVars

LEMMA ConsumeRing == ASSUME RingInv, Consume PROVE RingInv'
<1>1. TypeOK /\ RingHoldsNewest /\ ResidueShort
  BY DEF RingInv
<1>2. emitScratch \in Seq([buffer : Buffers, length : 1..SamplesPerChunk])
  BY <1>1 DEF TypeOK
<1>3. /\ emitScratch' \in Seq([buffer : Buffers, length : 1..SamplesPerChunk])
      /\ emitScratch' = <<>> <=> Len(emitScratch) = 1
  BY <1>2, ConsumeStep, QueueFacts, Zenon
<1>4. emitScratch' = <<>> <=> phase' = "idle"
  BY <1>3, ConsumeStep
<1>5. TypeOK'
  <2>1. phase' \in {"idle", "writing", "chunking", "consuming"} /\ overwritten' \in Nat
    BY ConsumeStep
  <2> QED
    BY <1>1, <1>3, <2>1, ConsumeStep, Zenon DEF TypeOK, Slots
<1>6. RingHoldsNewest'
  BY <1>1, ConsumeStep DEF RingHoldsNewest, ReadSlot
<1> QED
  BY <1>1, <1>4, <1>5, <1>6, ConsumeStep DEF RingInv, ResidueShort

LEMMA ResetRing == ASSUME RingInv, Reset PROVE RingInv'
<1>1. /\ phase = "idle" /\ writePos' = 0 /\ readable' = 0 /\ poolIndex' = 0
      /\ emitScratch' = <<>> /\ out' = <<>> /\ heard' = written /\ overwritten' = 0
      /\ UNCHANGED <<samples, pool, phase, left, written>>
  BY DEF Reset
<1>2. TypeOK'
  BY <1>1, Sizes DEF RingInv, TypeOK, Slots, Buffers
<1>3. RingHoldsNewest' /\ ResidueShort'
  BY <1>1, Sizes DEF RingHoldsNewest, ResidueShort
<1> QED
  BY <1>1, <1>2, <1>3 DEF RingInv

LEMMA StutterRing == ASSUME RingInv, UNCHANGED vars PROVE RingInv'
  BY DEF RingInv, TypeOK, RingHoldsNewest, ReadSlot, ResidueShort, vars, ringVars, history

THEOREM Invariance == Spec => []RingInv
<1>1. RingInv /\ [Next]_vars => RingInv'
  BY PushRing, WriteRing, EmitRing, ReturnRing, FlushRing, ConsumeRing, ResetRing,
     StutterRing DEF Next
<1> QED
  BY InitRing, <1>1, PTL DEF Spec

-----------------------------------------------------------------------------
(* One step of the stream *)

\* The types of what the sums below are made of.
LEMMA Counted ==
  ASSUME StreamInv
  PROVE  /\ emitScratch \in Seq([buffer : Buffers, length : 1..SamplesPerChunk])
         /\ Len(emitScratch) \in Nat
         /\ (emitScratch = <<>> <=> Len(emitScratch) = 0)
         /\ heard \in Nat /\ overwritten \in Nat /\ written \in Nat
         /\ readable \in Nat /\ readable <= Capacity /\ left \in Nat
         /\ poolIndex \in Nat /\ poolIndex < PoolSize
         /\ pool \in [Buffers -> [1..SamplesPerChunk -> Nat]]
<1>1. TypeOK
  BY DEF StreamInv, RingInv
<1>2. emitScratch \in Seq([buffer : Buffers, length : 1..SamplesPerChunk])
  BY <1>1 DEF TypeOK
<1>3. Len(emitScratch) \in Nat /\ (emitScratch = <<>> <=> Len(emitScratch) = 0)
  BY <1>2, EmptySeq
<1> QED
  BY <1>1, <1>2, <1>3, Sizes DEF TypeOK, Buffers

LEMMA ViewTypes ==
  ASSUME TypeOK, NEW i \in Views
  PROVE  emitScratch[i].buffer \in Buffers /\ emitScratch[i].length \in 1..SamplesPerChunk
<1>1. emitScratch \in Seq([buffer : Buffers, length : 1..SamplesPerChunk])
  BY DEF TypeOK
<1>2. emitScratch[i] \in [buffer : Buffers, length : 1..SamplesPerChunk]
  BY <1>1, ElementOfSeq, Zenon DEF Views
<1> QED
  BY <1>2

\* A state without views.
NoViews ==
    /\ Pending = 0 /\ Len(emitScratch) = 0
    /\ ViewsPlaced /\ ViewsHold /\ ViewsFull

LEMMA Viewless == (emitScratch = <<>> => NoViews) /\ (emitScratch' = <<>> => NoViews')
<1>1. ASSUME emitScratch = <<>> PROVE NoViews
  <2>1. Len(emitScratch) = 0 /\ Views = {}
    BY <1>1 DEF Views
  <2> QED
    BY <1>1, <2>1 DEF NoViews, Pending, ViewsPlaced, ViewsHold, ViewsFull
<1>2. ASSUME emitScratch' = <<>> PROVE NoViews'
  <2>1. Len(emitScratch') = 0 /\ Views' = {}
    BY <1>2 DEF Views
  <2> QED
    BY <1>2, <2>1 DEF NoViews, Pending, ViewsPlaced, ViewsHold, ViewsFull
<1> QED
  BY <1>1, <1>2

LEMMA InitStream == Init => StreamInv
<1> SUFFICES ASSUME Init PROVE StreamInv
  OBVIOUS
<1>1. /\ emitScratch = <<>> /\ phase = "idle" /\ written = 0 /\ heard = 0
      /\ overwritten = 0 /\ readable = 0
  BY DEF Init
<1> QED
  BY <1>1, Viewless, InitRing, Sizes DEF StreamInv, Written, NoViews

LEMMA PushStream == ASSUME StreamInv, Push PROVE StreamInv'
<1>1. /\ phase = "idle" /\ phase' = "writing" /\ left' \in 1..MaxMessage
      /\ emitScratch' = <<>>
      /\ UNCHANGED <<readable, written, heard, overwritten>>
  BY DEF Push, ringVars, history
<1>2. emitScratch = <<>> /\ readable < SamplesPerChunk /\ written = heard + overwritten + readable
  <2>1. emitScratch = <<>> /\ readable < SamplesPerChunk
    BY <1>1 DEF StreamInv, RingInv, ResidueShort
  <2> QED
    BY <2>1, Counted, Viewless DEF StreamInv, Written, NoViews
<1>3. /\ Pending' = 0 /\ Len(emitScratch') = 0
      /\ ViewsPlaced' /\ ViewsHold' /\ ViewsFull'
  BY <1>1, Viewless DEF NoViews
<1>4. Written'
  BY <1>1, <1>2, <1>3, Counted DEF Written
<1>5. readable' + left' < SamplesPerChunk + MaxMessage
  BY <1>1, <1>2, Counted, Sizes
<1>6. RingInv'
  BY PushRing DEF StreamInv
<1> QED
  BY <1>1, <1>3, <1>4, <1>5, <1>6, Sizes DEF StreamInv

LEMMA WriteStream == ASSUME StreamInv, WriteSample PROVE StreamInv'
<1>1. /\ phase = "writing" /\ phase' = IF left = 1 THEN "chunking" ELSE "writing"
      /\ readable' = (IF readable < Capacity THEN readable + 1 ELSE readable)
      /\ written' = written + 1 /\ left' = left - 1
      /\ overwritten' = (IF readable = Capacity THEN overwritten + 1 ELSE overwritten)
      /\ emitScratch' = emitScratch /\ heard' = heard
  BY DEF WriteSample, Grown
<1>2. /\ emitScratch = <<>> /\ left > 0
      /\ readable + left < SamplesPerChunk + MaxMessage
      /\ written = heard + overwritten + readable
  <2>1. emitScratch = <<>> /\ left > 0 /\ readable + left < SamplesPerChunk + MaxMessage
    BY <1>1 DEF StreamInv, RingInv
  <2> QED
    BY <2>1, Counted, Viewless DEF StreamInv, Written, NoViews
<1>3. emitScratch' = <<>>
  BY <1>1, <1>2
<1>4. /\ Pending' = 0 /\ Len(emitScratch') = 0
      /\ ViewsPlaced' /\ ViewsHold' /\ ViewsFull'
  BY <1>3, Viewless DEF NoViews
<1>5. Written'
  <2>1. /\ heard \in Nat /\ overwritten \in Nat /\ readable \in Nat /\ readable <= Capacity
        /\ Capacity \in Nat
    BY Counted, Sizes
  <2>2. written' = heard' + overwritten' + readable'
    BY <1>1, <1>2, <2>1
  <2> QED
    BY <1>1, <1>4, <2>1, <2>2 DEF Written
<1>6. /\ phase' = "writing" => readable' + left' < SamplesPerChunk + MaxMessage
      /\ phase' = "chunking" => readable' <= Capacity /\ readable' < SamplesPerChunk + MaxMessage
  <2>1. /\ SamplesPerChunk \in Nat /\ MaxMessage \in Nat /\ Capacity \in Nat
        /\ readable \in Nat /\ readable <= Capacity /\ left \in Nat
    BY Counted, Sizes
  <2>2. readable' <= readable + 1 /\ readable' <= Capacity /\ readable' \in Nat
    BY <1>1, <2>1
  <2>3. phase' = "chunking" => left = 1
    BY <1>1
  <2> QED
    BY <1>1, <1>2, <2>1, <2>2, <2>3
<1>7. readable' \in Nat /\ 0 * SamplesPerChunk = 0
  BY <1>1, Counted, Sizes
<1>8. phase' = "chunking" => Yield(0, readable')
  BY <1>6, <1>7 DEF Yield
<1>9. RingInv'
  BY WriteRing DEF StreamInv
<1> QED
  BY <1>4, <1>5, <1>6, <1>8, <1>9, Sizes DEF StreamInv, Yield

\* The pool turns to the buffer behind the last view, and to none that a view
\* still has.
LEMMA PoolTurns ==
  ASSUME NEW n \in Nat, n < PoolSize, poolIndex \in Nat, poolIndex < PoolSize,
         poolIndex' = NextBuffer
  PROVE  /\ \A i \in 1..n : ViewBuffer(n + 1, i)' = ViewBuffer(n, i)
         /\ \A i \in 1..n : ViewBuffer(n, i) # poolIndex
         /\ ViewBuffer(n + 1, n + 1)' = poolIndex
<1>1. poolIndex' = IF poolIndex + 1 < PoolSize THEN poolIndex + 1 ELSE 0
  <2>1. PICK a \in 0..(2 * PoolSize - 1) : a = poolIndex + 1
    BY Sizes
  <2>2. a % PoolSize = IF a < PoolSize THEN a ELSE a - PoolSize
    BY Sizes, OneTurn
  <2> QED
    BY <2>1, <2>2, Sizes DEF NextBuffer
<1>2. PoolSize \in Nat
  BY Sizes
<1> QED
  BY <1>1, <1>2 DEF ViewBuffer

LEMMA EmitStream == ASSUME BurstFits, StreamInv, EmitChunk PROVE StreamInv'
<1>1. /\ phase = "chunking" /\ phase' = "chunking" /\ readable >= SamplesPerChunk
      /\ pool' = [pool EXCEPT ![poolIndex] = Packed(SamplesPerChunk)]
      /\ poolIndex' = NextBuffer /\ readable' = readable - SamplesPerChunk
      /\ emitScratch' = Append(emitScratch, [buffer |-> poolIndex, length |-> SamplesPerChunk])
      /\ UNCHANGED <<written, heard, overwritten, left>>
  BY DEF EmitChunk, history
<1>2. PICK n \in Nat : n = Len(emitScratch)
  BY Counted
<1>3. /\ n * SamplesPerChunk \in Int
      /\ (n + 1) * SamplesPerChunk = n * SamplesPerChunk + SamplesPerChunk
      /\ (n - 1) * SamplesPerChunk = n * SamplesPerChunk - SamplesPerChunk
      /\ 0 * SamplesPerChunk = 0
  BY Distributes, Sizes
<1>4. Yield(n, readable)
  BY <1>1, <1>2 DEF StreamInv
<1>5. n + 1 <= PoolSize
  <2>1. (n + 1) * SamplesPerChunk <= Capacity
    BY <1>1, <1>3, <1>4, Counted, Sizes DEF Yield
  <2>2. (n + 1) * SamplesPerChunk < SamplesPerChunk + MaxMessage
    BY <1>1, <1>3, <1>4, Counted, Sizes DEF Yield
  <2>3. PICK room \in Int : room = (PoolSize + 1) * SamplesPerChunk
    BY Sizes
  <2>4. PICK used \in Int : used = (n + 1) * SamplesPerChunk
    BY <1>3, Sizes
  <2>5. used < room
    BY <2>1, <2>2, <2>3, <2>4, Sizes DEF BurstFits
  <2>6. (n + 1) * SamplesPerChunk < (PoolSize + 1) * SamplesPerChunk
    BY <2>3, <2>4, <2>5
  <2> QED
    BY <2>6, Fewer, Sizes
<1>6. Yield(n + 1, readable')
  BY <1>1, <1>3, <1>4, Counted, Sizes DEF Yield
<1>7. /\ Len(emitScratch') = n + 1 /\ emitScratch' # <<>>
      /\ \A i \in 1..n : emitScratch'[i] = emitScratch[i]
      /\ emitScratch'[n + 1] = [buffer |-> poolIndex, length |-> SamplesPerChunk]
  <2> DEFINE S == [buffer : Buffers, length : 1..SamplesPerChunk]
             view == [buffer |-> poolIndex, length |-> SamplesPerChunk]
  <2>1. emitScratch \in Seq(S) /\ view \in S
    BY Counted, Sizes DEF Buffers
  <2> HIDE DEF S, view
  <2>2. /\ Len(Append(emitScratch, view)) = n + 1
        /\ \A i \in 1..n : Append(emitScratch, view)[i] = emitScratch[i]
        /\ Append(emitScratch, view)[n + 1] = view
    BY <1>2, <2>1, QueueGrows
  <2>3. Append(emitScratch, view) # <<>>
    <3>1. Len(<<>>) = 0
      OBVIOUS
    <3> QED
      BY <2>2, <3>1
  <2>4. emitScratch' = Append(emitScratch, view)
    BY <1>1 DEF view
  <2> QED
    BY <2>2, <2>3, <2>4 DEF view
<1>8. \A i \in 1..n : emitScratch[i].length = SamplesPerChunk
  BY <1>1, <1>2 DEF StreamInv, ViewsFull, Views
<1>9. Pending = n * SamplesPerChunk /\ Pending' = n * SamplesPerChunk + SamplesPerChunk
  <2>1. CASE n = 0
    <3>1. emitScratch = <<>>
      BY <1>2, <2>1, Counted
    <3>2. Pending = 0
      BY <3>1, Viewless DEF NoViews
    <3>3. Pending' = n * SamplesPerChunk + SamplesPerChunk
      BY <1>3, <1>7, <2>1, Sizes DEF Pending
    <3> QED
      BY <1>3, <2>1, <3>2, <3>3
  <2>2. CASE n > 0
    <3>1. emitScratch # <<>> /\ emitScratch[n].length = SamplesPerChunk
      BY <1>2, <1>8, <2>2, Counted
    <3>2. Pending = n * SamplesPerChunk
      BY <1>2, <1>3, <3>1, Sizes DEF Pending
    <3>3. Pending' = ((n + 1) - 1) * SamplesPerChunk + SamplesPerChunk
      BY <1>7 DEF Pending
    <3>4. (n + 1) - 1 = n
      OBVIOUS
    <3> QED
      BY <3>2, <3>3, <3>4
  <2> QED
    BY <2>1, <2>2
<1>10. Written'
  <2>1. written = heard + overwritten + n * SamplesPerChunk + readable
    BY <1>9 DEF StreamInv, Written
  <2> QED
    BY <1>1, <1>3, <1>9, <2>1, Counted, Sizes DEF Written
<1>11. /\ \A i \in 1..n : ViewBuffer(n + 1, i)' = ViewBuffer(n, i)
       /\ \A i \in 1..n : ViewBuffer(n, i) # poolIndex
       /\ ViewBuffer(n + 1, n + 1)' = poolIndex
  <2>1. poolIndex \in Nat /\ poolIndex < PoolSize /\ n < PoolSize
    BY <1>5, Counted, Sizes
  <2> QED
    BY <1>1, <2>1, PoolTurns
<1>12. \A i \in 1..n : emitScratch[i].buffer = ViewBuffer(n, i)
  BY <1>2 DEF StreamInv, ViewsPlaced, Views
<1>13. ASSUME NEW i \in 1..(n + 1)
       PROVE  emitScratch'[i].buffer = ViewBuffer(n + 1, i)'
  <2>1. CASE i = n + 1
    BY <1>7, <1>11, <2>1
  <2>2. CASE i \in 1..n
    BY <1>7, <1>11, <1>12, <2>2
  <2> QED
    BY <2>1, <2>2
<1>14. /\ \A j \in 1..SamplesPerChunk :
            Packed(SamplesPerChunk)[j] = heard + overwritten + n * SamplesPerChunk + j
       /\ poolIndex \in Buffers /\ pool'[poolIndex] = Packed(SamplesPerChunk)
  <2>1. TypeOK /\ RingHoldsNewest /\ SamplesPerChunk \in 0..SamplesPerChunk /\ readable \in Nat
    BY Sizes, Counted DEF StreamInv, RingInv
  <2>2. \A j \in 1..SamplesPerChunk : Packed(SamplesPerChunk)[j] = written - readable + j
    BY <1>1, <2>1, PackedHolds
  <2>3. written = heard + overwritten + n * SamplesPerChunk + readable
    BY <1>9 DEF StreamInv, Written
  <2>4. poolIndex \in Buffers /\ pool'[poolIndex] = Packed(SamplesPerChunk)
    BY <1>1, <2>1 DEF TypeOK
  <2>5. written - readable = heard + overwritten + n * SamplesPerChunk
    BY <1>3, <2>3, Counted
  <2> QED
    BY <2>2, <2>4, <2>5
<1>15. ASSUME NEW i \in 1..(n + 1), NEW j \in 1..emitScratch'[i].length
       PROVE  pool'[emitScratch'[i].buffer][j]
                 = heard' + overwritten' + (i - 1) * SamplesPerChunk + j
  <2>1. CASE i = n + 1
    <3>1. emitScratch'[i].buffer = poolIndex /\ j \in 1..SamplesPerChunk /\ i - 1 = n
      BY <1>7, <2>1
    <3> QED
      BY <1>1, <1>14, <3>1
  <2>2. CASE i \in 1..n
    <3>1. emitScratch'[i] = emitScratch[i] /\ j \in 1..emitScratch[i].length /\ i \in Views
      BY <1>2, <1>7, <2>2 DEF Views
    <3>2. pool[emitScratch[i].buffer][j] = heard + overwritten + (i - 1) * SamplesPerChunk + j
      BY <3>1 DEF StreamInv, ViewsHold
    <3>3. emitScratch[i].buffer # poolIndex /\ emitScratch[i].buffer \in Buffers
      BY <1>11, <1>12, <2>2, <3>1, ViewTypes DEF StreamInv, RingInv
    <3>4. pool'[emitScratch[i].buffer] = pool[emitScratch[i].buffer]
      BY <1>1, <3>3, Counted
    <3> QED
      BY <1>1, <3>1, <3>2, <3>4
  <2> QED
    BY <2>1, <2>2
<1>16. \A i \in 1..(n + 1) : emitScratch'[i].length = SamplesPerChunk
  BY <1>7, <1>8
<1>17. ViewsPlaced' /\ ViewsHold' /\ ViewsFull'
  BY <1>7, <1>13, <1>15, <1>16 DEF ViewsPlaced, ViewsHold, ViewsFull, Views
<1>18. RingInv'
  BY EmitRing DEF StreamInv
<1> QED
  BY <1>1, <1>5, <1>6, <1>7, <1>10, <1>17, <1>18 DEF StreamInv, Yield

LEMMA ReturnStream == ASSUME StreamInv, PushReturns PROVE StreamInv'
<1>1. /\ phase = "chunking" /\ phase' \in {"idle", "consuming"}
      /\ UNCHANGED <<readable, pool, poolIndex, emitScratch, written, heard, overwritten>>
  BY DEF PushReturns, ringVars, history
<1>2. RingInv'
  BY ReturnRing DEF StreamInv
<1> QED
  BY <1>1, <1>2 DEF StreamInv, Written, Pending, ViewsPlaced, ViewBuffer, ViewsHold,
     ViewsFull, Views

LEMMA FlushStream == ASSUME StreamInv, Flush PROVE StreamInv'
<1>1. RingInv /\ RingInv' /\ TypeOK /\ RingHoldsNewest
  BY FlushRing DEF StreamInv, RingInv
<1>2. /\ readable \in Nat /\ readable \in 1..SamplesPerChunk
      /\ poolIndex \in Nat /\ poolIndex < PoolSize /\ PoolSize \in Nat
      /\ heard \in Nat /\ overwritten \in Nat /\ written \in Nat
  BY <1>1, Counted, FlushStep, Sizes
<1>3. /\ Len(emitScratch') = 1 /\ emitScratch' # <<>>
      /\ emitScratch'[1] = [buffer |-> poolIndex, length |-> readable]
      /\ Views' = 1..1
  <2>1. emitScratch' = <<[buffer |-> poolIndex, length |-> readable]>>
    BY <1>1, FlushStep
  <2> QED
    BY <2>1 DEF Views
<1>4. emitScratch = <<>> /\ written = heard + overwritten + readable
  <2>1. emitScratch = <<>>
    BY <1>1, FlushStep DEF RingInv
  <2> QED
    BY <1>2, <2>1, Viewless DEF StreamInv, Written, NoViews
<1>5. readable' = 0 /\ heard' = heard /\ overwritten' = overwritten /\ written' = written
      /\ phase' = "consuming"
  BY <1>1, <1>2, FlushStep
<1>6. Pending' = readable
  BY <1>2, <1>3, Sizes DEF Pending
<1>7. Written'
  BY <1>2, <1>4, <1>5, <1>6 DEF Written
<1>8. ViewBuffer(1, 1)' = poolIndex
  <2>1. /\ ViewBuffer(0 + 1, 0 + 1)' = poolIndex
    <3>1. 0 \in Nat /\ 0 < PoolSize /\ poolIndex' = NextBuffer
      BY <1>1, <1>2, FlushStep, Sizes
    <3> QED
      BY <1>2, <3>1, PoolTurns
  <2> QED
    BY <2>1
<1>9. ViewsPlaced' /\ ViewsFull'
  BY <1>3, <1>5, <1>8 DEF ViewsPlaced, ViewsFull
<1>10. ASSUME NEW j \in 1..readable
       PROVE  pool'[poolIndex][j] = heard + overwritten + (1 - 1) * SamplesPerChunk + j
  <2>1. Packed(readable)[j] = written - readable + j
    <3>1. readable \in 0..SamplesPerChunk /\ readable <= readable
      BY <1>2, Sizes
    <3> QED
      BY <1>1, <3>1, PackedHolds
  <2>2. pool'[poolIndex] = Packed(readable)
    BY <1>1, FlushStep DEF TypeOK
  <2>3. (1 - 1) * SamplesPerChunk = 0
    BY Sizes
  <2> QED
    BY <1>2, <1>4, <2>1, <2>2, <2>3
<1>11. ViewsHold'
  BY <1>3, <1>5, <1>10 DEF ViewsHold
<1> QED
  BY <1>1, <1>3, <1>5, <1>7, <1>9, <1>11, Sizes DEF StreamInv

\* The consumer reads the view that goes on where the last one ended.
LEMMA Reads ==
  ASSUME StreamInv, Consume
  PROVE  /\ \A i \in 1..Len(out') : out'[i] = heard + overwritten + i
         /\ heard' = heard + overwritten + emitScratch[1].length
<1>1. RingInv /\ TypeOK
  BY DEF StreamInv, RingInv
<1>2. 1 \in Views /\ emitScratch[1].length \in 1..SamplesPerChunk
  BY <1>1, Counted, ConsumeStep DEF Views
<1>3. (1 - 1) * SamplesPerChunk = 0
  BY Sizes
<1>4. \A j \in 1..emitScratch[1].length :
        pool[emitScratch[1].buffer][j] = heard + overwritten + j
  BY <1>2, <1>3, Counted DEF StreamInv, ViewsHold
<1>5. emitScratch[1].length \in 1..emitScratch[1].length
  BY <1>2, Sizes
<1> QED
  BY <1>1, <1>4, <1>5, ConsumeStep

LEMMA ConsumeStream == ASSUME StreamInv, Consume PROVE StreamInv'
<1>1. RingInv /\ RingInv' /\ TypeOK
  BY ConsumeRing DEF StreamInv, RingInv
<1>2. /\ phase = "consuming" /\ phase' \in {"idle", "consuming"} /\ overwritten' = 0
      /\ UNCHANGED <<readable, pool, poolIndex, written>>
      /\ emitScratch # <<>> /\ emitScratch' = Tail(emitScratch)
      /\ emitScratch[1].length \in 1..SamplesPerChunk
  BY <1>1, ConsumeStep
<1>3. PICK n \in Nat : n = Len(emitScratch)
  BY Counted
<1>4. /\ n > 0 /\ Len(emitScratch') = n - 1
      /\ \A i \in 1..(n - 1) : emitScratch'[i] = emitScratch[i + 1]
      /\ emitScratch' = <<>> <=> n = 1
  <2>1. /\ Len(emitScratch) \in Nat \ {0} /\ Len(Tail(emitScratch)) = Len(emitScratch) - 1
        /\ \A i \in 1..(Len(emitScratch) - 1) : Tail(emitScratch)[i] = emitScratch[i + 1]
        /\ Tail(emitScratch) = <<>> <=> Len(emitScratch) = 1
    BY <1>2, Counted, QueueFacts, Zenon
  <2> QED
    BY <1>2, <1>3, <2>1
<1>5. heard' = heard + overwritten + emitScratch[1].length
  BY Reads
<1>6. /\ heard \in Nat /\ overwritten \in Nat /\ written \in Nat /\ readable \in Nat
      /\ emitScratch[1].length \in Nat /\ SamplesPerChunk \in Nat
  <2>1. SamplesPerChunk \in Nat /\ emitScratch[1].length \in Nat
    BY <1>2, Sizes
  <2> QED
    BY <2>1, Counted
<1>7. CASE n = 1
  <2>1. emitScratch' = <<>> /\ Pending = emitScratch[1].length
    BY <1>2, <1>3, <1>4, <1>6, <1>7, Sizes DEF Pending
  <2>2. NoViews'
    BY <2>1, Viewless
  <2>3. Written'
    BY <1>2, <1>5, <1>6, <2>1, <2>2 DEF StreamInv, Written, NoViews
  <2> QED
    BY <1>1, <1>2, <2>2, <2>3, Sizes DEF StreamInv, NoViews
<1>8. CASE n > 1
  <2>1. emitScratch[1].length = SamplesPerChunk
    BY <1>3, <1>8 DEF StreamInv, ViewsFull, Views
  <2>2. ASSUME NEW i \in 1..(n - 1)
        PROVE  /\ i + 1 \in Views /\ emitScratch'[i] = emitScratch[i + 1]
               /\ i * SamplesPerChunk = (i - 1) * SamplesPerChunk + SamplesPerChunk
               /\ (i - 1) * SamplesPerChunk \in Int
    <3>1. i \in Int /\ i - 1 \in Int
      OBVIOUS
    <3>2. /\ (i - 1) * SamplesPerChunk = i * SamplesPerChunk - SamplesPerChunk
          /\ i * SamplesPerChunk \in Int /\ (i - 1) * SamplesPerChunk \in Int
      BY <1>6, <3>1, Distributes
    <3> QED
      BY <1>3, <1>4, <1>6, <3>2 DEF Views
  <2>3. ViewsPlaced'
    <3>1. ASSUME NEW i \in 1..(n - 1)
          PROVE  emitScratch'[i].buffer = ViewBuffer(n - 1, i)'
      <4>1. emitScratch[i + 1].buffer = ViewBuffer(n, i + 1)
        BY <1>3, <2>2 DEF StreamInv, ViewsPlaced
      <4>2. ViewBuffer(n, i + 1) = ViewBuffer(n - 1, i)'
        <5>1. i \in Int /\ poolIndex \in Int /\ poolIndex' = poolIndex /\ PoolSize \in Int
          BY <1>2, Counted, Sizes
        <5>2. /\ poolIndex - n + (i + 1) = poolIndex' - (n - 1) + i
          BY <5>1
        <5> QED
          BY <5>1, <5>2 DEF ViewBuffer
      <4> QED
        BY <2>2, <4>1, <4>2
    <3> QED
      BY <1>4, <3>1 DEF ViewsPlaced, Views
  <2>4. ViewsHold'
    <3>1. ASSUME NEW i \in 1..(n - 1), NEW j \in 1..emitScratch'[i].length
          PROVE  pool'[emitScratch'[i].buffer][j]
                    = heard' + overwritten' + (i - 1) * SamplesPerChunk + j
      <4>1. emitScratch[i + 1].length \in 1..SamplesPerChunk
        BY <1>1, <2>2, ViewTypes
      <4>2. j \in Nat /\ j \in 1..emitScratch[i + 1].length
        BY <2>2, <4>1
      <4>3. pool[emitScratch[i + 1].buffer][j]
              = heard + overwritten + ((i + 1) - 1) * SamplesPerChunk + j
        BY <2>2, <4>2 DEF StreamInv, ViewsHold
      <4>4. ((i + 1) - 1) * SamplesPerChunk = (i - 1) * SamplesPerChunk + SamplesPerChunk
        <5>1. (i + 1) - 1 = i
          OBVIOUS
        <5> QED
          BY <2>2, <5>1
      <4>5. PICK base \in Int : base = (i - 1) * SamplesPerChunk
        BY <2>2
      <4>6. heard' + overwritten' + base + j = heard + overwritten + (base + SamplesPerChunk) + j
        BY <1>2, <1>5, <1>6, <2>1, <4>2, <4>5
      <4> QED
        BY <1>2, <2>2, <4>3, <4>4, <4>5, <4>6
    <3> QED
      BY <1>4, <3>1 DEF ViewsHold, Views
  <2>5. ViewsFull'
    <3>1. ASSUME NEW i \in 1..(n - 1), i < n - 1
          PROVE  emitScratch'[i].length = SamplesPerChunk
      BY <1>3, <2>2, <3>1 DEF StreamInv, ViewsFull
    <3> QED
      BY <1>2, <1>4, <3>1 DEF ViewsFull, Views
  <2>6. Pending = Pending' + SamplesPerChunk /\ Pending' \in Int
    <3>1. n - 1 \in 1..(n - 1) /\ (n - 1) + 1 = n
      BY <1>8
    <3>2. emitScratch'[n - 1] = emitScratch[n] /\ n \in Views
      BY <2>2, <3>1
    <3>3. emitScratch[n].length \in Nat
      <4>1. emitScratch[n].length \in 1..SamplesPerChunk
        BY <1>1, <3>2, ViewTypes
      <4> QED
        BY <4>1
    <3>4. Pending = (n - 1) * SamplesPerChunk + emitScratch[n].length
      BY <1>2, <1>3 DEF Pending
    <3>5. Pending' = ((n - 1) - 1) * SamplesPerChunk + emitScratch[n].length
      BY <1>4, <1>8, <3>2 DEF Pending
    <3>6. /\ (n - 1) * SamplesPerChunk \in Int
          /\ ((n - 1) - 1) * SamplesPerChunk = (n - 1) * SamplesPerChunk - SamplesPerChunk
      <4>1. n - 1 \in Int /\ SamplesPerChunk \in Int
        BY <1>6
      <4> QED
        BY <4>1, Distributes
    <3>7. PICK base \in Int : base = (n - 1) * SamplesPerChunk
      BY <3>6
    <3>8. /\ Pending = base + emitScratch[n].length
          /\ Pending' = base - SamplesPerChunk + emitScratch[n].length
      BY <3>4, <3>5, <3>6, <3>7
    <3> QED
      BY <1>6, <3>3, <3>8
  <2>7. Written'
    BY <1>2, <1>5, <1>6, <2>1, <2>6 DEF StreamInv, Written
  <2>8. Len(emitScratch') <= PoolSize
    BY <1>3, <1>4, Sizes DEF StreamInv
  <2> QED
    BY <1>1, <1>2, <2>3, <2>4, <2>5, <2>7, <2>8 DEF StreamInv
<1> QED
  BY <1>3, <1>4, <1>7, <1>8

LEMMA ResetStream == ASSUME StreamInv, Reset PROVE StreamInv'
<1>1. /\ phase = "idle" /\ phase' = phase /\ readable' = 0 /\ emitScratch' = <<>>
      /\ heard' = written /\ overwritten' = 0 /\ written' = written
  BY DEF Reset
<1>2. RingInv' /\ NoViews' /\ written \in Nat
  BY <1>1, ResetRing, Viewless, Counted DEF StreamInv
<1> QED
  BY <1>1, <1>2, Sizes DEF StreamInv, Written, NoViews

LEMMA StutterStream == ASSUME StreamInv, UNCHANGED vars PROVE StreamInv'
<1>1. RingInv'
  BY StutterRing DEF StreamInv
<1> QED
  BY <1>1 DEF StreamInv, Written, Pending, ViewsPlaced, ViewBuffer, ViewsHold, ViewsFull,
     Views, Yield, vars, ringVars, history

-----------------------------------------------------------------------------
(* The theorems *)

\* The positions of the ring stay in it, and nothing is read past a buffer
\* (audio-processor.ts 30-91, 166-211).
THEOREM TypeCorrect == Spec => []TypeOK
<1>1. RingInv => TypeOK
  BY DEF RingInv
<1> QED
  BY <1>1, Invariance, PTL

\* For every capacity and every chunk size the ring holds the newest samples of
\* the stream, in order (audio-processor.ts 52-91).
THEOREM RingIsTheNewest == Spec => []RingHoldsNewest
<1>1. RingInv => RingHoldsNewest
  BY DEF RingInv
<1> QED
  BY <1>1, Invariance, PTL

\* One buffer is enough for a flush (audio-processor.ts 183-211).
THEOREM ResidueStaysShort == Spec => []ResidueShort
<1>1. RingInv => ResidueShort
  BY DEF RingInv
<1> QED
  BY <1>1, Invariance, PTL

LEMMA StreamInvariance == BurstFits => (Spec => []StreamInv)
<1> SUFFICES ASSUME BurstFits PROVE Spec => []StreamInv
  OBVIOUS
<1>1. StreamInv /\ [Next]_vars => StreamInv'
  BY PushStream, WriteStream, EmitStream, ReturnStream, FlushStream, ConsumeStream,
     ResetStream, StutterStream DEF Next
<1> QED
  BY InitStream, <1>1, PTL DEF Spec

\* The pool is the only way in which the stream can be corrupted: while the
\* chunks of one message fit it, the consumer reads all the samples in order
\* but those a full ring has overwritten (audio-processor.ts 166-211, gateway.ts 291-302).
THEOREM StreamIsAccounted == BurstFits => (Spec => StreamAccounted)
<1> SUFFICES ASSUME BurstFits PROVE Spec => StreamAccounted
  OBVIOUS
<1>1. StreamInv /\ [Next]_vars
        => [Consumed => \A i \in 1..Len(out') : out'[i] = heard + overwritten + i]_vars
  <2> SUFFICES ASSUME StreamInv, [Next]_vars, Consumed
               PROVE  \A i \in 1..Len(out') : out'[i] = heard + overwritten + i
    OBVIOUS
  <2>1. Consume
    BY DEF Consumed, Next, Push, WriteSample, EmitChunk, PushReturns, Flush, Reset, vars
  <2> QED
    BY <2>1, Reads
<1> QED
  BY StreamInvariance, <1>1, PTL DEF Spec, StreamAccounted

\* What the comment beside the pool says holds as far as the messages are small
\* or the ring is: no two views of a call share a buffer
\* (audio-processor.ts 143-147, 161-179, 274-278).
THEOREM PoolSuffices == BurstFits => (Spec => []PoolHoldsBurst)
<1> SUFFICES ASSUME BurstFits PROVE Spec => []PoolHoldsBurst
  OBVIOUS
<1>1. StreamInv => PoolHoldsBurst
  <2> SUFFICES ASSUME StreamInv, NEW i \in Views, NEW j \in Views,
                      emitScratch[i].buffer = emitScratch[j].buffer
               PROVE  i = j
    BY DEF PoolHoldsBurst, Views
  <2>1. /\ Len(emitScratch) \in Nat /\ Len(emitScratch) <= PoolSize
        /\ poolIndex \in Int /\ PoolSize \in Nat
    BY Sizes DEF StreamInv, RingInv, TypeOK, Buffers
  <2>2. /\ i \in 1..Len(emitScratch) /\ j \in 1..Len(emitScratch)
        /\ ViewBuffer(Len(emitScratch), i) = ViewBuffer(Len(emitScratch), j)
    BY DEF StreamInv, ViewsPlaced, Views
  <2> QED
    BY <2>1, <2>2 DEF ViewBuffer
<1> QED
  BY <1>1, StreamInvariance, PTL

\* Between two calls every sample that came in has been forwarded, cleared or
\* overwritten, but for less than a chunk that waits in the ring
\* (audio-processor.ts 166-211).
THEOREM NothingHeldBack ==
    BurstFits =>
        (Spec => [](phase = "idle" =>
                        /\ written = heard + overwritten + readable
                        /\ readable < SamplesPerChunk))
<1> SUFFICES ASSUME BurstFits
             PROVE  Spec => [](phase = "idle" =>
                                   /\ written = heard + overwritten + readable
                                   /\ readable < SamplesPerChunk)
  OBVIOUS
<1>1. StreamInv => (phase = "idle" =>
                        /\ written = heard + overwritten + readable
                        /\ readable < SamplesPerChunk)
  BY DEF StreamInv, RingInv, TypeOK, ResidueShort, Written, Pending
<1> QED
  BY <1>1, StreamInvariance, PTL

\* A ring that holds a message beside the residue of those before it loses
\* nothing, whatever the pool (audio-processor.ts 30-50, 52-70, 166-179).
THEOREM RoomyRingKeepsAll ==
    SamplesPerChunk + MaxMessage <= Capacity + 1 => (Spec => [](overwritten = 0))
<1> SUFFICES ASSUME SamplesPerChunk + MaxMessage <= Capacity + 1
             PROVE  Spec => [](overwritten = 0)
  OBVIOUS
<1> DEFINE Roomy == /\ overwritten = 0
                    /\ phase = "writing" => readable + left < SamplesPerChunk + MaxMessage
<1>1. Init => Roomy
  BY DEF Init
<1>2. RingInv /\ Roomy /\ [Next]_vars => Roomy'
  <2> SUFFICES ASSUME RingInv, Roomy, [Next]_vars PROVE Roomy'
    OBVIOUS
  <2>1. /\ readable \in Nat /\ left \in Nat /\ SamplesPerChunk \in Nat
        /\ Capacity \in Nat /\ MaxMessage \in Nat
        /\ phase = "idle" => readable < SamplesPerChunk
        /\ phase = "writing" => left > 0
    BY Sizes DEF RingInv, TypeOK, ResidueShort
  <2>2. CASE Push
    <3>1. PICK n \in 1..MaxMessage : left' = n
      BY <2>2 DEF Push
    <3>2. phase = "idle" /\ readable' = readable /\ overwritten' = overwritten
      BY <2>2 DEF Push, ringVars, history
    <3>3. readable + n < SamplesPerChunk + MaxMessage
      BY <2>1, <3>2
    <3> QED
      BY <3>1, <3>2, <3>3
  <2>3. CASE WriteSample
    <3>1. readable < Capacity
      BY <2>1, <2>3 DEF WriteSample
    <3> QED
      BY <2>1, <2>3, <3>1 DEF WriteSample, Grown
  <2>4. CASE EmitChunk \/ PushReturns \/ Flush \/ Consume \/ Reset
    BY <2>4 DEF EmitChunk, PushReturns, Flush, Consume, Reset, history
  <2>5. CASE UNCHANGED vars
    BY <2>5 DEF vars, ringVars, history
  <2> QED
    BY <2>2, <2>3, <2>4, <2>5 DEF Next
<1> QED
  BY <1>1, <1>2, Invariance, PTL DEF Spec

-----------------------------------------------------------------------------
(* AudioProcessor implements AudioQueue *)

\* What is held is what is in views and in the ring.
LEMMA HeldIs ==
  /\ StreamInv => Queue!Held = Pending + readable
  /\ StreamInv /\ emitScratch = <<>> => Queue!Held = readable
<1>1. ASSUME StreamInv, NEW n \in Nat, n = Len(emitScratch), emitScratch # <<>>
      PROVE  Pending \in Nat
  <2>1. n # 0
    BY <1>1, Counted
  <2>2. n - 1 \in Nat /\ SamplesPerChunk \in Nat /\ n \in Views
    BY <1>1, <2>1, Sizes DEF Views
  <2>3. (n - 1) * SamplesPerChunk \in Nat
    BY <2>2
  <2>4. emitScratch[n].length \in Nat
    BY <1>1, <2>2, ViewTypes, Sizes DEF StreamInv, RingInv
  <2> QED
    BY <1>1, <2>3, <2>4 DEF Pending
<1>2. StreamInv => Pending \in Nat
  BY <1>1, Counted DEF Pending
<1>3. ASSUME StreamInv PROVE Queue!Held = Pending + readable
  <2>1. Pending \in Nat /\ written = heard + overwritten + Pending + readable
    BY <1>2, <1>3 DEF StreamInv, Written
  <2>2. heard \in Nat /\ overwritten \in Nat /\ written \in Nat /\ readable \in Nat
    BY <1>3, Counted
  <2> QED
    BY <2>1, <2>2 DEF Queue!Held
<1> QED
  BY <1>3, Viewless, Counted DEF NoViews

\* The consumer never takes more than is held.
LEMMA TakenIsHeld ==
  ASSUME StreamInv, Consume
  PROVE  emitScratch[1].length <= Queue!Held
<1>1. PICK n \in Nat : n = Len(emitScratch)
  BY Counted
<1>2. emitScratch # <<>> /\ emitScratch[1].length \in 1..SamplesPerChunk /\ n > 0
  BY <1>1, Counted, ConsumeStep DEF StreamInv
<1>3. PICK first \in 1..SamplesPerChunk : first = emitScratch[1].length
  BY <1>2
<1>4. readable \in Nat /\ SamplesPerChunk \in Nat
  BY Counted, Sizes
<1>5. Queue!Held = (n - 1) * SamplesPerChunk + emitScratch[n].length + readable
  BY <1>1, <1>2, HeldIs DEF Pending
<1>6. CASE n = 1
  <2>1. (n - 1) * SamplesPerChunk = 0
    BY <1>6, Sizes
  <2>2. Queue!Held = first + readable
    BY <1>3, <1>4, <1>5, <1>6, <2>1
  <2> QED
    BY <1>3, <1>4, <2>2
<1>7. CASE n > 1
  <2>1. n - 2 \in Nat /\ n - 1 \in Int /\ (n - 1) - 1 = n - 2
    BY <1>7
  <2>2. PICK rest \in Nat : rest = (n - 2) * SamplesPerChunk
    BY <1>4, <2>1
  <2>3. /\ (n - 1) * SamplesPerChunk \in Int
        /\ ((n - 1) - 1) * SamplesPerChunk = (n - 1) * SamplesPerChunk - SamplesPerChunk
    BY <1>4, <2>1, Distributes
  <2>4. (n - 1) * SamplesPerChunk = rest + SamplesPerChunk
    BY <1>4, <2>1, <2>2, <2>3
  <2>5. emitScratch[n].length \in Nat
    BY <1>1, <1>2, ViewTypes, Sizes DEF Views, StreamInv, RingInv
  <2>6. Queue!Held = rest + SamplesPerChunk + emitScratch[n].length + readable
    BY <1>5, <2>4
  <2> QED
    BY <1>3, <1>4, <2>2, <2>5, <2>6
<1> QED
  BY <1>2, <1>6, <1>7

\* As long as the chunks of one message fit the pool, ring, pool and views are
\* one queue that drops its oldest samples when it is full, and nothing else
\* (audio-processor.ts 36-70, 161-216, gateway.ts 291-302).
THEOREM QueueRefinement == BurstFits => (Spec => ImplementsQueue)
<1> SUFFICES ASSUME BurstFits PROVE Spec => ImplementsQueue
  OBVIOUS
<1>1. Init => Queue!Init
  BY DEF Init, Queue!Init
<1>2. StreamInv /\ [Next]_vars => [Queue!Next]_(Queue!vars)
  <2> SUFFICES ASSUME StreamInv, [Next]_vars PROVE [Queue!Next]_(Queue!vars)
    OBVIOUS
  <2>1. CASE Push \/ EmitChunk \/ PushReturns \/ Flush \/ UNCHANGED vars
    BY <2>1 DEF Push, EmitChunk, PushReturns, Flush, vars, history, Queue!vars
  <2>2. CASE WriteSample
    <3>1. Queue!Held = readable
      <4>1. emitScratch = <<>>
        BY <2>2 DEF WriteSample, StreamInv, RingInv
      <4> QED
        BY <4>1, HeldIs
    <3>2. Queue!Arrive
      BY <2>2, <3>1 DEF WriteSample, Queue!Arrive
    <3> QED
      BY <3>2 DEF Queue!Next
  <2>3. CASE Consume
    <3>1. PICK n \in 1..SamplesPerChunk : n = emitScratch[1].length
      BY <2>3, ConsumeStep DEF StreamInv
    <3>2. /\ out' \in Seq(Nat) /\ Len(out') = n
          /\ \A i \in 1..n : out'[i] = heard + overwritten + i
          /\ heard' = heard + overwritten + n /\ n <= Queue!Held
          /\ overwritten' = 0 /\ written' = written
      BY <2>3, <3>1, ConsumeStep, Reads, TakenIsHeld DEF StreamInv
    <3>3. out' = [i \in 1..n |-> heard + overwritten + i]
      BY <3>2
    <3>4. Queue!Take
      BY <3>1, <3>2, <3>3 DEF Queue!Take
    <3> QED
      BY <3>4 DEF Queue!Next
  <2>4. CASE Reset
    <3>1. Queue!Forget
      BY <2>4 DEF Reset, Queue!Forget
    <3> QED
      BY <3>1 DEF Queue!Next
  <2> QED
    BY <2>1, <2>2, <2>3, <2>4 DEF Next
<1> QED
  BY <1>1, <1>2, StreamInvariance, PTL DEF Spec, ImplementsQueue, Queue!Spec

=============================================================================
