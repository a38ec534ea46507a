------------------------------- MODULE Spectrum -------------------------------
(***************************************************************************)
(* The transform under the voice gate (src/vad-util.ts): the window an     *)
(* analysis leaves in its workspace, and the in-place radix-2 FFT.         *)
(*                                                                         *)
(* Numbers are those of a field of Prime elements in which 2 has a root,   *)
(* so that the cosines and sines of the first stages exist and the         *)
(* arithmetic is exact: what the FFT does to its input does not depend on  *)
(* the field.  The rounding of a real FFT, the entropy and the ratios      *)
(* taken from the powers are not modelled.                                 *)
(***************************************************************************)
EXTENDS Integers, Sequences, Functions, SequencesExt

CONSTANTS
    Prime,          \* the field has the numbers 0..Prime-1
    CosOf, SinOf,   \* of 2 pi / len, for each length of a stage
    MinFftSize,     \* 64
    FftSizeAsked,   \* DEFAULT_FFT_SIZE
    Hann            \* the window, at 0..fftSize-1

\* nextPowerOfTwo().
NextPowerOfTwo(n) ==
    LET doubled[v \in Nat] == IF v < n THEN doubled[2 * v] ELSE v IN doubled[1]

fftSize == NextPowerOfTwo(IF FftSizeAsked < MinFftSize THEN MinFftSize ELSE FftSizeAsked)

Points == 0..(fftSize - 1)

ASSUME SpectrumAssumption ==
    /\ Prime \in Nat \ {0}
    /\ \A n \in Points : Hann[n] \in 0..(Prime - 1)
    /\ CosOf[2] = Prime - 1 /\ SinOf[2] = 0
    /\ \A len \in DOMAIN CosOf \ {2} :
         /\ (CosOf[len] * CosOf[len] + SinOf[len] * SinOf[len]) % Prime = 1
         /\ (2 * CosOf[len] * CosOf[len] - 1) % Prime = CosOf[len \div 2]
         /\ (2 * CosOf[len] * SinOf[len]) % Prime = SinOf[len \div 2]

\* Complex numbers, as the code keeps them in two arrays.
Complex(re, im) == [re |-> re % Prime, im |-> im % Prime]
Plus(a, b) == Complex(a.re + b.re, a.im + b.im)
Minus(a, b) == Complex(a.re - b.re, a.im - b.im)
Times(a, b) == Complex(a.re * b.re - a.im * b.im, a.re * b.im + a.im * b.re)
One == Complex(1, 0)

-----------------------------------------------------------------------------
(* The transform *)

\* The next index of the reversed order: a carry that runs from the left.
Reversed[i \in Points] ==
    LET carry[bit \in Points, j \in Points] ==
            IF (j \div bit) % 2 = 1 THEN carry[bit \div 2, j - bit] ELSE j + bit
    IN  IF i = 0 THEN 0 ELSE carry[fftSize \div 2, Reversed[i - 1]]

\* The first loop: each pair is exchanged once.
Permuted(x) ==
    LET exchange(y, i) == IF i < Reversed[i]
                          THEN [y EXCEPT ![i] = y[Reversed[i]], ![Reversed[i]] = y[i]]
                          ELSE y
    IN  FoldLeft(exchange, x, [i \in 1..(fftSize - 1) |-> i])

\* One turn of the second loop: the butterflies of length len.
Stage(x, len) ==
    LET half == len \div 2
        wlen == Complex(CosOf[len], -SinOf[len])
        w[k \in Nat] == IF k = 0 THEN One ELSE Times(w[k - 1], wlen)
    IN  [m \in Points |->
            LET k == m % len
            IN  IF k < half THEN Plus(x[m], Times(x[m + half], w[k]))
                ELSE Minus(x[m - half], Times(x[m], w[k - half]))]

\* fftInPlace().
Fft(x) ==
    LET upTo[len \in Nat] == IF len = 1 THEN Permuted(x) ELSE Stage(upTo[len \div 2], len)
    IN  upTo[fftSize]

\* Mutant: the workspace is not cleared.
WindowedStale(wave, n, left) ==
    [m \in Points |-> IF m < n THEN (wave[m] * Hann[m]) % Prime ELSE left[m]]

\* windowed.fill(0), and then the samples of an n-sample frame that fit, in
\* the place of what the frame before left.
Windowed(wave, n, left) ==
    [m \in Points |-> IF m < n THEN (wave[m] * Hann[m]) % Prime ELSE 0]

\* analyzeSpectrum(): real.set(windowed), imag.fill(0), fftInPlace().
Analyzed(windowed) == Fft([m \in Points |-> Complex(windowed[m], 0)])

-----------------------------------------------------------------------------

\* What the transform is meant to compute, term by term, of a frame.
Dft(wave, n) ==
    LET root == Complex(CosOf[fftSize], -SinOf[fftSize])
        turned[k \in Nat] == IF k = 0 THEN One ELSE Times(turned[k - 1], root)
        turn == [k \in Points |-> turned[k]]
        term(k, m) == Times(Complex(wave[m] * Hann[m], 0), turn[(k * m) % fftSize])
        heard == {m \in Points : m < n}
    IN  [k \in Points |->
            FoldFunction(Plus, Complex(0, 0), [m \in heard |-> term(k, m)])]

=============================================================================
