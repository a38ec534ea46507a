----------------------------- MODULE AudioQueue -----------------------------
(***************************************************************************)
(* What the audio path promises its consumer, without ring, pool or views: *)
(* a queue of samples that drops its oldest one when it is full.  The      *)
(* consumer takes the next samples, a chunk at most at a time, or has      *)
(* everything forgotten.                                                   *)
(*                                                                         *)
(* A sample is its position in the stream, so that the queue is the        *)
(* interval from heard + overwritten + 1 to written.  AudioProcessor is    *)
(* shown to implement this module.                                         *)
(***************************************************************************)
EXTENDS Integers

CONSTANTS
    Capacity,       \* samples the queue holds
    SamplesPerChunk \* samples taken at once, at most

VARIABLES
    written,        \* samples that have come
    heard,          \* the last sample taken or forgotten
    overwritten,    \* samples after it that were dropped
    out             \* the samples taken last

vars == <<written, heard, overwritten, out>>

Init ==
    /\ written = 0 /\ heard = 0 /\ overwritten = 0
    /\ out = <<>>

Held == written - heard - overwritten

\* A sample comes.  Only a full queue drops one, and only its oldest.
Arrive ==
    /\ written' = written + 1
    /\ overwritten' = IF Held = Capacity THEN overwritten + 1 ELSE overwritten
    /\ UNCHANGED <<heard, out>>

\* The consumer takes the oldest samples held.
Take ==
    /\ \E n \in 1..SamplesPerChunk :
         /\ n <= Held
         /\ out' = [i \in 1..n |-> heard + overwritten + i]
         /\ heard' = heard + overwritten + n
    /\ overwritten' = 0
    /\ UNCHANGED written

\* input_audio_buffer.clear.
Forget ==
    /\ heard' = written
    /\ overwritten' = 0
    /\ out' = <<>>
    /\ UNCHANGED written

Next == Arrive \/ Take \/ Forget

Spec == Init /\ [][Next]_vars

=============================================================================
