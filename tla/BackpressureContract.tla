------------------------ MODULE BackpressureContract ------------------------
(***************************************************************************)
(* What a gateway session promises about the audio it relays, without the  *)
(* means by which it does so: no provider connection, no timers, no        *)
(* client socket.  A client's audio flows, is paused, or has ended; the    *)
(* audio accepted and not yet taken by the provider is the backlog.        *)
(*                                                                         *)
(* Audio is only accepted below the high-water mark and below the hard     *)
(* limit, acceptance that reaches the mark pauses the client in the same   *)
(* step, and the client is only resumed below both.  GatewaySession is     *)
(* shown to implement this module.                                         *)
(***************************************************************************)
EXTENDS Integers

CONSTANTS
    Limit,      \* hard limit on the backlog, in bytes (MAX_BUFFERED_BYTES)
    Frame,      \* the most one accepted frame adds to the backlog
    Marks       \* the values the high-water mark may take

VARIABLES
    flow,       \* "flowing", "paused" or "ended"
    backlog,    \* bytes of audio accepted and not yet taken by the provider
    mark        \* the high-water mark in force

vars == <<flow, backlog, mark>>

Init ==
    /\ flow = "flowing"
    /\ backlog = 0
    /\ mark \in Marks

\* Room for one more frame, and the condition for resuming a paused client.
Room == backlog < mark /\ backlog < Limit

\* A frame is accepted.  A frame that brings the backlog to the mark leaves
\* the client paused, whatever its state was.
Accept ==
    /\ flow # "ended"
    /\ Room
    /\ \E n \in 1..Frame : backlog' = backlog + n
    /\ flow' \in {"flowing", "paused"}
    /\ backlog' >= mark => flow' = "paused"
    /\ UNCHANGED mark

\* The provider takes part of the backlog; it may do so after the end too.
Drain ==
    /\ backlog > 0
    /\ backlog' \in 0..(backlog - 1)
    /\ UNCHANGED <<flow, mark>>

Pause ==
    /\ flow = "flowing"
    /\ flow' = "paused"
    /\ UNCHANGED <<backlog, mark>>

Resume ==
    /\ flow = "paused"
    /\ Room
    /\ flow' = "flowing"
    /\ UNCHANGED <<backlog, mark>>

\* The adaptive controller moves the mark.
Adapt ==
    /\ mark' \in Marks
    /\ UNCHANGED <<flow, backlog>>

End ==
    /\ flow # "ended"
    /\ flow' = "ended"
    /\ UNCHANGED <<backlog, mark>>

Next == Accept \/ Drain \/ Pause \/ Resume \/ Adapt \/ End

Spec == Init /\ [][Next]_vars

=============================================================================
