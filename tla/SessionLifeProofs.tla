-------------------------- MODULE SessionLifeProofs --------------------------
(* What follows from the steps of SessionLife alone. *)
EXTENDS SessionLife, TLAPS

\* Whoever relies on this module relies on EndedTogether (gateway.ts 139-176,
\* 244-255, server.ts 167-187): it follows from the steps above alone.
THEOREM LifeEnds == Spec => []EndedTogether
<1>1. Init => EndedTogether
  BY DEF Init, EndedTogether
<1>2. EndedTogether /\ [Next]_vars => EndedTogether'
  <2> SUFFICES ASSUME EndedTogether, [Next]_vars PROVE EndedTogether'
    OBVIOUS
  <2>1. CASE Arrive
    BY <2>1 DEF EndedTogether, Arrive
  <2>2. CASE Begin
    BY <2>2 DEF EndedTogether, Begin
  <2>3. CASE Advance
    BY <2>3 DEF EndedTogether, Advance
  <2>4. CASE Reject
    BY <2>4 DEF EndedTogether, Reject, Ended
  <2>5. CASE Close
    BY <2>5 DEF EndedTogether, Close, Ended
  <2>6. CASE PeerCloses
    BY <2>6 DEF EndedTogether, PeerCloses
  <2>7. CASE SocketCloses
    BY <2>7 DEF EndedTogether, SocketCloses
  <2>8. CASE UNCHANGED vars
    BY <2>8 DEF EndedTogether, vars
  <2> QED
    BY <2>1, <2>2, <2>3, <2>4, <2>5, <2>6, <2>7, <2>8 DEF Next
<1> QED
  BY <1>1, <1>2, PTL DEF Spec

=============================================================================
