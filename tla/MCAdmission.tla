----------------------------- MODULE MCAdmission -----------------------------
(* Admission for TLC: which connections and subjects are interchangeable. *)
EXTENDS Admission, TLC

Symmetry == Permutations(WsConns) \cup Permutations(RtcConns) \cup Permutations(Subjects)

=============================================================================
