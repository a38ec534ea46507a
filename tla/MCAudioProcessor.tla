-------------------------- MODULE MCAudioProcessor --------------------------
(* AudioProcessor for TLC. *)
EXTENDS AudioProcessor

=============================================================================
