-------------------------- MODULE MCGatewaySession --------------------------
(* GatewaySession for TLC: the values a cfg cannot write down. *)
EXTENDS GatewaySession

\* The adaptive loop lowers the mark and raises it, beyond the hard limit too:
\* its low-latency branch has a floor of 65536 bytes and no cap.
MCAdaptiveMarks == {2, 7}

=============================================================================
