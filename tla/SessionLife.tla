----------------------------- MODULE SessionLife -----------------------------
(***************************************************************************)
(* The life of one session and of its client's socket, as everybody around *)
(* it may rely on: the server, the registry of sessions, the quota.  A     *)
(* session is created on an open socket, starts by way of its plugins and  *)
(* its provider, and closes once, for good, taking the socket with it.  It *)
(* hears the end of the socket from the moment its handlers are bound.     *)
(*                                                                         *)
(* GatewaySession and SessionStart implement this module from the inside,  *)
(* Admission for each of its connections from the outside.                 *)
(***************************************************************************)
VARIABLES
    pc,         \* where start() is; "none": no session yet
    closed,     \* the session's `closed'
    sock        \* the client's socket

vars == <<pc, closed, sock>>

\* The connection is still to come, or its session has begun: start() has run
\* to the first hook of a plugin, or without plugins to connect().
Init ==
    /\ <<pc, sock>> \in {<<"none", "none">>, <<"plugins", "open">>, <<"connecting", "open">>}
    /\ closed = FALSE

\* safeCloseClient().
Ended == IF sock = "open" THEN "closing" ELSE sock

Arrive ==
    /\ pc = "none" /\ sock = "none"
    /\ sock' = "open"
    /\ UNCHANGED <<pc, closed>>

\* The session is created and start() runs to its first await.
Begin ==
    /\ pc = "none" /\ sock \in {"none", "open"}
    /\ pc' \in {"plugins", "connecting"}
    /\ sock' = "open"
    /\ UNCHANGED closed

\* startAll() is over and the handlers are bound; then connect() is.
Advance ==
    /\ \/ pc = "plugins" /\ pc' = "connecting"
       \/ pc = "connecting" /\ pc' = "ready"
    /\ UNCHANGED <<closed, sock>>

Reject ==
    /\ pc \in {"plugins", "connecting"}
    /\ pc' = "failed"
    /\ closed' = TRUE
    /\ sock' = Ended

Close ==
    /\ pc # "none" /\ ~closed
    /\ closed' = TRUE
    /\ sock' = Ended
    /\ UNCHANGED pc

PeerCloses ==
    /\ sock = "open"
    /\ sock' = "closing"
    /\ UNCHANGED <<pc, closed>>

SocketCloses ==
    /\ sock \in {"open", "closing"}
    /\ sock' = "closed"
    /\ closed' = (closed \/ pc \notin {"none", "plugins"})
    /\ UNCHANGED pc

Next ==
    Arrive \/ Begin \/ Advance \/ Reject \/ Close \/ PeerCloses \/ SocketCloses

Spec == Init /\ [][Next]_vars

-----------------------------------------------------------------------------

\* A session has a socket; a closed one has a socket that is closing or
\* closed; one that could not start is closed.
EndedTogether ==
    /\ sock \in {"none", "open", "closing", "closed"}
    /\ pc # "none" => sock # "none"
    /\ closed => pc # "none" /\ sock \in {"closing", "closed"}
    /\ pc = "failed" => closed

=============================================================================
