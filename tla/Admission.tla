------------------------------ MODULE Admission ------------------------------
(***************************************************************************)
(* The server around the sessions: authentication quotas (src/auth.ts),    *)
(* the upgrade and connection handlers of both WebSocket paths             *)
(* (src/server.ts, src/webrtc/ingress.ts), the SessionManager              *)
(* (src/session/manager.ts), the sessions_active gauge, and the shutdown   *)
(* of src/index.ts.                                                        *)
(*                                                                         *)
(* AUTH_JWT_SECRET is set: without it every subject is "anonymous" and the *)
(* QuotaTracker is never asked.  Origin and token checks come before it    *)
(* and change nothing; an upgrade they refuse is not a step.  A session is *)
(* what the server sees of GatewaySession: where start() is, and `closed'. *)
(* An upgrade reaches the WebSocketServer of its path, as the options of   *)
(* the two servers ask for.                                                *)
(***************************************************************************)
EXTENDS Integers, FiniteSets

CONSTANTS
    WsConns,        \* connections that will be made to "/"
    RtcConns,       \* connections to "/webrtc"; {}: WEBRTC_INGRESS=false
    Subjects,       \* the `sub' claims
    RatePerMinute,  \* config.AUTH_RATE_LIMIT_PER_MINUTE
    MaxSessions,    \* config.AUTH_MAX_SESSIONS_PER_SUBJECT
    AsyncPlugins,   \* some plugin's onSessionStart really suspends
    Window,         \* the 60_000 ms of a rate window, in ticks
    MaxHits         \* bound: upgrades of one subject in one window

\* The subject of a connection that has none.
Nobody == "nobody"

ASSUME AdmissionAssumption ==
    /\ Nobody \notin Subjects
    /\ IsFiniteSet(WsConns) /\ IsFiniteSet(RtcConns)
    /\ WsConns \cap RtcConns = {}
    /\ RatePerMinute \in Nat \ {0} /\ MaxSessions \in Nat \ {0}
    /\ AsyncPlugins \in BOOLEAN /\ Window \in Nat /\ MaxHits \in Nat

Conns == WsConns \cup RtcConns

VARIABLES
    app,        \* "up", then "draining", "closed" (wss is), "exited"
    hits,       \* QuotaTracker.hits: the count of a subject's bucket
    age,        \* ... and the ticks since its windowStart, up to Window + 1
    active,     \* QuotaTracker.sessions; 0 where the map has no entry
    since,      \* history: ticks since its upgrade was let through, up to Window + 1
    sock,       \* the client's socket
    subject,    \* the authSubject of an upgraded request
    pc,         \* where start() of the connection's session is
    closed,     \* the session's `closed'
    sessions,   \* SessionManager.sessions, by connection
    gauge       \* the value of audio_gateway_sessions_active

rate == <<hits, age, since>>
tracker == <<rate, active>>
vars == <<app, tracker, sock, subject, pc, closed, sessions, gauge>>

Init ==
    /\ app = "up"
    /\ hits = [s \in Subjects |-> 0]
    /\ active = [s \in Subjects |-> 0]
    /\ age = [s \in Subjects |-> 0]
    /\ since = [c \in Conns |-> Window + 1]
    /\ sock = [c \in Conns |-> "none"]
    /\ subject = [c \in Conns |-> Nobody]
    /\ pc = [c \in Conns |-> "none"]
    /\ closed = [c \in Conns |-> FALSE]
    /\ sessions = {}
    /\ gauge = 0

-----------------------------------------------------------------------------
(* Helpers *)

Live(c) == sock[c] \in {"open", "closing"}

\* The await that start() reaches in the turn that calls it.
FirstAwait == IF AsyncPlugins THEN "plugins" ELSE "connecting"

\* Mutant: the handlers are bound when connect() is over.
BoundLate(c) == pc[c] \notin {"none", "plugins", "connecting"}

\* The session has bound its handlers to the client's socket.
Bound(c) == pc[c] \notin {"none", "plugins"}

\* safeCloseClient() on the connections of a set.
Ended(C) == [c \in Conns |-> IF c \in C /\ sock[c] = "open" THEN "closing" ELSE sock[c]]

\* Mutant: the last session of a subject is not taken out of the map.
ReleaseKeepsLast(c) ==
    active' = [active EXCEPT ![subject[c]] = IF @ <= 1 THEN @ ELSE @ - 1]

\* Mutant: the count is not clamped at zero.
ReleaseUnclamped(c) == active' = [active EXCEPT ![subject[c]] = @ - 1]

\* releaseAuthSubject().
Release(c) == active' = [active EXCEPT ![subject[c]] = IF @ <= 1 THEN 0 ELSE @ - 1]

\* Mutant: the gauge is set before the session is removed.
ForgetLate(c) ==
    /\ sessions' = sessions \ {c}
    /\ IF c \in WsConns
       THEN gauge' = Cardinality(sessions) /\ Release(c)
       ELSE UNCHANGED <<gauge, active>>

\* sessions.remove() and what the "/" handlers do after it.  Those of
\* "/webrtc" touch neither the gauge nor the quota.
Forget(c) ==
    /\ sessions' = sessions \ {c}
    /\ IF c \in WsConns
       THEN gauge' = Cardinality(sessions') /\ Release(c)
       ELSE UNCHANGED <<gauge, active>>

-----------------------------------------------------------------------------
(* Admission *)

\* Time passes.
Tick ==
    /\ app # "exited"
    /\ age' = [s \in Subjects |-> IF hits[s] > 0 /\ age[s] <= Window
                                  THEN age[s] + 1 ELSE age[s]]
    /\ since' = [c \in Conns |-> IF since[c] <= Window THEN since[c] + 1 ELSE since[c]]
    /\ UNCHANGED <<app, hits, active, sock, subject, pc, closed, sessions, gauge>>

\* Mutant: the window is taken for seconds.
FreshEarly(s) == hits[s] = 0 \/ age[s] > 0

\* allowConnect() opens a new window for this attempt.
Fresh(s) == hits[s] = 0 \/ age[s] > Window

Count(s) == IF Fresh(s) THEN 1 ELSE hits[s] + 1

\* Every attempt counts, the ones that are refused as well.
Charge(s) ==
    /\ Count(s) <= MaxHits
    /\ hits' = [hits EXCEPT ![s] = Count(s)]
    /\ age' = [age EXCEPT ![s] = IF Fresh(s) THEN 0 ELSE @]

RateAllows(s) == Fresh(s) \/ hits[s] + 1 <= RatePerMinute

\* Mutant: one session too many.
QuotaAllowsOneMore(s) == active[s] <= MaxSessions

QuotaAllows(s) == active[s] < MaxSessions

\* allowConnect() says yes to the upgrade of c: the slot is taken.
Admitted(c, s) ==
    /\ RateAllows(s) /\ QuotaAllows(s)
    /\ Charge(s)
    /\ since' = [since EXCEPT ![c] = 0]
    /\ active' = [active EXCEPT ![s] = @ + 1]

\* The http server accepts an upgrade to "/" until wss.close() takes the
\* 'upgrade' listener away, in the turn of closeAll().
Upgradable(c) == app = "up" /\ sock[c] = "none"

\* verifyClient says no.
UpgradeRefused(c, s) ==
    /\ Upgradable(c)
    /\ ~(RateAllows(s) /\ QuotaAllows(s))
    /\ Charge(s)
    /\ UNCHANGED <<app, active, since, sock, subject, pc, closed, sessions, gauge>>

\* verifyClient says yes: ws completes the upgrade and 'connection' runs in
\* the same turn, up to the first await of start().
UpgradeAccepted(c, s) ==
    /\ Upgradable(c)
    /\ Admitted(c, s)
    /\ sock' = [sock EXCEPT ![c] = "open"]
    /\ subject' = [subject EXCEPT ![c] = s]
    /\ pc' = [pc EXCEPT ![c] = FirstAwait]
    /\ sessions' = sessions \cup {c}
    /\ gauge' = Cardinality(sessions')
    /\ UNCHANGED <<app, closed>>

\* ... or finds that the client has gone meanwhile: there is no 'connection',
\* and nobody gives the slot back.
UpgradeLost(c, s) ==
    /\ Upgradable(c)
    /\ Admitted(c, s)
    /\ sock' = [sock EXCEPT ![c] = "lost"]
    /\ subject' = [subject EXCEPT ![c] = s]
    /\ UNCHANGED <<app, pc, closed, sessions, gauge>>

\* "/webrtc" asks for no token, and close() leaves its listener in place: it
\* accepts upgrades for as long as the http server listens.
RtcUpgraded(c) ==
    /\ app \in {"up", "draining"}
    /\ sock[c] = "none"
    /\ sock' = [sock EXCEPT ![c] = "open"]
    /\ UNCHANGED <<app, tracker, subject, pc, closed, sessions, gauge>>

\* onOffer(), a valid offer: the session is created, added and started.
RtcOffer(c) ==
    /\ app # "exited"
    /\ sock[c] = "open" /\ pc[c] = "none"
    /\ pc' = [pc EXCEPT ![c] = FirstAwait]
    /\ sessions' = sessions \cup {c}
    /\ UNCHANGED <<app, tracker, sock, subject, closed, gauge>>

-----------------------------------------------------------------------------
(* The life of a session *)

\* startAll() is over: the session binds its handlers and connects.
PluginsStarted(c) ==
    /\ app # "exited" /\ pc[c] = "plugins"
    /\ pc' = [pc EXCEPT ![c] = "connecting"]
    /\ UNCHANGED <<app, tracker, sock, subject, closed, sessions, gauge>>

Connected(c) ==
    /\ app # "exited" /\ pc[c] = "connecting"
    /\ pc' = [pc EXCEPT ![c] = "ready"]
    /\ UNCHANGED <<app, tracker, sock, subject, closed, sessions, gauge>>

\* Mutant: a start that fails leaves its session open.
StartRejectedOpen(c) ==
    /\ app # "exited" /\ pc[c] \in {"plugins", "connecting"}
    /\ pc' = [pc EXCEPT ![c] = "failed"]
    /\ Forget(c)
    /\ UNCHANGED <<app, rate, sock, closed, subject>>

\* start() rejects, of a session that may have been closed before: the catch
\* closes it and forgets it, and so will 'close' of the socket.
StartRejected(c) ==
    /\ app # "exited" /\ pc[c] \in {"plugins", "connecting"}
    /\ pc' = [pc EXCEPT ![c] = "failed"]
    /\ closed' = [closed EXCEPT ![c] = TRUE]
    /\ sock' = IF closed[c] THEN sock ELSE Ended({c})
    /\ Forget(c)
    /\ UNCHANGED <<app, rate, subject>>

\* The session closes itself: its provider is gone, or its client's socket
\* reports an error.
SessionCloses(c) ==
    /\ app # "exited" /\ Bound(c) /\ ~closed[c]
    /\ closed' = [closed EXCEPT ![c] = TRUE]
    /\ sock' = Ended({c})
    /\ UNCHANGED <<app, tracker, subject, pc, sessions, gauge>>

\* ws answers the client's close frame; 'close' is still to come.
PeerCloses(c) ==
    /\ app # "exited" /\ sock[c] = "open"
    /\ sock' = Ended({c})
    /\ UNCHANGED <<app, tracker, subject, pc, closed, sessions, gauge>>

\* 'close' of the client's socket.  The server's listener forgets the session,
\* the session's own closes it when it is there already.
SocketCloses(c) ==
    /\ app # "exited" /\ Live(c)
    /\ sock' = [sock EXCEPT ![c] = "closed"]
    /\ closed' = IF Bound(c) THEN [closed EXCEPT ![c] = TRUE] ELSE closed
    /\ IF pc[c] = "none" THEN UNCHANGED <<sessions, gauge, active>> ELSE Forget(c)
    /\ UNCHANGED <<app, rate, subject, pc>>

-----------------------------------------------------------------------------
(* Shutdown *)

\* Mutant: the registry is cleared before the sessions are closed.
ShutdownClearsFirst ==
    /\ app = "up"
    /\ app' = "draining"
    /\ sessions' = {}
    /\ gauge' = 0
    /\ UNCHANGED <<tracker, closed, sock, subject, pc>>

\* A signal: app.close() runs closeAll(), sets the gauge and stops wss.
Shutdown ==
    /\ app = "up"
    /\ app' = "draining"
    /\ closed' = [c \in Conns |-> closed[c] \/ c \in sessions]
    /\ sock' = Ended({c \in sessions : ~closed[c]})
    /\ sessions' = {}
    /\ gauge' = 0
    /\ UNCHANGED <<tracker, subject, pc>>

\* wss has seen its last socket close, and calls server.close().
WssClosed ==
    /\ app = "draining"
    /\ \A c \in WsConns : ~Live(c)
    /\ app' = "closed"
    /\ UNCHANGED <<tracker, sock, subject, pc, closed, sessions, gauge>>

\* server.close() waits for every connection, those of "/webrtc" too.
ServerClosed ==
    /\ app = "closed"
    /\ \A c \in Conns : ~Live(c)
    /\ app' = "exited"
    /\ UNCHANGED <<tracker, sock, subject, pc, closed, sessions, gauge>>

\* "forced exit after drain timeout": ten seconds are over.
ForcedExit ==
    /\ app \in {"draining", "closed"}
    /\ app' = "exited"
    /\ UNCHANGED <<tracker, sock, subject, pc, closed, sessions, gauge>>

-----------------------------------------------------------------------------

Admit ==
    \/ Tick
    \/ \E c \in WsConns, s \in Subjects :
         UpgradeRefused(c, s) \/ UpgradeAccepted(c, s) \/ UpgradeLost(c, s)
    \/ \E c \in RtcConns : RtcUpgraded(c) \/ RtcOffer(c)

Session ==
    \E c \in Conns :
        PluginsStarted(c) \/ Connected(c) \/ StartRejected(c) \/ SessionCloses(c)
        \/ PeerCloses(c) \/ SocketCloses(c)

Stop == Shutdown \/ WssClosed \/ ServerClosed \/ ForcedExit

Next == Admit \/ Session \/ Stop

Spec == Init /\ [][Next]_vars

\* ws ends the closing handshake of a socket by itself, with a timeout if need
\* be, and the callbacks of both close() calls run.  Nothing is assumed of the
\* forced exit, so as to see whether the drain ends without it.
Fairness ==
    /\ \A c \in Conns : WF_vars(sock[c] = "closing" /\ SocketCloses(c))
    /\ WF_vars(WssClosed)
    /\ WF_vars(ServerClosed)

FairSpec == Spec /\ Fairness

-----------------------------------------------------------------------------
(* Properties *)

RateTypeOK ==
    /\ hits \in [Subjects -> Nat]
    /\ age \in [Subjects -> 0..(Window + 1)]
    /\ since \in [Conns -> 0..(Window + 1)]

ConnTypeOK ==
    /\ sock \in [Conns -> {"none", "open", "closing", "closed", "lost"}]
    /\ subject \in [Conns -> Subjects \cup {Nobody}]
    /\ pc \in [Conns -> {"none", "plugins", "connecting", "ready", "failed"}]
    /\ closed \in [Conns -> BOOLEAN]

TypeOK ==
    /\ app \in {"up", "draining", "closed", "exited"}
    /\ RateTypeOK
    /\ active \in [Subjects -> 0..MaxSessions]
    /\ ConnTypeOK
    /\ sessions \subseteq Conns
    /\ gauge \in Nat

Holders(s) == {c \in Conns : Live(c) /\ subject[c] = s}
Failures(s) == {c \in Conns : pc[c] = "failed" /\ subject[c] = s}

\* The upgrades let through in the stretch that ends now, the lost ones too.
Recent(s) == {c \in Conns : subject[c] = s /\ since[c] <= Window}

Lost(s) == {c \in Conns : sock[c] = "lost" /\ subject[c] = s}

\* A subject is charged for no more sessions than it has sockets, so that one
\* whose clients have all left is not locked out; what is charged beyond that
\* are upgrades that ws gave up after verifyClient (auth.ts 47-54, server.ts
\* 144-179).
QuotaNotLeaked ==
    \A s \in Subjects : active[s] <= Cardinality(Holders(s)) + Cardinality(Lost(s))

\* The quota is exceeded by at most the number of the subject's starts that
\* failed: each of them gives back a slot twice.
QuotaErrorBounded ==
    \A s \in Subjects :
        Cardinality(Holders(s)) <= MaxSessions + Cardinality(Failures(s))

\* In no stretch of a window's length, wherever it begins, are more than twice
\* as many upgrades let through as the rate allows: the windows of a subject
\* are fixed, and a stretch meets two of them at the most (auth.ts 28-45).
SlidingRate == \A s \in Subjects : Cardinality(Recent(s)) <= 2 * RatePerMinute

\* Shutdown reaches every session: one that is open is in the SessionManager
\* (manager.ts 30-35, and both connection handlers).
OpenSessionsKnown == \A c \in Conns : pc[c] # "none" /\ ~closed[c] => c \in sessions

\* Each connection lives as SessionLife says, whatever the others, the quota,
\* the registry and the shutdown do to it.  A lost upgrade was no connection.
Life(c) == INSTANCE SessionLife WITH
    pc <- pc[c], closed <- closed[c],
    sock <- IF sock[c] = "lost" THEN "none" ELSE sock[c]

SessionsLive ==
    /\ \A c \in Conns : Life(c)!Init
    /\ [][\A c \in Conns : [Life(c)!Next]_(Life(c)!vars)]_vars

\* The gauge counts the sessions the SessionManager holds.
GaugeCountsSessions == gauge = Cardinality(sessions)

\* Shutdown comes to an end without the forced exit (index.ts 17-32).
DrainEnds == app = "draining" ~> app = "exited"

-----------------------------------------------------------------------------
(* Statements of the repository the code does not keep *)

\* "per-subject ... session quotas": sessions that are open, on sockets that are.
QuotaHolds ==
    \A s \in Subjects :
        Cardinality({c \in Holders(s) : sock[c] = "open" /\ ~closed[c]}) <= MaxSessions

=============================================================================
