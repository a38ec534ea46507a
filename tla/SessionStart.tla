----------------------------- MODULE SessionStart -----------------------------
(***************************************************************************)
(* The start and the end of a session (src/gateway.ts 122-255) between the *)
(* plugins, the provider and the client: the sweeps of PluginRegistry, the *)
(* connection of ProviderLink, the socket of the client and the events     *)
(* that client is sent.                                                    *)
(*                                                                         *)
(* A step is one callback with the microtasks it leaves, but for two cases *)
(* whose parts are steps of their own and keep all else out (Quiet): the   *)
(* turn in which connect() resolves, and the mock's echo.                  *)
(*                                                                         *)
(* Pausing, and the events about it, which may come before gateway.ready,  *)
(* are those of GatewaySession.                                            *)
(***************************************************************************)
EXTENDS PluginRegistry, ProviderLink

CONSTANTS
    Kinds,      \* the providers of the instance
    Frames,     \* what a provider may send: [json, type, fields]
    MaxTold     \* bound: events sent before the last frame or pong

ASSUME StartAssumption == Kinds \subseteq Providers /\ MaxTold \in Nat

VARIABLES
    pc,         \* where start() is: "plugins", "connecting", "ready", "failed"
    closed,     \* GatewaySession.closed
    sock,       \* the client's socket: "open", "closing", "closed"
    leftEarly,  \* history: its 'close' came before the handlers were bound
    missed,     \* history: a frame of the provider found no handler
    told        \* the events the client was sent, but those about pausing and the
                \* end of a backoff (PauseClient, ResumeClient, BackoffFires)

startVars == <<pc, closed>>
clientVars == <<sock, leftEarly>>
heardVars == <<missed, told>>
vars == <<pluginVars, linkVars, startVars, clientVars, heardVars>>

\* start() runs to the first hook; without plugins it runs on to connect().
Init ==
    /\ kind \in Kinds
    /\ entries \in Registries
    /\ starts = Begun /\ ends = NotBegun
    /\ pc = IF starts.state = "done" THEN "connecting" ELSE "plugins"
    /\ link = IF starts.state = "done" THEN Dialled ELSE NoLink
    /\ closed = FALSE
    /\ sock = "open" /\ leftEarly = FALSE
    /\ missed = FALSE /\ told = <<>>

-----------------------------------------------------------------------------

\* No callback is half done.
Quiet == link.at # "opened" /\ (Adapter.socket \/ link.flight + link.plain = 0)

\* Mutant: the handlers are bound when start() is over.
BoundLate == pc \notin {"plugins", "connecting"}

\* bindClientHandlers() has run, in the turn in which startAll() was over.
Bound == pc # "plugins"

\* this.connection of a session that lives.
Attached == pc = "ready" /\ ~closed

\* sendClientEvent() and its like.
Say(events) == told' = IF sock = "open" THEN told \o events ELSE told

\* safeCloseClient().
ClientEnded == IF sock = "open" THEN "closing" ELSE sock

\* close(), first call: the connection, the plugins up to their first hook,
\* the client.
CloseSession(nextLink, nextSock) ==
    /\ closed' = TRUE
    /\ link' = nextLink /\ sock' = nextSock
    /\ ends' = Begun

-----------------------------------------------------------------------------
(* start() *)

\* A hook of startAll() settles; after the last one the handlers are bound and
\* connect() is called.  `closed' is not looked at.
StartHookSettles ==
    /\ pc = "plugins"
    /\ starts' = Visit(starts)
    /\ pc' = IF starts'.state = "done" THEN "connecting" ELSE pc
    /\ link' = IF starts'.state = "done" THEN Dialled ELSE link
    /\ UNCHANGED <<entries, ends, kind, closed, clientVars, heardVars>>

\* The catch of the server: close() first, and then an error to the client if
\* its socket is still open.
StartRejected ==
    /\ pc' = "failed"
    /\ IF closed THEN link' = NoLink /\ UNCHANGED <<closed, sock, ends>>
       ELSE CloseSession(NoLink, ClientEnded)
    /\ told' = IF sock' = "open" THEN Append(told, "failed") ELSE told
    /\ UNCHANGED <<entries, kind, leftEarly, missed>>

StartHookRejects ==
    /\ pc = "plugins"
    /\ starts' = Rejected(starts)
    /\ StartRejected

ConnectFails ==
    /\ pc = "connecting" /\ link.at = "dialing"
    /\ StartRejected
    /\ UNCHANGED starts

Dial ==
    /\ LinkOpens
    /\ UNCHANGED <<pluginVars, startVars, clientVars, heardVars>>

\* Mutant: the handler is there from the start.
EarlyFrameHeard ==
    /\ link.at = "opened"
    /\ missed' = TRUE
    /\ Say(<<"text">>)
    /\ UNCHANGED <<pluginVars, linkVars, startVars, clientVars>>

\* A frame that came with 'open', or the session.created of the mock, which is
\* published before connect() goes on: nobody hears it.
FrameMissed ==
    /\ link.at = "opened"
    /\ missed' = TRUE
    /\ UNCHANGED <<pluginVars, linkVars, startVars, clientVars, told>>

\* connect() resolves: the handler is set and gateway.ready is sent in the
\* same turn, to a session that may have closed.
Connected ==
    /\ link.at = "opened"
    /\ Adapter.socket \/ missed
    /\ pc' = "ready"
    /\ link' = Opened(link)
    /\ Say(<<"ready">>)
    /\ UNCHANGED <<pluginVars, kind, closed, clientVars, missed>>

-----------------------------------------------------------------------------
(* The provider *)

\* isRateLimitEvent().
IsRateLimitEvent(json) ==
    \/ "status 429" \in json.fields
    \/ IF json.type = "error" /\ "error" \in json.fields
       THEN "rate limit" \in json.fields
       ELSE json.type = "rate_limits.updated"

\* The types that contain "audio", of those a provider sends.
AudioTypes == {"response.audio.delta", "response.output_audio.delta",
               "conversation.item.audio"}

\* tryRelayAudioDelta(), when it is true.
IsAudioDelta(json) ==
    \/ /\ json.type \in {"response.audio.delta", "response.output_audio.delta"}
       /\ "delta" \in json.fields
    \/ json.type \in AudioTypes /\ "audio" \in json.fields

\* onProviderMessage(): text that is no JSON is relayed as binary, an audio
\* delta as both, and other JSON as the provider wrote it.
Relayed(frame) ==
    LET json == Heard([type |-> frame.type, fields |-> frame.fields])
    IN  IF ~frame.json THEN <<"binary">>
        ELSE IF IsRateLimitEvent(json) THEN <<"rate_limited">>
        ELSE IF IsAudioDelta(json) THEN <<"binary", "delta">>
        ELSE <<"text">>

\* A closed session takes no notice of what it hears.
FrameHeard ==
    /\ Attached /\ link.at = "open" /\ Adapter.socket
    /\ Len(told) < MaxTold
    /\ \E frame \in Frames : Say(Relayed(frame))
    /\ UNCHANGED <<pluginVars, linkVars, startVars, clientVars, missed>>

\* The mock's microtasks: a transcript and an audio delta for each append,
\* an acknowledgement for a commit.
Echo ==
    /\ link.at = "open" /\ ~Adapter.socket
    /\ \/ /\ link.flight > 0
          /\ link' = Taken(link)
          /\ Say(<<"text", "binary", "delta">>)
       \/ /\ link.flight = 0 /\ link.plain > 0
          /\ link' = [link EXCEPT !.plain = @ - 1]
          /\ Say(<<"text">>)
    /\ UNCHANGED <<pluginVars, kind, startVars, clientVars, missed>>

Transport ==
    /\ FrameTaken \/ WriteFails \/ LinkCloses
    /\ UNCHANGED <<pluginVars, startVars, clientVars, heardVars>>

\* 'close' of the provider's socket.
UpstreamClosed ==
    /\ link.at \in {"open", "closing"} /\ Adapter.socket
    /\ LET ended == [link EXCEPT !.at = "closed", !.flight = 0, !.plain = 0]
       IN  IF Attached
           THEN Say(<<"upstream_closed">>) /\ CloseSession(ended, ClientEnded)
           ELSE link' = ended /\ UNCHANGED <<closed, sock, ends, told>>
    /\ UNCHANGED <<entries, starts, kind, pc, leftEarly, missed>>

\* ... and its 'error'.
UpstreamError ==
    /\ Attached /\ link.at = "open" /\ Adapter.socket
    /\ Say(<<"error">>)
    /\ CloseSession([link EXCEPT !.at = "closing"], ClientEnded)
    /\ UNCHANGED <<entries, starts, kind, pc, leftEarly, missed>>

-----------------------------------------------------------------------------
(* The client, the server and the program around *)

\* One frame to the provider, audio, commit or another control event.  Without
\* a connection it goes nowhere.
ClientSends ==
    /\ Attached /\ sock = "open"
    /\ link.flight + link.plain < MaxSends /\ Len(told) < MaxTold
    /\ \E what \in {"append", "commit", "control"} : link' = Sent(link, what)
    /\ UNCHANGED <<pluginVars, kind, startVars, clientVars, heardVars>>

\* gateway.ping: answered with or without a connection.
Ping ==
    /\ Quiet /\ Bound /\ ~closed /\ sock = "open"
    /\ Len(told) < MaxTold
    /\ Say(<<"pong">>)
    /\ UNCHANGED <<pluginVars, linkVars, startVars, clientVars, missed>>

PeerCloses ==
    /\ Quiet /\ sock = "open"
    /\ sock' = "closing"
    /\ UNCHANGED <<pluginVars, linkVars, startVars, leftEarly, heardVars>>

\* 'close' of the client's socket.
SocketCloses ==
    /\ Quiet /\ sock # "closed"
    /\ IF Bound /\ ~closed THEN CloseSession(Hung(link), "closed")
       ELSE sock' = "closed" /\ UNCHANGED <<closed, link, ends>>
    /\ leftEarly' = (leftEarly \/ pc = "plugins")
    /\ UNCHANGED <<entries, starts, kind, pc, heardVars>>

ClientError ==
    /\ Quiet /\ Bound /\ ~closed /\ sock = "open"
    /\ CloseSession(Hung(link), ClientEnded)
    /\ UNCHANGED <<entries, starts, kind, pc, leftEarly, heardVars>>

\* closeAll(): the server has taken a session off its list when its socket
\* closed.
Shutdown ==
    /\ Quiet /\ ~closed /\ sock # "closed"
    /\ CloseSession(Hung(link), ClientEnded)
    /\ UNCHANGED <<entries, starts, kind, pc, leftEarly, heardVars>>

Plugins ==
    /\ Quiet
    /\ EndHookSettles \/ \E k \in PluginKeys : Register(k) \/ Unregister(k)
    /\ UNCHANGED <<linkVars, startVars, clientVars, heardVars>>

-----------------------------------------------------------------------------

Start == StartHookSettles \/ StartHookRejects \/ ConnectFails \/ Dial \/ FrameMissed \/ Connected

Provider == FrameHeard \/ Echo \/ Transport \/ UpstreamClosed \/ UpstreamError

Client == ClientSends \/ Ping \/ PeerCloses \/ SocketCloses \/ ClientError

Next == Start \/ Provider \/ Client \/ Shutdown \/ Plugins

Spec == Init /\ [][Next]_vars

-----------------------------------------------------------------------------
(* Properties *)

Events == {"ready", "pong", "text", "binary", "delta", "rate_limited"}
Farewells == {"upstream_closed", "error"}

Pongs(list) == \A i \in DOMAIN list : list[i] = "pong"

Story(list, over) ==
    \A i \in DOMAIN list :
        /\ list[i] # "pong" => \E j \in 1..i : list[j] = "ready"
        /\ \A j \in DOMAIN list : list[i] = "ready" /\ list[j] = "ready" => i = j
        /\ list[i] = "delta" => list[i - 1] = "binary"
        /\ list[i] \in Farewells => i = Len(list) /\ over

TypeOK ==
    /\ PluginTypeOK /\ LinkTypeOK
    /\ pc \in {"plugins", "connecting", "ready", "failed"}
    /\ closed \in BOOLEAN /\ leftEarly \in BOOLEAN /\ missed \in BOOLEAN
    /\ sock \in {"open", "closing", "closed"}
    /\ told \in Seq(Events \cup Farewells)

\* A session that goes on without its client is one whose client left while
\* its plugins were starting: the only moments nobody listens are those before
\* startAll() is over (gateway.ts 127-134, 240-255).
DeafOnlyToPlugins == sock = "closed" /\ ~closed => leftEarly /\ told = <<>>

\* What a client can rely on.  But for pongs, which a session answers with from
\* the moment it listens, and for what it tells of pauses (not in `told'):
\* gateway.ready comes first and once; a delta comes right after its audio; a
\* farewell is the last event, of a session that has closed; and a client whose
\* session could not start is told nothing, since the catch closes its socket
\* before it tells (gateway.ts 225-236, 319-321, 381-441, server.ts 173-187).
ClientStory ==
    /\ pc = "failed" => Pongs(told)
    /\ Story(told, closed)

\* The session lives as SessionLife says, whatever its plugins, its provider
\* and its client make of it: it closes once, with its socket, and hears the
\* end of the socket as soon as its handlers are bound (gateway.ts 122-176,
\* 240-255, server.ts 173-187).
Life == INSTANCE SessionLife

ImplementsLife == Life!Spec

=============================================================================
