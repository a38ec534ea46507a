----------------------------- MODULE ProviderLink -----------------------------
(***************************************************************************)
(* A provider adapter and its connection (src/providers): dialling, the    *)
(* gap between the 'open' of the socket and the handlers, what each        *)
(* adapter counts of the frames it sends, and what it makes of the frames  *)
(* it hears before the session looks at them.                              *)
(*                                                                         *)
(* The five adapters are records that say in what they differ.  Frames     *)
(* sent are of FrameBytes each.  A frame heard is whether it is text,      *)
(* whether the text is JSON, its `type' and the other fields the gateway   *)
(* looks for.  ws never emits the 'drain' that the Anthropic connection    *)
(* listens for.                                                            *)
(***************************************************************************)
EXTENDS GatewayConfig, Sequences

CONSTANTS
    FrameBytes,     \* bytes of a frame to the provider
    MaxSends        \* bound: frames the provider's socket holds

ASSUME LinkAssumption == FrameBytes \in Nat \ {0} /\ MaxSends \in Nat

VARIABLES
    kind,       \* config.PROVIDER
    link        \* the connection: see Link below

linkVars == <<kind, link>>

\* `opened' is the turn of 'open', whose listeners are only those of
\* waitOpen(): connect() resolves at the end of it.
Link == [at : {"none", "dialing", "opened", "open", "closing", "closed"},
         flight  : Nat,     \* frames counted, whose callback is to come
         plain   : Nat,     \* frames sent without being counted
         pending : Int]     \* pendingBytes, queueBytes

NoLink == [at |-> "none", flight |-> 0, plain |-> 0, pending |-> 0]

-----------------------------------------------------------------------------
(* The adapters *)

\* sends: what goes out; counts: the part of it that enters the pending bytes;
\* hello: connect() sends a session.update; socket: there is a WebSocket.
Anthropic == [sends |-> {"append", "commit", "control"},
              counts |-> {"append", "commit", "control"}, hello |-> TRUE, socket |-> TRUE]

OpenAi == [sends |-> {"append", "commit", "control"},
           counts |-> {"append", "commit", "control"}, hello |-> TRUE, socket |-> TRUE]

Gemini == [sends |-> {"append", "commit", "control"},
           counts |-> {"append", "commit", "control"}, hello |-> TRUE, socket |-> TRUE]

\* Audio goes out as it is; a commit becomes CloseStream.
Deepgram == [sends |-> {"append", "commit", "control"},
             counts |-> {"append"}, hello |-> FALSE, socket |-> TRUE]

\* A frame is a microtask, which publishes the echo.
Mock == [sends |-> {"append", "commit"},
         counts |-> {"append"}, hello |-> FALSE, socket |-> FALSE]

Adapters == [anthropic |-> Anthropic, openai |-> OpenAi, gemini |-> Gemini,
             deepgram |-> Deepgram, mock |-> Mock]

Adapter == Adapters[kind]

\* normalizeDeepgram(): `status', `error' and the audio fields are gone.
NormalizeDeepgram(json) ==
    [type |-> IF "transcript" \in json.fields THEN "response.audio_transcript.delta"
              ELSE IF json.type = "" THEN "deepgram.event" ELSE json.type,
     fields |-> {}]

\* normalizeGeminiEvent().
NormalizeGemini(json) ==
    IF "serverContent" \in json.fields
    THEN [type |-> "response.audio_transcript.delta", fields |-> {}] ELSE json

\* What a JSON frame becomes on its way to the session.
Heard(json) ==
    IF kind = "deepgram" THEN NormalizeDeepgram(json)
    ELSE IF kind = "gemini" THEN NormalizeGemini(json) ELSE json

-----------------------------------------------------------------------------
(* The connection *)

\* connect(), up to its first await.  The mock's has none.
Dialled == [NoLink EXCEPT !.at = IF Adapter.socket THEN "dialing" ELSE "opened"]

\* Mutant: sendAudioAppend() counts the bytes that sendControl() counts again.
SentTwice(l, what) ==
    IF l.at # "open" \/ what \notin Adapter.sends THEN l
    ELSE IF what \notin Adapter.counts THEN [l EXCEPT !.plain = @ + 1]
    ELSE [l EXCEPT !.flight = @ + 1,
                   !.pending = @ + FrameBytes + (IF what = "append" THEN FrameBytes ELSE 0)]

\* sendAudioAppend() and sendControl(): readyState is looked at, the bytes are
\* counted, and the callback will take them off again.
Sent(l, what) ==
    IF l.at # "open" \/ what \notin Adapter.sends THEN l
    ELSE IF what \notin Adapter.counts THEN [l EXCEPT !.plain = @ + 1]
    ELSE [l EXCEPT !.flight = @ + 1, !.pending = @ + FrameBytes]

\* The connection is made, in the turn of 'open'.
Opened(l) ==
    LET open == [l EXCEPT !.at = "open"]
    IN  IF Adapter.hello THEN Sent(open, "control") ELSE open

\* A callback without an error: Math.max(0, pendingBytes - bytes).
Taken(l) ==
    [l EXCEPT !.flight = @ - 1,
              !.pending = IF @ > FrameBytes THEN @ - FrameBytes ELSE 0]

\* connection.close().
Hung(l) ==
    IF l.at # "open" THEN l
    ELSE [l EXCEPT !.at = IF Adapter.socket THEN "closing" ELSE "closed"]

\* bufferedAmount(): ws counts what its socket holds, and so does pendingBytes.
BufferedAmount ==
    link.pending + (IF Adapter.socket THEN FrameBytes * (link.flight + link.plain) ELSE 0)

\* waitOpen(): 'open' comes, and its listeners leave the socket without any
\* until connect() goes on.
LinkOpens ==
    /\ link.at = "dialing"
    /\ link' = [link EXCEPT !.at = "opened"]
    /\ UNCHANGED kind

\* Mutant: every frame has the callback of a counted one.
FrameTakenAny ==
    /\ link.at \in {"open", "closing"} /\ Adapter.socket
    /\ link.flight + link.plain > 0
    /\ link' = Taken(link)
    /\ UNCHANGED kind

\* The provider's socket takes a frame, of an open or a closing connection.
FrameTaken ==
    /\ link.at \in {"open", "closing"} /\ Adapter.socket
    /\ \/ link.flight > 0 /\ link' = Taken(link)
       \/ link.plain > 0 /\ link' = [link EXCEPT !.plain = @ - 1]
    /\ UNCHANGED kind

\* A write fails: the callbacks get the error and take nothing off, and ws
\* tears the socket down.
WriteFails ==
    /\ link.at \in {"open", "closing"} /\ Adapter.socket
    /\ link.flight + link.plain > 0
    /\ link' = [link EXCEPT !.at = "closing", !.flight = 0, !.plain = 0]
    /\ UNCHANGED kind

\* A close frame of the provider: readyState changes before 'close' fires.
LinkCloses ==
    /\ link.at = "open" /\ Adapter.socket
    /\ link' = [link EXCEPT !.at = "closing"]
    /\ UNCHANGED kind

-----------------------------------------------------------------------------
(* Properties *)

LinkTypeOK == kind \in Providers /\ link \in Link

\* The load a connection reports is that of the frames it still holds, each
\* counted twice where both ws and pendingBytes see it, and so it goes back to
\* zero: a callback that took nothing off belongs to a socket that is no longer
\* open, and no count is clamped (anthropic.ts 42-70 and its like, mock.ts 35-87).
LoadIsOutstanding ==
    link.at = "open" =>
        BufferedAmount =
            FrameBytes * (link.flight + IF Adapter.socket THEN link.flight + link.plain ELSE 0)

=============================================================================
