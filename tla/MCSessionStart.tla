--------------------------- MODULE MCSessionStart ---------------------------
(* SessionStart for TLC. *)
EXTENDS SessionStart

MCRegistries == {<<>>, <<"vad:a", "codec:b">>}

MCKinds == {"openai", "gemini", "deepgram", "mock"}

MCText(type, fields) == [json |-> TRUE, type |-> type, fields |-> fields]

MCFrames == {[json |-> FALSE, type |-> "", fields |-> {}],
             MCText("response.audio.delta", {"delta"}),
             MCText("response.output_audio.delta", {"audio"}),
             MCText("conversation.item.audio", {}),
             MCText("rate_limits.updated", {}),
             MCText("error", {"error", "rate limit"}),
             MCText("", {"status 429"}),
             MCText("", {"serverContent"}),
             MCText("Results", {"transcript"})}

=============================================================================
