------------------------------- MODULE MCCliTurn ------------------------------
(***************************************************************************)
(* Small instances of CliTurn for TLC.  The children of the first kind     *)
(* print every short stream over a catalogue of lines and end by           *)
(* themselves; those of the second print little and vary in how they end.  *)
(***************************************************************************)
EXTENDS CliTurn

CONSTANTS Backends, MaxLines, Helpers

Kind(k) == "type" :> Str(<<k>>)
Sid(k, s) == k :> Str(<<s>>)
Message(texts) == Obj("content" :> [list |->
    [i \in DOMAIN texts |-> Obj(Kind("text") @@ "text" :> Str(<<texts[i]>>))]])
Tokens(keys) == Obj([k \in keys |-> [num |-> 2]])
Banner == Raw(<<"overloaded_error">>)

ClaudeLines == {
    Banner,
    Obj(Kind("system") @@ Sid("session_id", "s1") @@ "usage" :> Tokens({"input_tokens"})),
    Obj(Kind("stream_event") @@ "event" :> Obj(Kind("content_block_delta")
        @@ "delta" :> Obj(Kind("text_delta") @@ "text" :> Str(<<"part">>)))),
    Obj(Kind("assistant") @@ "message" :> Message(<<"say", "more">>)),
    Obj(Kind("result") @@ "result" :> Str(<<"final">>) @@ Sid("session_id", "s2")),
    Obj(Kind("result") @@ "is_error" :> [bool |-> TRUE] @@ "result" :> Str(<<"auth expired">>)),
    Obj(Kind("error") @@ "code" :> Str(<<"code unauthorized">>)) }

CodexLines == {
    Banner,
    Obj(Kind("thread.started") @@ Sid("thread_id", "t1")),
    Obj(Kind("session") @@ Sid("session_id", "s1") @@ "stats" :> Tokens({"cached_input_tokens"})),
    Obj(Kind("item.completed") @@ "item" :> Obj(Kind("agent_message") @@ "text" :> Str(<<"say">>))),
    Obj(Kind("turn.completed") @@ "result" :> Str(<<"final">>) @@ "usage" :> Tokens({"input_tokens"})),
    Obj(Kind("turn.failed") @@ "error" :> Obj("message" :> Str(<<"plan limit reached">>))) }

GeminiLines == {
    Banner,
    Obj("response" :> Str(<<"final">>) @@ Sid("session_id", "s1")
        @@ "stats" :> Tokens({"input_tokens", "cached"})),
    Obj("content" :> [list |-> <<Str(<<"say">>), Str(<<"more">>)>>]),
    Obj("error" :> Obj("message" :> Str(<<"resource_exhausted">>))),
    Obj("is_error" :> [bool |-> TRUE] @@ "message" :> Str(<<"403 forbidden">>)) }

LinesOf(b) == CASE b = "claude" -> ClaudeLines [] b = "codex" -> CodexLines
                [] OTHER -> GeminiLines
AnswerOf(b) == CASE b = "claude" -> Obj(Kind("result") @@ "result" :> Str(<<"final">>))
                 [] b = "codex"  -> Obj(Kind("item.completed")
                                        @@ "item" :> Obj("text" :> Str(<<"say">>)))
                 [] OTHER        -> Obj("response" :> Str(<<"final">>))

Child == [lines |-> <<>>, complaint |-> <<>>, code |-> 0, stuck |-> FALSE,
          stubborn |-> FALSE, helper |-> "none"]
Input == [resume |-> FALSE, system |-> TRUE, mcp |-> "none", image |-> "inside",
          deadline |-> FALSE, cancellable |-> FALSE, installed |-> TRUE]
Turn(b, i, c) == [backend |-> b, input |-> i, child |-> c]

\* Every short output, read to its end.
Speakers(b) ==
    {Turn(b, [Input EXCEPT !.resume = r],
          [Child EXCEPT !.lines = ls, !.complaint = e, !.code = x]) :
        r \in BOOLEAN, ls \in BoundedSeq(LinesOf(b), MaxLines),
        e \in {<<>>, <<"ECONNRESET">>}, x \in {0, 1}}

\* Every way to end, or not to, for a CLI that answers and complains.
Processes(b) ==
    {Turn(b, [Input EXCEPT !.mcp = "good", !.deadline = d, !.cancellable = TRUE],
          [Child EXCEPT !.lines = <<AnswerOf(b)>>, !.complaint = e, !.code = x,
                        !.stuck = k, !.stubborn = u, !.helper = h]) :
        d \in BOOLEAN, e \in {<<>>, <<"rate limit", "429">>}, x \in {-1, 0},
        k \in BOOLEAN, u \in BOOLEAN, h \in Helpers}

\* Command lines that fail.
Refused ==
    {Turn("claude", [Input EXCEPT !.installed = FALSE, !.mcp = "good"], Child),
     Turn("gemini", [Input EXCEPT !.image = "outside", !.mcp = "good"], Child)}
    \cup {Turn("codex", [Input EXCEPT !.resume = r, !.system = s, !.mcp = "null"], Child) :
             r \in BOOLEAN, s \in BOOLEAN}

\* The values in a value.
RECURSIVE Parts(_)
Parts(v) == {v} \cup UNION (CASE Is(v, "list") -> {Parts(v.list[i]) : i \in DOMAIN v.list}
                             [] Is(v, "obj")  -> {Parts(v.obj[k]) : k \in DOMAIN v.obj}
                             [] OTHER         -> {})
MCValues == UNION {Parts(v) : v \in UNION {LinesOf(b) \cup {AnswerOf(b)} : b \in Backends}}

MCTurns == Refused \cup UNION {Speakers(b) \cup Processes(b) : b \in Backends}
=============================================================================
