------------------------------- MODULE CliOutput ------------------------------
(***************************************************************************)
(* What the provider CLIs print, and what the backends make of it: the     *)
(* parsers, the collection of text, usage and session ids, and the         *)
(* classification of errors (internal/clibackend).                         *)
(*                                                                         *)
(* A text is the sequence of phrases it is made of; blanks are left out,   *)
(* so TrimSpace is the identity and a blank text is NoText.  A phrase is a *)
(* representative of what one pattern of the classifiers matches.  A line  *)
(* of output is a JSON value or, under "raw", a text that is no JSON.      *)
(***************************************************************************)
EXTENDS Integers, Sequences, SequencesExt, TLC

CONSTANT Values \* the JSON values that a CLI may print, and all their parts

NoText == <<>>

Is(v, kind) == kind \in DOMAIN v
Str(t)  == [str |-> t]
Obj(o)  == [obj |-> o]
Raw(t)  == [raw |-> t]

Has(o, k, kind) == k \in DOMAIN o /\ Is(o[k], kind)
TextAt(o, k)    == IF Has(o, k, "str") THEN o[k].str ELSE NoText
MapAt(o, k)     == IF Has(o, k, "obj") THEN o[k].obj ELSE <<>>
FlagAt(o, k)    == Has(o, k, "bool") /\ o[k].bool
\* The first and the last text that is not blank.
FirstText(texts) ==
    LET some == {i \in DOMAIN texts : texts[i] # NoText}
    IN  IF some = {} THEN NoText ELSE texts[CHOOSE i \in some : \A j \in some : i <= j]
LastText(texts) ==
    LET some == {i \in DOMAIN texts : texts[i] # NoText}
    IN  IF some = {} THEN NoText ELSE texts[CHOOSE i \in some : \A j \in some : i >= j]

\* Every text of a value, as in its JSON form, and the form, never blank, of an
\* object.
Dump[v \in Values] ==
    CASE Is(v, "str")  -> v.str
      [] Is(v, "raw")  -> v.raw
      [] Is(v, "list") -> FlattenSeq([i \in DOMAIN v.list |-> Dump[v.list[i]]])
      [] Is(v, "obj")  -> FoldSet(LAMBDA k, t : Dump[v.obj[k]] \o t, NoText, DOMAIN v.obj)
      [] OTHER         -> NoText
Marshal(o)     == FirstText(<<Dump[Obj(o)], <<"{}">> >>)
RawText(lines) == FlattenSeq([i \in DOMAIN lines |-> Dump[lines[i]]])

\* maybeLoadRecord: a line that is no JSON object is skipped, as if it were one
\* without fields.
MaybeLoadRecord(line) == IF Is(line, "obj") THEN line.obj ELSE <<>>

\* collectText: the text of a value, wherever this shape of event keeps it.
CollectText[v \in Values] ==
    LET o        == v.obj
        Join(vs) == FlattenSeq([i \in DOMAIN vs |-> CollectText[vs[i]]])
        own      == SelectSeq(<<"response", "text", "result">>, LAMBDA k : Has(o, k, "str"))
    IN  IF Is(v, "str") THEN v.str
        ELSE IF Is(v, "list") THEN Join(v.list)
        ELSE IF ~Is(v, "obj") THEN NoText
        ELSE IF own # <<>> THEN o[Head(own)].str
        ELSE IF Has(o, "content", "str") THEN o["content"].str
        ELSE IF Has(o, "content", "list") THEN Join(o["content"].list)
        ELSE IF Has(o, "message", "obj") THEN CollectText[o["message"]]
        ELSE NoText

\* The Gemini backend has a function of its own that does the same.
CollectGeminiText(v) == CollectText[v]

Counters(raw, keys) ==
    [k \in {k \in keys : Has(raw, k, "num")} |-> raw[k].num]

\* A message of an event under the first of these keys that has one.
MessageUnder(o, keys) ==
    FirstText([i \in DOMAIN keys |->
        FirstText(<<TextAt(o, keys[i]), TextAt(MapAt(o, keys[i]), "message")>>)])

\* isInlineError: the error an event reports, NoText if it reports none.
IsInlineError(o) ==
    IF TextAt(o, "type") = <<"error">>
    THEN FirstText(<<MessageUnder(o, <<"message", "error", "result", "detail">>), Marshal(o)>>)
    ELSE TextAt(MapAt(o, "error"), "message")

-----------------------------------------------------------------------------
(***************************************************************************)
(* Classification.  Each backend has its own table of patterns.            *)
(***************************************************************************)
Classify(text, auth, rate, transient) ==
    LET Says(phrases) == \E i \in DOMAIN text : text[i] \in phrases
    IN  IF Says(auth) THEN "auth_expired"
        ELSE IF Says(rate) THEN "rate_limit"
        ELSE IF Says(transient) THEN "transient" ELSE "unknown"

ClassifyClaudeError(text) ==
    Classify(text, {"auth expired", "not logged in", "code unauthorized"},
             {"rate limit", "429", "weekly limit reached"},
             {"ECONNRESET", "network error", "overloaded_error"})

ClassifyCodexError(text) ==
    Classify(text, {"auth expired", "not logged in", "code unauthorized",
                    "ChatGPT login required"},
             {"rate limit", "429", "weekly limit reached", "plan limit reached"},
             {"ECONNRESET", "network error", "overloaded_error", "service unavailable"})

ClassifyGeminiError(text) ==
    Classify(text, {"auth expired", "not logged in", "not signed in",
                    "code unauthorized", "403 forbidden"},
             {"rate limit", "429", "resource_exhausted"},
             {"ECONNRESET", "network error", "temporarily unavailable"})

-----------------------------------------------------------------------------
(***************************************************************************)
(* Claude: a stream of JSON lines.                                         *)
(***************************************************************************)
ExtractClaudeSessionID(o) ==
    FirstText(<<TextAt(o, "session_id"), TextAt(o, "thread_id")>>)

ExtractUsage(o) ==
    Counters(MapAt(o, "usage"), {"input_tokens", "output_tokens", "total_tokens",
                                 "cache_read_input_tokens", "cache_creation_input_tokens"})

ClaudeCollectMessageText(m) ==
    IF ~Is(m, "obj") THEN NoText
    ELSE LET o      == m.obj
             blocks == IF Has(o, "content", "list") THEN o["content"].list ELSE <<>>
             texts  == SelectSeq(blocks, LAMBDA b :
                           Is(b, "obj") /\ TextAt(b.obj, "type") = <<"text">>)
         IN  CASE "content" \notin DOMAIN o -> CollectText[m]
               [] Has(o, "content", "str")  -> o["content"].str
               [] OTHER -> FlattenSeq([i \in DOMAIN texts |-> TextAt(texts[i].obj, "text")])

IsErrorOnResult(o) ==
    IF TextAt(o, "type") = <<"result">> /\ FlagAt(o, "is_error")
    THEN FirstText(<<MessageUnder(o, <<"result", "message", "error">>), Marshal(o)>>)
    ELSE NoText

DeltaText(o) ==
    LET event == MapAt(o, "event")
        delta == MapAt(event, "delta")
    IN  IF TextAt(event, "type") = <<"content_block_delta">>
           /\ TextAt(delta, "type") = <<"text_delta">>
        THEN TextAt(delta, "text") ELSE NoText

\* ParseClaudeJSONL.  The last result wins, then the assistant's messages,
\* then the streamed deltas; the last session id and the first error win.
ParseClaudeJSONL(lines) ==
    LET Record(i)   == MaybeLoadRecord(lines[i])
        Typed(i, t) == TextAt(Record(i), "type") = <<t>>
        results     == {i \in DOMAIN lines : Typed(i, "result") /\ Has(Record(i), "result", "str")}
        final       == IF results = {} THEN NoText ELSE TextAt(Record(Max(results)), "result")
        said        == [i \in DOMAIN lines |->
                          IF Typed(i, "assistant") /\ "message" \in DOMAIN Record(i)
                          THEN ClaudeCollectMessageText(Record(i)["message"]) ELSE NoText]
        streamed    == [i \in DOMAIN lines |->
                          IF Typed(i, "stream_event") THEN DeltaText(Record(i)) ELSE NoText]
    IN  [text    |-> FirstText(<<final, FlattenSeq(said), FlattenSeq(streamed)>>),
         session |-> LastText([i \in DOMAIN lines |-> ExtractClaudeSessionID(Record(i))]),
         usage   |-> FoldLeft(LAMBDA u, v : ExtractUsage(MaybeLoadRecord(v)) @@ u, <<>>, lines),
         error   |-> FirstText([i \in DOMAIN lines |->
                        FirstText(<<IsInlineError(Record(i)), IsErrorOnResult(Record(i))>>)])]

-----------------------------------------------------------------------------
(***************************************************************************)
(* Codex: JSON lines in a fresh session, plain text in a resumed one.      *)
(***************************************************************************)
ExtractCodexSessionIDPrimary(o) ==
    FirstText(<<TextAt(o, "session_id"), TextAt(o, "conversation_id")>>)
ExtractCodexSessionIDFallback(o) == TextAt(o, "thread_id")
ExtractCodexSessionID(o) ==
    FirstText(<<ExtractCodexSessionIDPrimary(o), ExtractCodexSessionIDFallback(o)>>)

\* Counters of "usage", or else of "stats", with the cached tokens nested in
\* the details of the input.
ExtractCodexUsage(o) ==
    LET raw == IF Has(o, "usage", "obj") THEN MapAt(o, "usage") ELSE MapAt(o, "stats")
        nested == Counters(MapAt(raw, "input_tokens_details"), {"cached_tokens"})
    IN  nested @@ Counters(raw, {"input_tokens", "output_tokens", "total_tokens",
                                 "cache_read_input_tokens", "cached_input_tokens"})

\* The first session id and the first error win; message items make the text,
\* and without any, the last event with text does.
ParseCodexJSONL(lines) ==
    LET Record(i)   == MaybeLoadRecord(lines[i])
        ItemText(o) ==
            LET item == MapAt(o, "item") IN
            IF TextAt(item, "type") \in {NoText, <<"agent_message">>}
            THEN TextAt(item, "text") ELSE NoText
        items == FlattenSeq([i \in DOMAIN lines |-> ItemText(Record(i))])
    IN  [text    |-> IF items # NoText THEN items
                     ELSE LastText([i \in DOMAIN lines |->
                              IF Is(lines[i], "obj") THEN CollectText[lines[i]] ELSE NoText]),
         session |-> FirstText([i \in DOMAIN lines |-> ExtractCodexSessionID(Record(i))]),
         usage   |-> FoldLeft(LAMBDA u, v : ExtractCodexUsage(MaybeLoadRecord(v)) @@ u, <<>>, lines),
         error   |-> FirstText([i \in DOMAIN lines |-> IsInlineError(Record(i))])]

ParseCodexResumeText(lines) ==
    [text |-> RawText(lines), session |-> NoText, usage |-> <<>>, error |-> NoText]

-----------------------------------------------------------------------------
(***************************************************************************)
(* Gemini: one JSON object, perhaps after a banner.                        *)
(***************************************************************************)
PickGeminiInt(raw, keys) ==
    LET some == SelectSeq(keys, LAMBDA k : Has(raw, k, "num") /\ raw[k].num > 0)
    IN  IF some = <<>> THEN 0 ELSE raw[Head(some)].num

\* Counters that are zero or less count as absent.  The cached tokens are
\* taken off the input only when "cached" itself or the details name them.
NormalizeGeminiUsage(raw) ==
    LET Nested(k) == PickGeminiInt(MapAt(raw, k), <<"cached_tokens">>)
        nested  == IF Nested("input_tokens_details") > 0 THEN Nested("input_tokens_details")
                   ELSE Nested("prompt_tokens_details")
        flat    == PickGeminiInt(raw, <<"cache_read_input_tokens", "cached_input_tokens",
                                        "cacheRead", "cached">>)
        cached  == IF flat > 0 THEN flat ELSE nested
        total   == PickGeminiInt(raw, <<"input_tokens", "inputTokens">>)
        own     == PickGeminiInt(raw, <<"input">>)
        less    == "cached" \in DOMAIN raw \/ nested > 0
        input   == CASE own > 0 -> own
                     [] less /\ total > 0 -> IF total > cached THEN total - cached ELSE 0
                     [] OTHER -> total
        output  == PickGeminiInt(raw, <<"output_tokens", "outputTokens", "output">>)
        Given(k, n, known) == IF known THEN k :> n ELSE <<>>
    IN  Given("input_tokens", input, own > 0 \/ total > 0)
        @@ Given("output_tokens", output, output > 0)
        @@ Given("cache_read_input_tokens", cached, cached > 0)

ReadGeminiUsage(o) ==
    LET usage == NormalizeGeminiUsage(MapAt(o, "usage"))
    IN  IF DOMAIN usage # {} THEN usage ELSE NormalizeGeminiUsage(MapAt(o, "stats"))

ExtractGeminiSessionID(o) ==
    FirstText(<<TextAt(o, "session_id"), TextAt(o, "conversation_id")>>)

\* Mutant: only an "error" member is an error.
InlineGeminiError_NoFlag(o) ==
    FirstText(<<TextAt(MapAt(o, "error"), "message"), TextAt(o, "error")>>)

InlineGeminiError(o) ==
    IF Has(o, "error", "obj")
    THEN FirstText(<<TextAt(MapAt(o, "error"), "message"), Marshal(MapAt(o, "error"))>>)
    ELSE IF TextAt(o, "error") # NoText THEN TextAt(o, "error")
    ELSE IF FlagAt(o, "is_error")
    THEN FirstText(<<TextAt(o, "result"), TextAt(o, "message"), Marshal(o)>>)
    ELSE NoText

\* ParseGeminiJSON: what precedes the first brace is dropped; an empty output
\* is an empty answer; anything but one object is an error that quotes it (its
\* own words, which no pattern matches, stand for it where there is nothing to
\* quote).
ParseGeminiJSON(lines) ==
    LET objects == {i \in DOMAIN lines : Is(lines[i], "obj")}
        o       == lines[Len(lines)].obj
        Empty(error) == [text |-> NoText, session |-> NoText, usage |-> <<>>, error |-> error]
    IN  IF lines = <<>> THEN Empty(NoText)
        ELSE IF objects # {Len(lines)}
        THEN Empty(FirstText(<<RawText(lines), <<"could not parse gemini JSON output">> >>))
        ELSE [text    |-> FirstText(<<TextAt(o, "response"), CollectGeminiText(Obj(o))>>),
              session |-> ExtractGeminiSessionID(o),
              usage   |-> ReadGeminiUsage(o),
              error   |-> InlineGeminiError(o)]
=============================================================================
