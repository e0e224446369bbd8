----------------------------- MODULE CliTurnProofs -----------------------------
(***************************************************************************)
(* Proofs about a turn of a provider CLI: whatever the processes print and *)
(* however they end, are cancelled or run out of time.                     *)
(***************************************************************************)
EXTENDS CliTurn, SequenceTheorems, FiniteSetTheorems, TLAPS

-----------------------------------------------------------------------------
(***************************************************************************)
(* Texts.                                                                  *)
(***************************************************************************)
\* The first of some positions.
LEMMA LeastIndex ==
    ASSUME NEW T \in SUBSET Nat, T # {}
    PROVE  \E m \in T : \A k \in T : m <= k
<1>1. PICK m \in T : \A k \in T : <<k, m>> \notin OpToRel(<, Nat)
  BY WFMin, NatLessThanWellFounded
<1>2. \A k \in T : ~(k < m)
  BY <1>1 DEF OpToRel
<1>. QED BY <1>2

\* The last of some positions.
LEMMA LastIndex ==
    ASSUME NEW n \in Nat, NEW T \in SUBSET (0..n), T # {}
    PROVE  \E m \in T : \A k \in T : m >= k
<1>. DEFINE B == {n - k : k \in T}
<1>1. B \in SUBSET Nat /\ B # {}
  <2>1. \A k \in T : k \in 0..n /\ n - k \in Nat
    OBVIOUS
  <2>2. PICK k \in T : TRUE
    OBVIOUS
  <2>3. n - k \in B
    BY <2>2
  <2>. QED BY <2>1, <2>3
<1>2. PICK d \in B : \A e \in B : d <= e
  <2>. HIDE DEF B
  <2>. QED BY <1>1, LeastIndex
<1>3. PICK m \in T : d = n - m
  OBVIOUS
<1>4. \A k \in T : n - m <= n - k
  BY <1>2, <1>3
<1>. QED BY <1>4

\* FirstText is blank only if all its texts are.
LEMMA FirstTextFinds ==
    ASSUME NEW n \in Nat, NEW s, DOMAIN s = 1..n
    PROVE  /\ FirstText(s) = NoText <=> \A i \in 1..n : s[i] = NoText
           /\ FirstText(s) # NoText =>
                 \E i \in 1..n : /\ s[i] = FirstText(s)
                                 /\ \A j \in 1..n : s[j] # NoText => i <= j
<1>. DEFINE some == {i \in 1..n : s[i] # NoText}
<1>1. CASE some = {}
  BY <1>1 DEF FirstText
<1>2. CASE some # {}
  <2>1. some \in SUBSET Nat
    OBVIOUS
  <2>. DEFINE i == CHOOSE i \in some : \A j \in some : i <= j
  <2>2. FirstText(s) = s[i]
    BY <1>2 DEF FirstText
  <2>3. i \in some /\ \A j \in some : i <= j
    <3>. HIDE DEF some
    <3>1. \E k \in some : \A j \in some : k <= j
      BY <1>2, <2>1, LeastIndex
    <3>. QED BY <3>1
  <2>. HIDE DEF i
  <2>. QED BY <2>2, <2>3
<1>. QED BY <1>1, <1>2

\* LastText is blank only if all its texts are.
LEMMA LastTextFinds ==
    ASSUME NEW n \in Nat, NEW s, DOMAIN s = 1..n
    PROVE  /\ LastText(s) = NoText <=> \A i \in 1..n : s[i] = NoText
           /\ LastText(s) # NoText =>
                 \E i \in 1..n : /\ s[i] = LastText(s)
                                 /\ \A j \in 1..n : s[j] # NoText => i >= j
<1>. DEFINE some == {i \in 1..n : s[i] # NoText}
<1>1. CASE some = {}
  BY <1>1 DEF LastText
<1>2. CASE some # {}
  <2>1. some \in SUBSET (0..n)
    OBVIOUS
  <2>. DEFINE i == CHOOSE i \in some : \A j \in some : i >= j
  <2>2. LastText(s) = s[i]
    BY <1>2 DEF LastText
  <2>3. i \in some /\ \A j \in some : i >= j
    <3>. HIDE DEF some
    <3>1. \E k \in some : \A j \in some : k >= j
      BY <1>2, <2>1, LastIndex
    <3>. QED BY <3>1
  <2>. HIDE DEF i
  <2>. QED BY <2>2, <2>3
<1>. QED BY <1>1, <1>2

\* Of two texts, the first that is not blank.
LEMMA FirstOfTwo ==
    ASSUME NEW a, NEW b
    PROVE  FirstText(<<a, b>>) = IF a # NoText THEN a ELSE b
<1>. DEFINE s == <<a, b>>
<1>1. DOMAIN s = 1..2 /\ s[1] = a /\ s[2] = b
  OBVIOUS
<1>. HIDE DEF s
<1>2. /\ FirstText(s) = NoText <=> \A i \in 1..2 : s[i] = NoText
      /\ FirstText(s) # NoText =>
            \E i \in 1..2 : /\ s[i] = FirstText(s)
                            /\ \A j \in 1..2 : s[j] # NoText => i <= j
  BY <1>1, FirstTextFinds
<1>3. FirstText(s) = IF a # NoText THEN a ELSE b
  BY <1>1, <1>2
<1>. QED BY <1>3 DEF s

\* Of three texts, the first that is not blank.
LEMMA FirstOfThree ==
    ASSUME NEW a, NEW b, NEW c
    PROVE  FirstText(<<a, b, c>>) = IF a # NoText THEN a ELSE IF b # NoText THEN b ELSE c
<1>. DEFINE s == <<a, b, c>>
<1>1. DOMAIN s = 1..3 /\ s[1] = a /\ s[2] = b /\ s[3] = c
  OBVIOUS
<1>. HIDE DEF s
<1>2. /\ FirstText(s) = NoText <=> \A i \in 1..3 : s[i] = NoText
      /\ FirstText(s) # NoText =>
            \E i \in 1..3 : /\ s[i] = FirstText(s)
                            /\ \A j \in 1..3 : s[j] # NoText => i <= j
  BY <1>1, FirstTextFinds
<1>3. FirstText(s) = IF a # NoText THEN a ELSE IF b # NoText THEN b ELSE c
  BY <1>1, <1>2
<1>. QED BY <1>3 DEF s

\* The JSON form of an object is not blank.
LEMMA MarshalSays == ASSUME NEW o PROVE Marshal(o) # NoText
<1>. DEFINE d == Dump[Obj(o)]
            e == <<"{}">>
<1>1. e # NoText
  BY DEF NoText
<1>2. Marshal(o) = FirstText(<<d, e>>)
  BY DEF Marshal
<1>. HIDE DEF d, e
<1>. QED BY <1>1, <1>2, FirstOfTwo

-----------------------------------------------------------------------------
(***************************************************************************)
(* The parsers.                                                            *)
(***************************************************************************)
\* The object of a line of output.
LEMMA RecordOfLine ==
    ASSUME NEW v, Is(v, "obj")
    PROVE  MaybeLoadRecord(v) = v.obj
BY DEF MaybeLoadRecord

\* isInlineError and isErrorOnResult miss no error that a line reports.
LEMMA ErrorsAreSeen ==
    ASSUME NEW o
    PROVE  /\ TextAt(o, "type") = <<"error">> => IsInlineError(o) # NoText
           /\ TextAt(MapAt(o, "error"), "message") # NoText => IsInlineError(o) # NoText
           /\ TextAt(o, "type") = <<"result">> /\ FlagAt(o, "is_error") =>
                 IsErrorOnResult(o) # NoText
<1>. DEFINE m == MessageUnder(o, <<"message", "error", "result", "detail">>)
            n == MessageUnder(o, <<"result", "message", "error">>)
            d == Marshal(o)
<1>1. d # NoText
  BY MarshalSays
<1>2. FirstText(<<m, d>>) # NoText /\ FirstText(<<n, d>>) # NoText
  <2>. HIDE DEF m, n, d
  <2>. QED BY <1>1, FirstOfTwo
<1>3. TextAt(o, "type") = <<"error">> => IsInlineError(o) # NoText
  BY <1>2 DEF IsInlineError
<1>4. TextAt(o, "type") # <<"error">> => IsInlineError(o) = TextAt(MapAt(o, "error"), "message")
  BY DEF IsInlineError
<1>5. TextAt(o, "type") = <<"result">> /\ FlagAt(o, "is_error") => IsErrorOnResult(o) # NoText
  BY <1>2 DEF IsErrorOnResult
<1>. QED BY <1>3, <1>4, <1>5

\* ParseClaudeJSONL keeps the first error of the stream.
LEMMA ClaudeReports ==
    ASSUME NEW ls \in Seq(Values), NEW i \in DOMAIN ls, ParseClaudeJSONL(ls).error = NoText
    PROVE  /\ IsInlineError(MaybeLoadRecord(ls[i])) = NoText
           /\ IsErrorOnResult(MaybeLoadRecord(ls[i])) = NoText
<1>. DEFINE s == [k \in DOMAIN ls |-> FirstText(<<IsInlineError(MaybeLoadRecord(ls[k])),
                                                 IsErrorOnResult(MaybeLoadRecord(ls[k]))>>)]
            a == IsInlineError(MaybeLoadRecord(ls[i]))
            b == IsErrorOnResult(MaybeLoadRecord(ls[i]))
<1>1. Len(ls) \in Nat /\ DOMAIN s = 1..Len(ls) /\ i \in 1..Len(ls)
  OBVIOUS
<1>2. ParseClaudeJSONL(ls).error = FirstText(s)
  BY DEF ParseClaudeJSONL
<1>3. s[i] = FirstText(<<a, b>>)
  OBVIOUS
<1>4. a = NoText /\ b = NoText
  <2>. HIDE DEF s, a, b
  <2>1. s[i] = NoText
    BY <1>1, <1>2, FirstTextFinds
  <2>. QED BY <1>3, <2>1, FirstOfTwo
<1>. QED BY <1>4

\* parseCodexJSONL keeps the first error of the stream.
LEMMA CodexReports ==
    ASSUME NEW ls \in Seq(Values), NEW i \in DOMAIN ls, ParseCodexJSONL(ls).error = NoText
    PROVE  IsInlineError(MaybeLoadRecord(ls[i])) = NoText
<1>. DEFINE s == [k \in DOMAIN ls |-> IsInlineError(MaybeLoadRecord(ls[k]))]
<1>1. Len(ls) \in Nat /\ DOMAIN s = 1..Len(ls) /\ i \in 1..Len(ls)
  OBVIOUS
<1>2. ParseCodexJSONL(ls).error = FirstText(s)
  BY DEF ParseCodexJSONL
<1>3. s[i] = IsInlineError(MaybeLoadRecord(ls[i]))
  OBVIOUS
<1>. HIDE DEF s
<1>. QED BY <1>1, <1>2, <1>3, FirstTextFinds

\* inlineGeminiError misses no error of the object.
LEMMA GeminiErrorsAreSeen ==
    ASSUME NEW o, InlineGeminiError(o) = NoText
    PROVE  TextAt(MapAt(o, "error"), "message") = NoText /\ ~FlagAt(o, "is_error")
<1>. DEFINE e == MapAt(o, "error")
<1>1. ~Has(o, "error", "obj")
  <2>. DEFINE a == TextAt(e, "message")
              d == Marshal(e)
  <2>1. d # NoText
    BY MarshalSays
  <2>2. FirstText(<<a, d>>) # NoText
    <3>. HIDE DEF a, d
    <3>. QED BY <2>1, FirstOfTwo
  <2>. QED BY <2>2 DEF InlineGeminiError
<1>2. ~FlagAt(o, "is_error")
  <2>. DEFINE a == TextAt(o, "result")
              b == TextAt(o, "message")
              d == Marshal(o)
  <2>1. d # NoText
    BY MarshalSays
  <2>2. FirstText(<<a, b, d>>) # NoText
    <3>. HIDE DEF a, b, d
    <3>. QED BY <2>1, FirstOfThree
  <2>. QED BY <1>1, <2>2 DEF InlineGeminiError
<1>3. TextAt(e, "message") = NoText
  BY <1>1 DEF MapAt, TextAt, Has
<1>. QED BY <1>2, <1>3

\* ParseGeminiJSON: a text other than one object is an error; of one, the session
\* and the error are those of the object.
LEMMA GeminiObject ==
    ASSUME NEW ls \in Seq(Values), ParseGeminiJSON(ls).error = NoText
    PROVE  \/ ls = <<>> /\ ParseGeminiJSON(ls).session = NoText
           \/ /\ ls # <<>>
              /\ {i \in DOMAIN ls : Is(ls[i], "obj")} = {Len(ls)}
              /\ ParseGeminiJSON(ls).session = ExtractGeminiSessionID(ls[Len(ls)].obj)
              /\ InlineGeminiError(ls[Len(ls)].obj) = NoText
<1>1. CASE ls = <<>>
  BY <1>1 DEF ParseGeminiJSON
<1>2. CASE ls # <<>> /\ {i \in DOMAIN ls : Is(ls[i], "obj")} # {Len(ls)}
  <2>. DEFINE t == RawText(ls)
              e == <<"could not parse gemini JSON output">>
  <2>1. ParseGeminiJSON(ls).error = FirstText(<<t, e>>)
    BY <1>2 DEF ParseGeminiJSON
  <2>2. e # NoText
    BY DEF NoText
  <2>. HIDE DEF t, e
  <2>. QED BY <2>1, <2>2, FirstOfTwo
<1>3. CASE ls # <<>> /\ {i \in DOMAIN ls : Is(ls[i], "obj")} = {Len(ls)}
  BY <1>3 DEF ParseGeminiJSON
<1>. QED BY <1>1, <1>2, <1>3

-----------------------------------------------------------------------------
(***************************************************************************)
(* What an output without error says, whichever the backend.               *)
(***************************************************************************)
\* The fields that a turn of Turns has.
LEMMA TurnHas ==
    ASSUME turn \in Turns
    PROVE  /\ backend \in {"claude", "codex", "gemini"}
           /\ child.lines \in Seq(Values)
           /\ Len(child.lines) \in Nat /\ DOMAIN child.lines = 1..Len(child.lines)
           /\ Len(child.complaint) \in Nat
BY CliAssumption, LenProperties DEF backend, child

\* An output whose parser found no error reports none, on any line.
LEMMA NoErrorUnseen ==
    ASSUME turn \in Turns, Parsed(child.lines).error = NoText,
           ~(backend = "codex" /\ input.resume), NEW i \in DOMAIN child.lines
    PROVE  ~ReportsError(child.lines[i])
<1>. DEFINE v == child.lines[i]
<1>. SUFFICES ASSUME ReportsError(v) PROVE FALSE
  OBVIOUS
<1>1. Is(v, "obj") /\ MaybeLoadRecord(v) = v.obj
  BY RecordOfLine DEF ReportsError
<1>2. child.lines \in Seq(Values) /\ backend \in {"claude", "codex", "gemini"}
  BY TurnHas
<1>3. CASE backend = "claude"
  <2>1. ParseClaudeJSONL(child.lines).error = NoText
    BY <1>3 DEF Parsed
  <2>2. IsInlineError(v.obj) = NoText /\ IsErrorOnResult(v.obj) = NoText
    BY <1>1, <1>2, <2>1, ClaudeReports
  <2>. QED BY <1>3, <2>2, ErrorsAreSeen DEF ReportsError
<1>4. CASE backend = "codex"
  <2>1. ParseCodexJSONL(child.lines).error = NoText
    BY <1>4 DEF Parsed
  <2>2. IsInlineError(v.obj) = NoText
    BY <1>1, <1>2, <2>1, CodexReports
  <2>. QED BY <1>4, <2>2, ErrorsAreSeen DEF ReportsError
<1>5. CASE backend = "gemini"
  <2>1. ParseGeminiJSON(child.lines).error = NoText
    BY <1>5 DEF Parsed
  <2>2. i = Len(child.lines) /\ InlineGeminiError(child.lines[Len(child.lines)].obj) = NoText
    BY <1>1, <1>2, <2>1, GeminiObject
  <2>3. InlineGeminiError(v.obj) = NoText
    BY <2>2
  <2>. QED BY <1>5, <2>3, GeminiErrorsAreSeen DEF ReportsError
<1>. QED BY <1>2, <1>3, <1>4, <1>5

\* A line that is no object of JSON names no session.
LEMMA SilentRecord == ExtractGeminiSessionID(<<>>) = NoText
<1>. DEFINE a == TextAt(<<>>, "session_id")
            b == TextAt(<<>>, "conversation_id")
<1>1. DOMAIN <<>> = {}
  OBVIOUS
<1>2. a = NoText /\ b = NoText
  BY <1>1 DEF TextAt, Has
<1>3. ExtractGeminiSessionID(<<>>) = FirstText(<<a, b>>)
  BY DEF ExtractGeminiSessionID
<1>. HIDE DEF a, b
<1>. QED BY <1>2, <1>3, FirstOfTwo

\* Which session ids a line of each CLI may carry.
LEMMA NamedOnLine ==
    ASSUME NEW line
    PROVE  /\ backend = "claude" =>
                NamedSession(line) = ExtractClaudeSessionID(MaybeLoadRecord(line))
           /\ backend = "codex" /\ ~input.resume =>
                NamedSession(line) = ExtractCodexSessionID(MaybeLoadRecord(line))
           /\ backend = "gemini" =>
                NamedSession(line) = ExtractGeminiSessionID(MaybeLoadRecord(line))
<1>. DEFINE o == MaybeLoadRecord(line)
            a == TextAt(o, "session_id")
            b == TextAt(o, "conversation_id")
            c == TextAt(o, "thread_id")
            bn == IF backend = "claude" THEN NoText ELSE b
            cn == IF backend = "gemini" THEN NoText ELSE c
            f == FirstText(<<a, b>>)
<1>1. ~(backend = "codex" /\ input.resume) => NamedSession(line) = FirstText(<<a, bn, cn>>)
  BY DEF NamedSession
<1>2. /\ ExtractClaudeSessionID(o) = FirstText(<<a, c>>)
      /\ ExtractGeminiSessionID(o) = FirstText(<<a, b>>)
      /\ ExtractCodexSessionID(o) = FirstText(<<f, c>>)
  BY DEF ExtractClaudeSessionID, ExtractGeminiSessionID, ExtractCodexSessionID,
         ExtractCodexSessionIDPrimary, ExtractCodexSessionIDFallback
<1>3. /\ FirstText(<<a, bn, cn>>) = IF a # NoText THEN a ELSE IF bn # NoText THEN bn ELSE cn
      /\ FirstText(<<a, c>>) = IF a # NoText THEN a ELSE c
      /\ FirstText(<<a, b>>) = IF a # NoText THEN a ELSE b
      /\ FirstText(<<f, c>>) = IF f # NoText THEN f ELSE c
  <2>. HIDE DEF o, a, b, c, bn, cn, f
  <2>1. FirstText(<<a, bn, cn>>) = IF a # NoText THEN a ELSE IF bn # NoText THEN bn ELSE cn
    BY FirstOfThree
  <2>2. FirstText(<<a, c>>) = IF a # NoText THEN a ELSE c
    BY FirstOfTwo
  <2>3. FirstText(<<a, b>>) = IF a # NoText THEN a ELSE b
    BY FirstOfTwo
  <2>4. FirstText(<<f, c>>) = IF f # NoText THEN f ELSE c
    BY FirstOfTwo
  <2>. QED BY <2>1, <2>2, <2>3, <2>4
<1>4. /\ f = FirstText(<<a, b>>)
      /\ bn = IF backend = "claude" THEN NoText ELSE b
      /\ cn = IF backend = "gemini" THEN NoText ELSE c
  OBVIOUS
<1>. HIDE DEF a, b, c, bn, cn, f
<1>. QED BY <1>1, <1>2, <1>3, <1>4

\* The session of an output without error is one its lines named: the first of
\* Codex's, the last of the others', and none if they named none.
LEMMA SessionIsNamed ==
    ASSUME turn \in Turns, Parsed(child.lines).error = NoText
    PROVE  LET session == Parsed(child.lines).session
               naming  == {i \in DOMAIN child.lines : NamedSession(child.lines[i]) # NoText}
           IN  IF naming = {} THEN session = NoText
               ELSE \E i \in naming :
                       /\ session = NamedSession(child.lines[i])
                       /\ \A j \in naming : IF backend = "codex" THEN i <= j ELSE i >= j
<1>. DEFINE ls == child.lines
            session == Parsed(ls).session
            s == [i \in DOMAIN ls |-> NamedSession(ls[i])]
            naming  == {i \in DOMAIN ls : NamedSession(ls[i]) # NoText}
            Goal == IF naming = {} THEN session = NoText
                    ELSE \E i \in naming :
                            /\ session = NamedSession(ls[i])
                            /\ \A j \in naming : IF backend = "codex" THEN i <= j ELSE i >= j
<1>1. /\ backend \in {"claude", "codex", "gemini"} /\ ls \in Seq(Values)
      /\ Len(ls) \in Nat /\ DOMAIN ls = 1..Len(ls)
  BY TurnHas
<1>2. /\ DOMAIN s = 1..Len(ls)
      /\ \A i \in 1..Len(ls) : s[i] = NamedSession(ls[i])
  BY <1>1
<1>3. CASE backend = "claude"
  <2>1. session = LastText([i \in DOMAIN ls |-> ExtractClaudeSessionID(MaybeLoadRecord(ls[i]))])
    BY <1>3 DEF Parsed, ParseClaudeJSONL
  <2>2. [i \in DOMAIN ls |-> ExtractClaudeSessionID(MaybeLoadRecord(ls[i]))] = s
    BY <1>3, NamedOnLine
  <2>3. session = LastText(s)
    BY <2>1, <2>2
  <2>. HIDE DEF s, session, ls
  <2>4. /\ LastText(s) = NoText <=> \A i \in 1..Len(ls) : s[i] = NoText
        /\ LastText(s) # NoText =>
              \E i \in 1..Len(ls) : /\ s[i] = LastText(s)
                                    /\ \A j \in 1..Len(ls) : s[j] # NoText => i >= j
    BY <1>1, <1>2, LastTextFinds
  <2>5. ASSUME session = NoText PROVE Goal
    <3>1. \A i \in DOMAIN ls : NamedSession(ls[i]) = NoText
      BY <1>1, <1>2, <2>3, <2>4, <2>5
    <3>2. naming = {}
      BY <3>1
    <3>. QED BY <2>5, <3>2
  <2>6. ASSUME session # NoText PROVE Goal
    <3>1. PICK i \in 1..Len(ls) : /\ s[i] = session
                                  /\ \A j \in 1..Len(ls) : s[j] # NoText => i >= j
      BY <2>3, <2>4, <2>6
    <3>2. i \in naming /\ session = NamedSession(ls[i])
      BY <1>1, <1>2, <2>6, <3>1
    <3>3. \A j \in naming : IF backend = "codex" THEN i <= j ELSE i >= j
      BY <1>1, <1>2, <1>3, <3>1
    <3>. QED BY <3>2, <3>3
  <2>7. Goal
    BY <2>5, <2>6
  <2>. QED BY <2>7 DEF session, ls
<1>4. CASE backend = "codex" /\ input.resume
  <2>1. session = NoText
    BY <1>4 DEF Parsed, ParseCodexResumeText
  <2>2. naming = {}
    BY <1>4 DEF NamedSession
  <2>. QED BY <2>1, <2>2
<1>5. CASE backend = "codex" /\ ~input.resume
  <2>1. session = FirstText([i \in DOMAIN ls |-> ExtractCodexSessionID(MaybeLoadRecord(ls[i]))])
    BY <1>5 DEF Parsed, ParseCodexJSONL
  <2>2. [i \in DOMAIN ls |-> ExtractCodexSessionID(MaybeLoadRecord(ls[i]))] = s
    BY <1>5, NamedOnLine
  <2>3. session = FirstText(s)
    BY <2>1, <2>2
  <2>. HIDE DEF s, session, ls
  <2>4. /\ FirstText(s) = NoText <=> \A i \in 1..Len(ls) : s[i] = NoText
        /\ FirstText(s) # NoText =>
              \E i \in 1..Len(ls) : /\ s[i] = FirstText(s)
                                    /\ \A j \in 1..Len(ls) : s[j] # NoText => i <= j
    BY <1>1, <1>2, FirstTextFinds
  <2>5. ASSUME session = NoText PROVE Goal
    <3>1. \A i \in DOMAIN ls : NamedSession(ls[i]) = NoText
      BY <1>1, <1>2, <2>3, <2>4, <2>5
    <3>2. naming = {}
      BY <3>1
    <3>. QED BY <2>5, <3>2
  <2>6. ASSUME session # NoText PROVE Goal
    <3>1. PICK i \in 1..Len(ls) : /\ s[i] = session
                                  /\ \A j \in 1..Len(ls) : s[j] # NoText => i <= j
      BY <2>3, <2>4, <2>6
    <3>2. i \in naming /\ session = NamedSession(ls[i])
      BY <1>1, <1>2, <2>6, <3>1
    <3>3. \A j \in naming : IF backend = "codex" THEN i <= j ELSE i >= j
      BY <1>1, <1>2, <1>5, <3>1
    <3>. QED BY <3>2, <3>3
  <2>7. Goal
    BY <2>5, <2>6
  <2>. QED BY <2>7 DEF session, ls
<1>6. CASE backend = "gemini"
  <2>1. ParseGeminiJSON(ls).error = NoText /\ session = ParseGeminiJSON(ls).session
    BY <1>6 DEF Parsed
  <2>2. CASE ls = <<>>
    <3>1. session = NoText
      BY <1>1, <2>1, <2>2, GeminiObject
    <3>2. naming = {}
      BY <2>2
    <3>. QED BY <3>1, <3>2
  <2>3. CASE ls # <<>>
    <3>. DEFINE n == Len(ls)
    <3>1. /\ {i \in DOMAIN ls : Is(ls[i], "obj")} = {n}
          /\ session = ExtractGeminiSessionID(ls[n].obj)
      BY <1>1, <2>1, <2>3, GeminiObject
    <3>2. n \in DOMAIN ls /\ Is(ls[n], "obj")
      BY <3>1
    <3>3. session = NamedSession(ls[n])
      BY <1>6, <3>1, <3>2, NamedOnLine, RecordOfLine
    <3>4. \A i \in DOMAIN ls : i # n => NamedSession(ls[i]) = NoText
      <4>. SUFFICES ASSUME NEW i \in DOMAIN ls, i # n
                    PROVE  NamedSession(ls[i]) = NoText
        OBVIOUS
      <4>1. ~Is(ls[i], "obj")
        BY <3>1
      <4>2. MaybeLoadRecord(ls[i]) = <<>>
        BY <4>1 DEF MaybeLoadRecord
      <4>3. ExtractGeminiSessionID(<<>>) = NoText
        BY SilentRecord
      <4>. QED BY <1>6, <4>2, <4>3, NamedOnLine
    <3>5. naming \subseteq {n}
      BY <3>4
    <3>6. Goal
      <4>. HIDE DEF session
      <4>. QED BY <1>1, <1>6, <3>2, <3>3, <3>5
    <3>. QED BY <3>6
  <2>. QED BY <2>2, <2>3
<1>. QED BY <1>1, <1>3, <1>4, <1>5, <1>6

-----------------------------------------------------------------------------
(***************************************************************************)
(* The turn.                                                               *)
(***************************************************************************)
TurnTypeOK ==
    /\ turn \in Turns
    /\ printed \in 0..Len(child.lines) /\ read \in 0..printed
    /\ complained \in Nat /\ heard \in 0..complained
    /\ leader \in {"none", "running", "exited", "killed"}

\* Before the CLI is started there is no process; from the time its output is
\* taken to be whole, none is left that could add to it.
Waits ==
    /\ pc \in {"argv", "spawn"} => leader = "none" /\ helper = "none"
    /\ pc \in {"readerr", "collect", "cleanup", "done"} => Closed
    /\ pc \in {"readerr", "collect"} => read = printed
    /\ pc \notin {"argv", "spawn", "cleanup", "done"} => leader # "none"
    /\ leader = "exited" => printed = Len(child.lines)

\* Where an answer comes from.
Result ==
    /\ pc \notin {"cleanup", "done"} => result = NoResult
    /\ result.kind = "answer" =>
         /\ leader = "exited" /\ child.code = 0
         /\ Parsed(child.lines).error = NoText
         /\ result = Answer(Parsed(child.lines))

\* The files that a turn leaves to its end are its own to remove, but for the
\* prompt of a Codex turn whose MCP block holds a null.
Files ==
    /\ pc = "argv" => files = {}
    /\ ~PromptLeft => files \subseteq owned
    /\ PromptLeft /\ pc # "argv" => files = {"system"} /\ owned = {}
    /\ pc = "done" /\ ~PromptLeft => files = {}

TurnInv == TurnTypeOK /\ Waits /\ Result /\ Files

\* A failed turn has not answered.
LEMMA FailureFails == ASSUME NEW c PROVE Failure(c).kind = "error"
BY DEF Failure, NoResult

\* All the lines, once they are all read.
LEMMA WholeOutput ==
    ASSUME NEW S, NEW ls \in Seq(S)
    PROVE  SubSeq(ls, 1, Len(ls)) = ls
<1>1. Len(ls) \in Nat /\ DOMAIN ls = 1..Len(ls)
  BY LenProperties
<1>. QED BY <1>1, SubSeqProperties, SeqEqual

LEMMA TurnInitial == TurnInit => TurnInv
<1>. SUFFICES ASSUME TurnInit PROVE TurnInv
  OBVIOUS
<1>1. Len(child.lines) \in Nat
  BY TurnHas DEF TurnInit
<1>2. result.kind = "none"
  BY DEF TurnInit, NoResult
<1>. QED BY <1>1, <1>2 DEF TurnInit, TurnInv, TurnTypeOK, Waits, Result, Files, Closed

\* What the processes do on their own leaves the goroutine of Turn alone.
LEMMA ProcessesKeep == ASSUME TurnInv, ProcessStep PROVE TurnInv'
<1>1. /\ Len(child.lines) \in Nat /\ Len(child.complaint) \in Nat
      /\ child' = child /\ backend' = backend /\ input' = input
  BY TurnHas DEF TurnInv, TurnTypeOK, ProcessStep, child, backend, input
<1>2. /\ turn' = turn /\ pc' = pc /\ files' = files /\ owned' = owned
      /\ read' = read /\ heard' = heard /\ result' = result
  BY DEF ProcessStep, readVars
<1>3. Parsed(child.lines)' = Parsed(child.lines)
  BY <1>2 DEF Parsed, backend, input, child
<1>4. Answer(Parsed(child.lines))' = Answer(Parsed(child.lines))
  BY <1>2, <1>3 DEF Answer, input, backend, child, Parsed
<1>5. CASE WriteOut
  BY <1>1, <1>2, <1>3, <1>4, <1>5
  DEF TurnInv, TurnTypeOK, Waits, Result, Files, PromptLeft, TOMLRejects, Closed, WriteOut, NoResult
<1>6. CASE WriteErr
  BY <1>1, <1>2, <1>3, <1>4, <1>6
  DEF TurnInv, TurnTypeOK, Waits, Result, Files, PromptLeft, TOMLRejects, Closed, WriteErr, NoResult
<1>7. CASE Exit
  BY <1>1, <1>2, <1>3, <1>4, <1>7
  DEF TurnInv, TurnTypeOK, Waits, Result, Files, PromptLeft, TOMLRejects, Closed, Exit, NoResult
<1>8. CASE ObeyTerm
  BY <1>1, <1>2, <1>3, <1>4, <1>8
  DEF TurnInv, TurnTypeOK, Waits, Result, Files, PromptLeft, TOMLRejects, Closed, ObeyTerm, NoResult
<1>. QED BY <1>5, <1>6, <1>7, <1>8 DEF ProcessStep

\* The command line.
LEMMA ArgvKeeps == ASSUME TurnInv, BuildArgv PROVE TurnInv'
<1>1. /\ turn' = turn /\ UNCHANGED <<leader, helper, printed, complained, read, heard>>
      /\ pc = "argv" /\ leader = "none" /\ helper = "none" /\ result = NoResult
      /\ child' = child /\ backend' = backend /\ input' = input
      /\ Len(child.lines) \in Nat
  BY TurnHas DEF BuildArgv, processVars, readVars, TurnInv, TurnTypeOK, Waits, Result,
                 child, backend, input
<1>2. /\ pc' \in {"spawn", "cleanup"} /\ result'.kind # "answer"
      /\ pc' = "spawn" => result' = NoResult
  <2>. DEFINE f == Failure("unknown")
  <2>1. f.kind = "error"
    BY FailureFails
  <2>2. \/ pc' = "cleanup" /\ result' = f
        \/ pc' = "spawn" /\ result' = result
    BY DEF BuildArgv, ClaudeArgv, CodexArgv, GeminiArgv, Conclude
  <2>. HIDE DEF f
  <2>. QED BY <1>1, <2>1, <2>2 DEF NoResult
<1>3. ~PromptLeft => files' \subseteq owned'
  BY <1>1 DEF BuildArgv, ClaudeArgv, CodexArgv, GeminiArgv, PromptLeft, TurnInv, Files
<1>8. PromptLeft => files' = {"system"} /\ owned' = {}
  BY DEF BuildArgv, ClaudeArgv, CodexArgv, GeminiArgv, PromptLeft
<1>4. TurnTypeOK'
  BY <1>1 DEF TurnInv, TurnTypeOK
<1>5. Waits'
  BY <1>1, <1>2 DEF TurnInv, Waits, Closed
<1>6. Result'
  BY <1>1, <1>2 DEF Result, NoResult
<1>7. Files'
  BY <1>1, <1>2, <1>3, <1>8 DEF Files, PromptLeft, TOMLRejects
<1>. QED BY <1>4, <1>5, <1>6, <1>7 DEF TurnInv

\* Starting the CLI.
LEMMA SpawnKeeps == ASSUME TurnInv, Spawn PROVE TurnInv'
<1>1. /\ turn' = turn /\ UNCHANGED <<printed, complained, read, heard, files, owned>>
      /\ pc = "spawn" /\ leader = "none" /\ helper = "none" /\ result = NoResult
      /\ child' = child /\ backend' = backend /\ input' = input
      /\ Len(child.lines) \in Nat
  BY TurnHas DEF Spawn, readVars, TurnInv, TurnTypeOK, Waits, Result, child, backend, input
<1>2. \/ pc' \in {"readout", "select"} /\ result' = NoResult /\ leader' = "running"
      \/ /\ pc' = "cleanup" /\ result'.kind # "answer"
         /\ leader' = "none" /\ helper' = "none"
  <2>. DEFINE f == Failure("unknown")
  <2>1. f.kind = "error"
    BY FailureFails
  <2>2. \/ pc' \in {"readout", "select"} /\ result' = result /\ leader' = "running"
        \/ pc' = "cleanup" /\ result' = f /\ leader' = leader /\ helper' = helper
    BY DEF Spawn, Conclude
  <2>. HIDE DEF f
  <2>. QED BY <1>1, <2>1, <2>2
<1>3. TurnTypeOK'
  BY <1>1, <1>2 DEF TurnInv, TurnTypeOK
<1>4. Waits'
  BY <1>1, <1>2 DEF TurnInv, Waits, Closed
<1>5. Result'
  BY <1>1, <1>2 DEF Result, NoResult
<1>6. Files'
  BY <1>1, <1>2 DEF TurnInv, Files, PromptLeft, TOMLRejects
<1>. QED BY <1>3, <1>4, <1>5, <1>6 DEF TurnInv

\* Reading the pipes: cmd.Wait's copies of Claude and Codex, and the two ReadAll
\* of Gemini.
LEMMA ReadingKeeps == ASSUME TurnInv, Copy \/ ReadAll PROVE TurnInv'
<1>1. /\ turn' = turn /\ UNCHANGED <<leader, helper, printed, complained, files, owned, result>>
      /\ child' = child /\ backend' = backend /\ input' = input
      /\ Len(child.lines) \in Nat
  BY TurnHas DEF Copy, ReadAll, processVars, TurnInv, TurnTypeOK, child, backend, input
<1>2. read' \in 0..printed /\ heard' \in 0..complained
  BY DEF Copy, ReadAll, readVars, TurnInv, TurnTypeOK
<1>3. /\ read = printed => read' = read
      /\ \/ pc' = pc
         \/ pc = "readout" /\ pc' = "readerr" /\ Closed /\ read = printed /\ leader # "none"
         \/ pc = "readerr" /\ pc' = "collect"
  <2>0. read \in Int /\ printed \in Int /\ (pc = "readout" => leader # "none")
    BY DEF TurnInv, TurnTypeOK, Waits
  <2>1. CASE Copy
    BY <2>0, <2>1 DEF Copy
  <2>2. CASE pc = "readout" /\ read < printed /\ pc' = pc
    BY <2>0, <2>2
  <2>3. CASE pc = "readout" /\ OutAtEnd /\ pc' = "readerr" /\ read' = read
    BY <2>0, <2>3 DEF OutAtEnd
  <2>4. CASE pc = "readerr" /\ read' = read /\ pc' \in {pc, "collect"}
    BY <2>4
  <2>. QED BY <2>1, <2>2, <2>3, <2>4 DEF ReadAll, readVars
<1>4. TurnTypeOK'
  BY <1>1, <1>2 DEF TurnInv, TurnTypeOK
<1>5. Waits'
  BY <1>1, <1>3 DEF TurnInv, Waits, Closed
<1>6. Result'
  <2>1. Parsed(child.lines)' = Parsed(child.lines)
    BY <1>1 DEF Parsed
  <2>2. Answer(Parsed(child.lines))' = Answer(Parsed(child.lines))
    BY <1>1, <2>1 DEF Answer
  <2>3. NoResult' = NoResult
    BY DEF NoResult
  <2>4. pc' \in {"cleanup", "done"} <=> pc \in {"cleanup", "done"}
    BY <1>3
  <2>5. Result
    BY DEF TurnInv
  <2>. QED BY <1>1, <2>1, <2>2, <2>3, <2>4, <2>5 DEF Result
<1>7. Files'
  BY <1>1, <1>3 DEF TurnInv, Files, PromptLeft, TOMLRejects
<1>. QED BY <1>4, <1>5, <1>6, <1>7 DEF TurnInv

\* The select, terminateProcess and os/exec's watcher.
LEMMA EndingKeeps ==
    ASSUME TurnInv, Select \/ Terminate \/ Grace \/ Await \/ Watch
    PROVE  TurnInv'
<1>1. /\ turn' = turn /\ UNCHANGED <<printed, complained, read, heard, files, owned, result>>
      /\ child' = child /\ backend' = backend /\ input' = input
      /\ Len(child.lines) \in Nat
  BY TurnHas DEF Select, Terminate, Grace, Await, Watch, processVars, readVars,
                 TurnInv, TurnTypeOK, child, backend, input
<1>2. /\ leader' = leader \/ (leader = "running" /\ leader' = "killed")
      /\ helper' = helper \/ (helper = "running" /\ helper' = "killed")
  <2>1. CASE Select \/ Terminate \/ Await
    BY <2>1 DEF Select, Terminate, Await, processVars
  <2>2. CASE Grace
    BY <2>2 DEF Grace
  <2>3. CASE Watch
    BY <2>3 DEF Watch
  <2>. QED BY <2>1, <2>2, <2>3
<1>3. \/ pc' = pc
      \/ pc' \in {"terminate", "grace", "await"} /\ pc \in {"select", "terminate", "grace"}
      \/ /\ pc' = "collect" /\ pc \in {"select", "await"} /\ Closed /\ read = printed
         /\ leader' = leader /\ helper' = helper
  BY DEF Select, Terminate, Grace, Await, Watch, Waited, OutAtEnd, processVars
<1>4. TurnTypeOK'
  BY <1>1, <1>2 DEF TurnInv, TurnTypeOK
<1>5. Waits'
  BY <1>1, <1>2, <1>3 DEF TurnInv, Waits, Closed
<1>6. Result'
  <2>1. Parsed(child.lines)' = Parsed(child.lines)
    BY <1>1 DEF Parsed
  <2>2. Answer(Parsed(child.lines))' = Answer(Parsed(child.lines))
    BY <1>1, <2>1 DEF Answer
  <2>3. NoResult' = NoResult
    BY DEF NoResult
  <2>4. /\ pc' \in {"cleanup", "done"} <=> pc \in {"cleanup", "done"}
        /\ leader = "exited" => leader' = "exited"
    BY <1>2, <1>3
  <2>5. Result
    BY DEF TurnInv
  <2>. QED BY <1>1, <2>1, <2>2, <2>3, <2>4, <2>5 DEF Result
<1>7. Files'
  BY <1>1, <1>3 DEF TurnInv, Files, PromptLeft, TOMLRejects
<1>. QED BY <1>4, <1>5, <1>6, <1>7 DEF TurnInv

\* The result: an answer is made of all the output of a process that has ended
\* by itself with success.
LEMMA CollectKeeps == ASSUME TurnInv, Collect PROVE TurnInv'
<1>1. /\ turn' = turn
      /\ UNCHANGED <<leader, helper, printed, complained, read, heard, files, owned>>
      /\ pc = "collect" /\ pc' = "cleanup" /\ Closed /\ leader # "none" /\ read = printed
      /\ child' = child /\ backend' = backend /\ input' = input
      /\ child.lines \in Seq(Values) /\ Len(child.lines) \in Nat
      /\ backend \in {"claude", "codex", "gemini"}
  BY TurnHas DEF Collect, Conclude, processVars, readVars, TurnInv, TurnTypeOK, Waits,
                 child, backend, input
<1>2. \/ \E c : result' = Failure(c)
      \/ /\ leader # "killed" /\ child.code = 0
         /\ \/ \E c : result' = Failure(c)
            \/ Parsed(Output).error = NoText /\ result' = Answer(Parsed(Output))
  <2>1. CASE backend = "claude"
    <3>1. result' = ClaudeResult
      BY <2>1 DEF Collect, Conclude
    <3>. QED BY <3>1 DEF ClaudeResult, Judge
  <2>2. CASE backend = "codex"
    <3>1. result' = CodexResult
      BY <2>2 DEF Collect, Conclude
    <3>. QED BY <3>1 DEF CodexResult, Judge
  <2>3. CASE backend = "gemini"
    <3>1. result' = GeminiResult
      BY <2>3 DEF Collect, Conclude
    <3>. QED BY <3>1 DEF GeminiResult, Judge
  <2>. QED BY <1>1, <2>1, <2>2, <2>3
<1>3. CASE \E c : result' = Failure(c)
  <2>1. result'.kind = "error"
    BY <1>3, FailureFails
  <2>2. Result'
    BY <1>1, <2>1 DEF Result
  <2>. QED BY <1>1, <2>2 DEF TurnInv, TurnTypeOK, Waits, Closed, Files, PromptLeft, TOMLRejects
<1>4. CASE /\ leader # "killed" /\ child.code = 0
           /\ Parsed(Output).error = NoText /\ result' = Answer(Parsed(Output))
  <2>1. leader = "exited" /\ read = Len(child.lines)
    BY <1>1, <1>4 DEF TurnInv, TurnTypeOK, Waits, Closed
  <2>2. Output = child.lines
    <3>. DEFINE ls == child.lines
    <3>1. ls \in Seq(Values) /\ Output = SubSeq(ls, 1, Len(ls))
      BY <1>1, <2>1 DEF Output
    <3>. HIDE DEF ls
    <3>2. SubSeq(ls, 1, Len(ls)) = ls
      BY <3>1, WholeOutput
    <3>. QED BY <3>1, <3>2 DEF ls
  <2>3. Parsed(child.lines).error = NoText /\ result' = Answer(Parsed(child.lines))
    BY <1>4, <2>2
  <2>4. Parsed(child.lines)' = Parsed(child.lines)
    BY <1>1 DEF Parsed
  <2>5. Answer(Parsed(child.lines))' = Answer(Parsed(child.lines))
    BY <1>1, <2>4 DEF Answer
  <2>6. Result'
    BY <1>1, <1>4, <2>1, <2>3, <2>4, <2>5 DEF Result
  <2>. QED BY <1>1, <2>6 DEF TurnInv, TurnTypeOK, Waits, Closed, Files, PromptLeft, TOMLRejects
<1>. QED BY <1>2, <1>3, <1>4

\* The deferred removals, the cancellation and the timer.
LEMMA OthersKeep ==
    ASSUME TurnInv, Cleanup \/ Cancel \/ Expire \/ UNCHANGED turnVars
    PROVE  TurnInv'
<1>1. /\ turn' = turn
      /\ UNCHANGED <<leader, helper, printed, complained, read, heard, owned, result>>
      /\ child' = child /\ backend' = backend /\ input' = input
  BY DEF Cleanup, Cancel, Expire, turnVars, processVars, readVars, child, backend, input
<1>2. \/ pc' = pc /\ files' = files
      \/ pc = "cleanup" /\ pc' = "done" /\ files' = files \ owned
  BY DEF Cleanup, Cancel, Expire, turnVars
<1>3. TurnTypeOK'
  BY <1>1 DEF TurnInv, TurnTypeOK
<1>4. Waits'
  BY <1>1, <1>2 DEF TurnInv, Waits, Closed
<1>5. Result'
  <2>1. Parsed(child.lines)' = Parsed(child.lines)
    BY <1>1 DEF Parsed
  <2>2. Answer(Parsed(child.lines))' = Answer(Parsed(child.lines))
    BY <1>1, <2>1 DEF Answer
  <2>3. NoResult' = NoResult
    BY DEF NoResult
  <2>4. pc' \in {"cleanup", "done"} <=> pc \in {"cleanup", "done"}
    BY <1>2
  <2>5. Result
    BY DEF TurnInv
  <2>. QED BY <1>1, <2>1, <2>2, <2>3, <2>4, <2>5 DEF Result
<1>6. Files'
  BY <1>1, <1>2 DEF TurnInv, Files, PromptLeft, TOMLRejects
<1>. QED BY <1>3, <1>4, <1>5, <1>6 DEF TurnInv

LEMMA TurnKeeps == TurnInv /\ [TurnNext]_turnVars => TurnInv'
BY ProcessesKeep, ArgvKeeps, SpawnKeeps, ReadingKeeps, EndingKeeps, CollectKeeps, OthersKeep
DEF TurnNext, TurnStep

\* Whatever the CLI prints and however it ends.
THEOREM TurnInvariance == TurnSpec => []TurnInv
BY TurnInitial, TurnKeeps, PTL DEF TurnSpec

\* For any output and any interleaving of the copying, the exit, a cancellation
\* and the timer, an answer is made of all that the CLI printed (claude.go,
\* codex.go, gemini.go: Turn).
THEOREM AnswersAreWhole == TurnSpec => []AnswerIsWhole
<1>1. TurnInv => AnswerIsWhole
  <2>. SUFFICES ASSUME TurnInv, result.kind = "answer"
                PROVE  leader = "exited" /\ child.code = 0
                       /\ result.text = Parsed(child.lines).text
    BY DEF AnswerIsWhole
  <2>. QED BY DEF TurnInv, Result, Answer
<1>. QED BY <1>1, TurnInvariance, PTL

\* For any output, an error that the CLI reports in it is not taken for an
\* answer, on whichever line it stands (isInlineError, inlineGeminiError).
THEOREM ReportedErrorsFail == TurnSpec => []ErrorsAreReported
<1>1. TurnInv => ErrorsAreReported
  BY NoErrorUnseen DEF TurnInv, TurnTypeOK, Result, ErrorsAreReported
<1>. QED BY <1>1, TurnInvariance, PTL

\* For any output, the conversation can go on from an answer (ParseClaudeJSONL,
\* parseCodexJSONL, ParseGeminiJSON and the callers that keep the session).
THEOREM ConversationGoesOn == TurnSpec => []SessionKept
<1>1. TurnInv => SessionKept
  <2>. SUFFICES ASSUME TurnInv, result.kind = "answer" PROVE SessionKept
    BY DEF SessionKept
  <2>. DEFINE p == Parsed(child.lines)
              named == {i \in DOMAIN child.lines : NamedSession(child.lines[i]) # NoText}
  <2>1. turn \in Turns /\ p.error = NoText
    BY DEF TurnInv, TurnTypeOK, Result
  <2>2. result.session = IF p.session # NoText THEN p.session
                         ELSE IF input.resume THEN <<"resumed">> ELSE NoText
    BY DEF TurnInv, Result, Answer
  <2>3. <<"resumed">> # NoText
    BY DEF NoText
  <2>4. IF named = {} THEN p.session = NoText
        ELSE \E i \in named :
                /\ p.session = NamedSession(child.lines[i])
                /\ \A j \in named : IF backend = "codex" THEN i <= j ELSE i >= j
    BY <2>1, SessionIsNamed
  <2>5. CASE named = {}
    BY <2>2, <2>3, <2>4, <2>5 DEF SessionKept
  <2>6. CASE named # {}
    <3>1. PICK i \in named :
             /\ p.session = NamedSession(child.lines[i])
             /\ \A j \in named : IF backend = "codex" THEN i <= j ELSE i >= j
      BY <2>4, <2>6
    <3>2. result.session = NamedSession(child.lines[i])
      BY <2>2, <3>1
    <3>. QED BY <2>6, <3>1, <3>2 DEF SessionKept
  <2>. QED BY <2>5, <2>6
<1>. QED BY <1>1, TurnInvariance, PTL

\* When Turn returns, whichever way the turn went, no process holds its pipes
\* and no file of it is left, with the one exception of the prompt that codex.go
\* writes before a null in the MCP block fails the command line.
THEOREM TurnsLeaveNothing == TurnSpec => []NothingLeftBehind
<1>1. TurnInv => NothingLeftBehind
  BY DEF TurnInv, TurnTypeOK, Waits, Files, PromptLeft, TOMLRejects, backend, input,
         NothingLeftBehind
<1>. QED BY <1>1, TurnInvariance, PTL
=============================================================================
