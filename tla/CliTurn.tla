-------------------------------- MODULE CliTurn -------------------------------
(***************************************************************************)
(* One turn of a provider CLI (internal/clibackend): the backend writes    *)
(* its temporary files, starts the CLI in a process group, reads what it   *)
(* prints, and ends it when the context is cancelled or the turn's time is *)
(* up.  The CLI is the group's leader; a helper it starts (an MCP server)  *)
(* inherits its pipes.                                                     *)
(*                                                                         *)
(* Claude and Codex copy both pipes while they wait for the process, and   *)
(* signal the group.  Gemini reads stdout to its end, then stderr, then    *)
(* waits, and os/exec signals the leader only.                             *)
(***************************************************************************)
EXTENDS CliOutput, FiniteSets

CONSTANTS
    Turns,      \* the turns and the processes they meet, a set of records
                \* [backend : {"claude", "codex", "gemini"},
                \*  input   : [resume, system, mcp, image, deadline, cancellable, installed],
                \*  child   : [lines, complaint, code, stuck, stubborn, helper]],
                \*  a code of -1 being a signal
    PipeSize    \* phrases of stderr that fit in the pipe

ASSUME CliAssumption ==
    /\ PipeSize \in Nat
    /\ \A t \in Turns : /\ t.backend \in {"claude", "codex", "gemini"}
                        /\ t.child.lines \in Seq(Values) /\ t.child.complaint \in Seq(STRING)

VARIABLES
    turn,                   \* of Turns
    pc,                     \* of the goroutine in Turn
    fired,                  \* the branch the select took
    files, owned,           \* temporary files, and those to be removed
    leader, helper,         \* "none", "running", "exited", "killed"
    termed,                 \* who has received SIGTERM
    watch,                  \* os/exec's watcher of the context (Gemini)
    printed, read,          \* lines of stdout, written and read
    complained, heard,      \* phrases of stderr, written and read
    cancelled, expired,     \* the context, the turn's timer
    result
turnVars == <<turn, pc, fired, files, owned, leader, helper, termed, watch,
              printed, read, complained, heard, cancelled, expired, result>>
processVars == <<leader, helper, termed, watch, printed, complained>>
readVars    == <<read, heard>>

backend == turn.backend
input   == turn.input
child   == turn.child

NoResult  == [kind |-> "none", class |-> "none", text |-> NoText, session |-> NoText]
Failure(c) == [NoResult EXCEPT !.kind = "error", !.class = c]
\* Mutant: an output that names no session ends the conversation.
Answer_Fresh(p) == [kind |-> "answer", class |-> "none", text |-> p.text, session |-> p.session]
Answer(p) == [kind |-> "answer", class |-> "none", text |-> p.text,
               session |-> IF p.session # NoText THEN p.session
                           ELSE IF input.resume THEN <<"resumed">> ELSE NoText]

TurnInit ==
    /\ turn \in Turns
    /\ pc = "argv" /\ fired = "none" /\ files = {} /\ owned = {}
    /\ leader = "none" /\ helper = "none" /\ termed = {} /\ watch = "idle"
    /\ printed = 0 /\ read = 0 /\ complained = 0 /\ heard = 0
    /\ cancelled = FALSE /\ expired = FALSE /\ result = NoResult

Conclude(r) == /\ result' = r /\ pc' = "cleanup"

-----------------------------------------------------------------------------
(***************************************************************************)
(* The command line and its temporary files.                               *)
(***************************************************************************)
\* SerializeTOMLInlineValue has no form for a null.
TOMLRejects == input.mcp = "null"

\* normalizeGeminiImageArg: links are resolved, and the image must then lie in
\* the workspace.
ImageRejected == input.image = "outside"

\* buildGeminiSettingsOverlay: the MCP servers are merged into a copy of the
\* user's settings, in a directory of its own.
SettingsOverlay == IF input.mcp = "none" THEN {} ELSE {"settings", "directory"}

ResolveExecutable == input.installed

\* writeMCPConfig.
ClaudeArgv ==
    /\ backend = "claude"
    /\ files' = IF input.mcp = "none" THEN {} ELSE {"mcp"}
    /\ owned' = files'
    /\ pc' = "spawn" /\ UNCHANGED result

\* The system prompt is passed only to a fresh session.  A value TOML cannot
\* express fails the command line after the prompt has been written, and only
\* the caller of a command line that succeeded removes the prompt.
CodexArgv ==
    /\ backend = "codex"
    /\ files' = IF input.system /\ ~input.resume THEN {"system"} ELSE {}
    /\ IF TOMLRejects
       THEN /\ Conclude(Failure("unknown")) /\ owned' = {}
       ELSE /\ owned' = files' /\ pc' = "spawn" /\ UNCHANGED result

GeminiArgv ==
    /\ backend = "gemini"
    /\ IF ImageRejected
       THEN /\ Conclude(Failure("unknown")) /\ UNCHANGED <<files, owned>>
       ELSE /\ files' = SettingsOverlay
            /\ owned' = files'
            /\ pc' = "spawn" /\ UNCHANGED result

BuildArgv ==
    /\ pc = "argv"
    /\ ClaudeArgv \/ CodexArgv \/ GeminiArgv
    /\ UNCHANGED <<turn, processVars, readVars, fired, cancelled, expired>>

Spawn ==
    /\ pc = "spawn"
    /\ IF ResolveExecutable
       THEN /\ leader' = "running"
            /\ helper' = IF child.helper = "none" THEN "none" ELSE "running"
            /\ pc' = IF backend = "gemini" THEN "readout" ELSE "select"
            /\ UNCHANGED result
       ELSE /\ Conclude(Failure("unknown")) /\ UNCHANGED <<leader, helper>>
    /\ UNCHANGED <<turn, fired, files, owned, termed, watch, printed, complained,
                   readVars, cancelled, expired>>

-----------------------------------------------------------------------------
(***************************************************************************)
(* The processes.  A stuck leader never ends by itself, a stubborn process *)
(* ignores SIGTERM.  A "child" helper ends after its leader, a "lingering" *)
(* one when it is told to, a "stubborn" one only when it is killed.        *)
(***************************************************************************)
WriteOut ==
    /\ leader = "running" /\ printed < Len(child.lines)
    /\ printed' = printed + 1
    /\ UNCHANGED <<leader, helper, termed, watch, complained>>

WriteErr ==
    /\ leader = "running" /\ complained < Len(child.complaint)
    /\ complained - heard < PipeSize
    /\ complained' = complained + 1
    /\ UNCHANGED <<leader, helper, termed, watch, printed>>

Exit ==
    /\ leader = "running" /\ ~child.stuck
    /\ printed = Len(child.lines) /\ complained = Len(child.complaint)
    /\ leader' = IF child.code = -1 THEN "killed" ELSE "exited"
    /\ UNCHANGED <<helper, termed, watch, printed, complained>>

ObeyTerm ==
    \/ /\ leader = "running" /\ "leader" \in termed /\ ~child.stubborn
       /\ leader' = "killed"
       /\ UNCHANGED <<helper, termed, watch, printed, complained>>
    \/ /\ helper = "running"
       /\ \/ "helper" \in termed /\ child.helper # "stubborn"
          \/ child.helper = "child" /\ leader # "running"
       /\ helper' = "exited"
       /\ UNCHANGED <<leader, termed, watch, printed, complained>>

ProcessStep ==
    /\ WriteOut \/ WriteErr \/ Exit \/ ObeyTerm
    /\ UNCHANGED <<turn, pc, fired, files, owned, readVars, cancelled, expired, result>>

\* Both ends of a pipe: the read end sees its end when no process holds the
\* write end any more.
Closed    == leader # "running" /\ helper # "running"
OutAtEnd  == Closed /\ read = printed
ErrAtEnd  == Closed /\ heard = complained

-----------------------------------------------------------------------------
(***************************************************************************)
(* Claude and Codex: cmd.Wait copies both pipes in the background.         *)
(***************************************************************************)
Copy ==
    /\ backend # "gemini"
    /\ \/ read < printed /\ read' = read + 1 /\ UNCHANGED heard
       \/ heard < complained /\ heard' = heard + 1 /\ UNCHANGED read
    /\ UNCHANGED <<turn, pc, fired, files, owned, processVars, cancelled, expired, result>>

\* Mutant: the process is waited for and its pipes are not.
Waited_LeaderOnly == leader # "running"

Waited == OutAtEnd /\ ErrAtEnd

\* The select: any branch that is ready may be taken.
Select ==
    /\ pc = "select"
    /\ \/ Waited /\ pc' = "collect" /\ UNCHANGED fired
       \/ cancelled /\ fired' = "context" /\ pc' = "terminate"
       \/ expired /\ fired' = "timer" /\ pc' = "terminate"
    /\ UNCHANGED <<turn, files, owned, processVars, readVars, cancelled, expired, result>>

\* terminateProcess: SIGTERM to the group; as soon as the leader is gone it
\* returns, and after a second it kills the group.
Terminate ==
    /\ pc = "terminate"
    /\ termed' = {"leader", "helper"}
    /\ pc' = "grace"
    /\ UNCHANGED <<turn, fired, files, owned, leader, helper, watch, printed, complained,
                   readVars, cancelled, expired, result>>

\* Mutant: a process that ignores SIGTERM is not killed.
Grace_NoKill ==
    /\ pc = "grace" /\ pc' = "await"
    /\ UNCHANGED <<turn, fired, files, owned, processVars, readVars, cancelled, expired, result>>

Grace ==
    /\ pc = "grace"
    /\ IF leader = "running"
       THEN /\ leader' = "killed"
            /\ helper' = IF helper = "running" THEN "killed" ELSE helper
       ELSE UNCHANGED <<leader, helper>>
    /\ pc' = "await"
    /\ UNCHANGED <<turn, fired, files, owned, termed, watch, printed, complained,
                   readVars, cancelled, expired, result>>

\* Mutant: after SIGKILL nobody waits.
Await_Not ==
    /\ pc = "await" /\ pc' = "collect"
    /\ UNCHANGED <<turn, fired, files, owned, processVars, readVars, cancelled, expired, result>>

Await ==
    /\ pc = "await" /\ Waited
    /\ pc' = "collect"
    /\ UNCHANGED <<turn, fired, files, owned, processVars, readVars, cancelled, expired,
                   result>>

-----------------------------------------------------------------------------
(***************************************************************************)
(* Gemini: stdout to its end, then stderr, then Wait.                      *)
(***************************************************************************)
ReadAll ==
    /\ \/ /\ pc = "readout" /\ read < printed
          /\ read' = read + 1 /\ UNCHANGED <<heard, pc>>
       \/ /\ pc = "readout" /\ OutAtEnd
          /\ pc' = "readerr" /\ UNCHANGED readVars
       \/ /\ pc = "readerr" /\ heard < complained
          /\ heard' = heard + 1 /\ UNCHANGED <<read, pc>>
       \/ /\ pc = "readerr" /\ ErrAtEnd
          /\ pc' = "collect" /\ UNCHANGED readVars
    /\ UNCHANGED <<turn, fired, files, owned, processVars, cancelled, expired, result>>

\* os/exec: Cancel sends SIGTERM to the leader; WaitDelay later it is killed.
Watch ==
    /\ backend = "gemini" /\ leader = "running"
    /\ \/ /\ watch = "idle" /\ (cancelled \/ expired)
          /\ watch' = "termed" /\ termed' = termed \cup {"leader"} /\ UNCHANGED leader
       \/ /\ watch = "termed"
          /\ watch' = "done" /\ leader' = "killed" /\ UNCHANGED termed
    /\ UNCHANGED <<turn, pc, fired, files, owned, helper, printed, complained, readVars,
                   cancelled, expired, result>>

-----------------------------------------------------------------------------
(***************************************************************************)
(* The outcome.                                                            *)
(***************************************************************************)
Output    == SubSeq(child.lines, 1, read)
ErrOutput == SubSeq(child.complaint, 1, heard)

\* What a parsed output amounts to.
Judge(parsed, class) ==
    IF parsed.error # NoText THEN Failure(class) ELSE Answer(parsed)

\* The parser of the backend, for Codex also of the kind of turn.
Parsed(lines) ==
    IF backend = "claude" THEN ParseClaudeJSONL(lines)
    ELSE IF backend = "gemini" THEN ParseGeminiJSON(lines)
    ELSE IF input.resume THEN ParseCodexResumeText(lines) ELSE ParseCodexJSONL(lines)

ClaudeResult ==
    LET parsed == Parsed(Output) IN
    IF fired # "none" THEN Failure("transient")
    ELSE IF leader = "killed" THEN Failure("unknown")
    ELSE IF child.code # 0
    THEN Failure(ClassifyClaudeError(FirstText(<<ErrOutput, RawText(Output)>>)))
    ELSE Judge(parsed, ClassifyClaudeError(parsed.error))

CodexResult ==
    LET parsed == Parsed(Output) IN
    IF fired = "context" THEN Failure("unknown")
    ELSE IF fired = "timer" THEN Failure("transient")
    ELSE IF leader = "killed" THEN Failure("unknown")
    ELSE IF child.code # 0
    THEN Failure(ClassifyCodexError(FirstText(<<ErrOutput, RawText(Output)>>)))
    ELSE Judge(parsed, ClassifyCodexError(parsed.error))

\* The context is looked at after the process has ended, not before.
GeminiResult ==
    LET parsed == Parsed(Output) IN
    IF cancelled \/ expired THEN Failure("transient")
    ELSE IF leader = "killed" \/ child.code # 0
    THEN Failure(ClassifyGeminiError(FirstText(<<parsed.error, ErrOutput, RawText(Output)>>)))
    ELSE Judge(parsed, ClassifyGeminiError(parsed.error))

Collect ==
    /\ pc = "collect"
    /\ Conclude(CASE backend = "claude" -> ClaudeResult
                  [] backend = "codex"  -> CodexResult
                  [] backend = "gemini" -> GeminiResult)
    /\ UNCHANGED <<turn, fired, files, owned, processVars, readVars, cancelled, expired>>

\* The deferred removals of Turn.
Cleanup ==
    /\ pc = "cleanup"
    /\ files' = files \ owned
    /\ pc' = "done"
    /\ UNCHANGED <<turn, fired, owned, processVars, readVars, cancelled, expired, result>>

-----------------------------------------------------------------------------
Cancel ==
    /\ input.cancellable /\ pc # "done" /\ ~cancelled
    /\ cancelled' = TRUE
    /\ UNCHANGED <<turn, pc, fired, files, owned, processVars, readVars, expired, result>>

Expire ==
    /\ input.deadline /\ leader # "none" /\ pc # "done" /\ ~expired
    /\ expired' = TRUE
    /\ UNCHANGED <<turn, pc, fired, files, owned, processVars, readVars, cancelled, result>>

TurnStep == BuildArgv \/ Spawn \/ Copy \/ Select \/ Terminate \/ Grace \/ Await
            \/ ReadAll \/ Watch \/ Collect \/ Cleanup
TurnNext == TurnStep \/ ProcessStep \/ Cancel \/ Expire

\* Goroutines and processes keep running; nobody has to cancel anything.
TurnFairness == WF_turnVars(TurnStep) /\ WF_turnVars(ProcessStep)
TurnSpec == TurnInit /\ [][TurnNext]_turnVars /\ TurnFairness

-----------------------------------------------------------------------------
(***************************************************************************)
(* Properties.                                                             *)
(***************************************************************************)
\* The system prompt's file of a Codex command line that then fails: it is
\* written before a null in the MCP block is met, and its name is not returned.
PromptLeft == backend = "codex" /\ input.system /\ ~input.resume /\ TOMLRejects

\* When Turn returns, whichever way the turn went, no process of the CLI's is
\* left that could still write to the turn's pipes, and no file of the turn but
\* that prompt.  base.go asks more: Turn must "clean up any tempfiles they
\* wrote".
NothingLeftBehind ==
    pc = "done" => Closed /\ files = IF PromptLeft THEN {"system"} ELSE {}

\* An answer is made of all the CLI printed, however the copying of its pipes
\* interleaves with its exit, a cancellation or the timer, and only when the
\* CLI ended by itself and with success.
AnswerIsWhole ==
    result.kind = "answer" =>
        /\ leader = "exited" /\ child.code = 0
        /\ result.text = Parsed(child.lines).text

\* A JSON line of the child says that the turn failed, in a form of its CLI: an
\* error with a message; for Claude and Codex an event of type "error"; a flag,
\* which Claude sets on its result.
ReportsError(v) ==
    /\ Is(v, "obj")
    /\ \/ TextAt(MapAt(v.obj, "error"), "message") # NoText
       \/ backend # "gemini" /\ TextAt(v.obj, "type") = <<"error">>
       \/ /\ FlagAt(v.obj, "is_error")
          /\ \/ backend = "gemini"
             \/ backend = "claude" /\ TextAt(v.obj, "type") = <<"result">>

\* A CLI that reports an error in its output and exits with success is not
\* taken for one that answered, wherever in the stream the error stands.  (The
\* resumed output of Codex is plain text and reports nothing.)
ErrorsAreReported ==
    result.kind = "answer" /\ ~(backend = "codex" /\ input.resume) =>
        \A i \in DOMAIN child.lines : ~ReportsError(child.lines[i])

\* The session that a line names, in a form of its CLI.
NamedSession(line) ==
    LET o == MaybeLoadRecord(line) IN
    IF backend = "codex" /\ input.resume THEN NoText
    ELSE FirstText(<<TextAt(o, "session_id"),
                     IF backend = "claude" THEN NoText ELSE TextAt(o, "conversation_id"),
                     IF backend = "gemini" THEN NoText ELSE TextAt(o, "thread_id")>>)

\* The conversation can go on: an answer carries the session the output named
\* (the last one of Claude's stream, the first one of Codex's) and, when it
\* named none, the session that was resumed.
SessionKept ==
    LET naming == {i \in DOMAIN child.lines : NamedSession(child.lines[i]) # NoText}
    IN  result.kind = "answer" =>
            IF naming = {}
            THEN result.session = NoText <=> ~input.resume
            ELSE \E i \in naming :
                    /\ result.session = NamedSession(child.lines[i])
                    /\ \A j \in naming : IF backend = "codex" THEN i <= j ELSE i >= j

\* base.go: Turn must "honour context cancellation by killing the subprocess
\* promptly".  A turn that is cancelled or out of time ends, whatever the CLI
\* does, as long as its helpers end with it: on SIGTERM for Claude and Codex,
\* by themselves for Gemini, which does not signal them.  A CLI that ends by
\* itself ends its turn, if its stderr fits in the pipe (Gemini) or anyway
\* (Claude, Codex).
EndsWithLeader ==
    child.helper \in {"none", "child"} \cup (IF backend = "gemini" THEN {} ELSE {"lingering"})
EndsByItself ==
    /\ ~child.stuck /\ child.helper \in {"none", "child"}
    /\ backend = "gemini" => Len(child.complaint) <= PipeSize
TurnEnds ==
    EndsByItself \/ ((cancelled \/ expired) /\ EndsWithLeader) ~> pc = "done"
=============================================================================
