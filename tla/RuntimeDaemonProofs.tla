------------------------ MODULE RuntimeDaemonProofs -------------------------
(***************************************************************************)
(* Theorems about RuntimeDaemon, for any number of requests, providers and *)
(* conversations and any thresholds.                                       *)
(*                                                                         *)
(* The filter SelectSeq is opaque to the provers, so the invariant about   *)
(* the breaker says which fields the entries have and nothing about the    *)
(* type of the failure lists.  The order of the chain is a function of the *)
(* entries ahead of each, and needs counting alone.                        *)
(***************************************************************************)
EXTENDS RuntimeDaemon, SequenceTheorems, FiniteSetTheorems, FunctionTheorems, TLAPS

\* An entry of the breaker.
ValidEntry(e) ==
    /\ e = [state |-> e.state, failures |-> e.failures,
            openedAt |-> e.openedAt, trial |-> e.trial]
    /\ e.trial \in BOOLEAN
    /\ e.trial => e.state = "half_open"
    /\ Len(e.failures) >= FailureThreshold => e.state # "closed"
    /\ e.state = "open" => e.openedAt \in 1..now

EntriesValid ==
    /\ now \in Nat \ {0}
    /\ DOMAIN breaker = Providers
    /\ \A p \in Providers : ValidEntry(breaker[p])

\* Only a chain makes attempts.
Placed ==
    /\ mode \in {"single", "chain"}
    /\ step \in [Runs -> Steps] /\ pos \in [Runs -> Nat]
    /\ \A q \in Runs : step[q] \in {"check", "start", "session", "record"} => mode = "chain"

\* The steps of a handler until its reply is written.
Working == {"dispatch", "lookup", "initialized", "check", "start", "session",
            "turn", "record", "save", "reply"}

Live == {q \in Runs : step[q] \in Working \cup {"end"}}

\* The wait group counts the handlers that have not ended; lines that wait are
\* of requests that have none; who has ended has replied.
Counted ==
    /\ stdin \in Seq(Runs) /\ stdout \in Seq(Runs)
    /\ \A i \in DOMAIN stdin : step[stdin[i]] = "none"
    /\ \A i, j \in DOMAIN stdin : stdin[i] = stdin[j] => i = j
    /\ \A q \in Runs :
          /\ step[q] \in {"end", "done"} => q \in Range(stdout)
          /\ step[q] = "killed" => serve = "exited" /\ timedOut
    /\ IsFiniteSet(Live)
    /\ serve # "exited" => inflight = Cardinality(Live)
    /\ serve \in {"returned", "exited"} /\ ~timedOut => Live = {}
    /\ serve \in {"scan", "drain", "returned", "exited"}
    /\ timedOut \in BOOLEAN

IInv == EntriesValid /\ Placed /\ NoOrphanTrial /\ Counted

-----------------------------------------------------------------------------
(***************************************************************************)
(* The breaker.                                                            *)
(***************************************************************************)
\* Every method leaves an entry valid, and no recorded outcome leaves a trial.
LEMMA EntryMethods ==
    ASSUME now \in Nat \ {0}, NEW e, ValidEntry(e)
    PROVE  /\ ValidEntry(HalfOpened(e)) /\ (HalfOpened(e).trial => e.trial)
           /\ ValidEntry(Tried(e))
           /\ ValidEntry(Closed) /\ Closed.trial = FALSE
           /\ ValidEntry(FailedWorthy(e)) /\ FailedWorthy(e).trial = FALSE
           /\ ValidEntry(FailedUnworthy(e)) /\ FailedUnworthy(e).trial = FALSE
<1>0. FailureThreshold \in Nat \ {0} /\ Len(<<>>) = 0
  BY BreakerAssumption
<1>1. ValidEntry(HalfOpened(e)) /\ (HalfOpened(e).trial => e.trial)
  BY <1>0 DEF ValidEntry, HalfOpened
<1>2. ValidEntry(Tried(e))
  BY DEF ValidEntry, Tried
<1>3. ValidEntry(Closed) /\ Closed.trial = FALSE
  BY <1>0 DEF ValidEntry, Closed
<1>4. ValidEntry(FailedWorthy(e)) /\ FailedWorthy(e).trial = FALSE
  <2>. DEFINE fs == Append(SelectSeq(e.failures, Recent), now)
  <2>1. CASE e.state = "half_open" \/ Len(fs) >= FailureThreshold
    <3>1. FailedWorthy(e) = [state |-> "open", failures |-> fs, openedAt |-> now, trial |-> FALSE]
      BY <2>1 DEF ValidEntry, FailedWorthy, Opened
    <3>. QED BY <3>1 DEF ValidEntry
  <2>2. CASE ~(e.state = "half_open" \/ Len(fs) >= FailureThreshold)
    <3>1. FailedWorthy(e) = [state |-> e.state, failures |-> fs, openedAt |-> e.openedAt, trial |-> FALSE]
      BY <2>2 DEF ValidEntry, FailedWorthy
    <3>. QED BY <2>2, <3>1 DEF ValidEntry
  <2>. QED BY <2>1, <2>2
<1>5. ValidEntry(FailedUnworthy(e)) /\ FailedUnworthy(e).trial = FALSE
  <2>1. CASE e.state = "half_open"
    <3>1. FailedUnworthy(e) = [state |-> "open", failures |-> e.failures, openedAt |-> now, trial |-> FALSE]
      BY <2>1 DEF ValidEntry, FailedUnworthy, Opened
    <3>. QED BY <3>1 DEF ValidEntry
  <2>2. CASE e.state # "half_open"
    <3>1. FailedUnworthy(e) = e
      BY <2>2 DEF FailedUnworthy
    <3>. QED BY <2>2, <3>1 DEF ValidEntry
  <2>. QED BY <2>1, <2>2
<1>. QED BY <1>1, <1>2, <1>3, <1>4, <1>5

\* One entry of the breaker is replaced by a valid one.
LEMMA EntryReplaced ==
    ASSUME EntriesValid, NEW p, NEW e,
           p \in Providers => ValidEntry(e),
           breaker' = [breaker EXCEPT ![p] = e], UNCHANGED now
    PROVE  /\ EntriesValid'
           /\ \A x \in Providers : breaker'[x] = IF x = p THEN e ELSE breaker[x]
  BY DEF EntriesValid, ValidEntry

-----------------------------------------------------------------------------
(***************************************************************************)
(* The steps of AgentLoop.                                                 *)
(***************************************************************************)
\* What every step of AgentLoop does: the run goes on, the breaker stays
\* valid, and a marked trial is this run's or was already another's.
LoopEffect(q) ==
    /\ UNCHANGED <<mode, now>>
    /\ step' = [step EXCEPT ![q] = step'[q]]
    /\ pos' = [pos EXCEPT ![q] = pos'[q]] /\ pos'[q] \in Nat
    /\ step[q] \in Working /\ step'[q] \in Working
    /\ step'[q] \in {"check", "start", "session", "record"} => mode = "chain"
    /\ EntriesValid'
    /\ \A p \in Providers :
          breaker'[p].trial =>
              \/ Attempting(q, p)'
              \/ breaker[p].trial /\ ~Attempting(q, p)

\* A step that leaves the breaker and the place in the chain alone, and that
\* a run in the middle of an attempt takes only to another one.
LEMMA PlainStep ==
    ASSUME EntriesValid, Placed, NEW q \in Runs, NEW from, NEW to, Goto(q, from, to),
           UNCHANGED <<mode, now, breaker, pos>>,
           from \in Working, to \in Working,
           to \in {"check", "start", "session", "record"} => mode = "chain",
           mode = "chain" /\ from \in {"session", "turn", "record"}
              => to \in {"session", "turn", "record"}
    PROVE  LoopEffect(q)
<1>1. step[q] = from /\ step'[q] = to /\ step' = [step EXCEPT ![q] = step'[q]]
  BY DEF Goto, Placed
<1>2. pos' = [pos EXCEPT ![q] = pos'[q]] /\ pos'[q] \in Nat
  BY DEF Placed
<1>3. EntriesValid'
  BY DEF EntriesValid, ValidEntry
<1>4. ASSUME NEW p \in Providers PROVE Attempting(q, p) => Attempting(q, p)'
  BY <1>1 DEF Attempting, Provider
<1>. QED BY <1>1, <1>2, <1>3, <1>4 DEF LoopEffect

\* A step that replaces the breaker's entry of the run's own provider.
LEMMA BreakerStep ==
    ASSUME EntriesValid, Placed, NEW q \in Runs, NEW e,
           UNCHANGED <<mode, now>>, mode = "chain",
           step' = [step EXCEPT ![q] = step'[q]],
           pos' = [pos EXCEPT ![q] = pos'[q]], pos'[q] \in Nat,
           step[q] \in Working, step'[q] \in Working,
           breaker' = [breaker EXCEPT ![Provider(q)] = e],
           Provider(q) \in Providers =>
              /\ ValidEntry(e)
              /\ e.trial => \/ step'[q] = "session" /\ pos'[q] = pos[q]
                            \/ breaker[Provider(q)].trial /\ ~Attempting(q, Provider(q))
    PROVE  LoopEffect(q)
<1>1. /\ EntriesValid'
      /\ \A x \in Providers : breaker'[x] = IF x = Provider(q) THEN e ELSE breaker[x]
  BY EntryReplaced
<1>2. ASSUME NEW p \in Providers, p # Provider(q) PROVE ~Attempting(q, p)
  BY <1>2 DEF Attempting
<1>3. ASSUME NEW p \in Providers, breaker'[p].trial
      PROVE  Attempting(q, p)' \/ (breaker[p].trial /\ ~Attempting(q, p))
  <2>1. CASE p = Provider(q)
    <3>1. \/ step'[q] = "session" /\ pos'[q] = pos[q]
          \/ breaker[p].trial /\ ~Attempting(q, p)
      BY <1>1, <1>3, <2>1
    <3>2. step'[q] = "session" /\ pos'[q] = pos[q] => Attempting(q, p)'
      BY <2>1 DEF Attempting, Provider
    <3>. QED BY <3>1, <3>2
  <2>2. CASE p # Provider(q)
    BY <1>1, <1>2, <1>3, <2>2
  <2>. QED BY <2>1, <2>2
<1>. QED BY <1>1, <1>3 DEF LoopEffect

\* The end of an attempt that leaves the chain going.
LEMMA Advanced ==
    ASSUME Placed, NEW q \in Runs, NEW result, Advance(q, result)
    PROVE  /\ step' = [step EXCEPT ![q] = step'[q]] /\ step'[q] \in Working
           /\ pos' = [pos EXCEPT ![q] = pos'[q]] /\ pos'[q] \in Nat
<1>1. PICK v \in {"check", "reply"} : step' = [step EXCEPT ![q] = v]
  BY DEF Advance
<1>2. step'[q] = v /\ step' = [step EXCEPT ![q] = step'[q]]
  BY <1>1 DEF Placed
<1>3. pos' = [pos EXCEPT ![q] = pos[q] + 1] /\ pos[q] \in Nat
  BY DEF Advance, Placed
<1>4. pos' = [pos EXCEPT ![q] = pos'[q]] /\ pos'[q] \in Nat
  BY <1>3 DEF Placed
<1>. QED BY <1>1, <1>2, <1>4 DEF Working

\* Every step of a run.
LEMMA LoopSteps ==
    ASSUME EntriesValid, Placed, NEW q \in Runs, LoopStep(q, cancelled)
    PROVE  LoopEffect(q)
<1>1. CASE Dispatch(q)
  BY <1>1, PlainStep DEF Dispatch, Placed, Working, breakerVars
<1>2. CASE LookupSession(q)
  BY <1>2, PlainStep DEF LookupSession, Working, breakerVars
<1>3. CASE IsInitialized(q)
  BY <1>3, PlainStep DEF IsInitialized, Placed, Working, breakerVars
<1>4. CASE LookupProviderSession(q)
  BY <1>4, PlainStep DEF LookupProviderSession, Goto, Placed, Working, breakerVars
<1>5. CASE Turn(q, cancelled)
  BY <1>5, PlainStep DEF Turn, Placed, Working, breakerVars
<1>6. CASE Save(q)
  BY <1>6, PlainStep DEF Save, Working, breakerVars
<1>7. CASE Check(q)
  <2>. DEFINE e == HalfOpened(breaker[Provider(q)])
  <2>1. mode = "chain" /\ step[q] = "check" /\ UNCHANGED <<mode, now>>
    BY <1>7 DEF Check, IsOpen, Placed
  <2>2. breaker' = [breaker EXCEPT ![Provider(q)] = e]
    BY <1>7 DEF Check, IsOpen
  <2>3. Provider(q) \in Providers => ValidEntry(e) /\ (e.trial => breaker[Provider(q)].trial)
    BY EntryMethods DEF EntriesValid
  <2>4. ~Attempting(q, Provider(q))
    BY <2>1 DEF Attempting
  <2>5. /\ step' = [step EXCEPT ![q] = step'[q]] /\ step'[q] \in Working
        /\ pos' = [pos EXCEPT ![q] = pos'[q]] /\ pos'[q] \in Nat
    <3>1. CASE Advance(q, "skipped")
      BY <3>1, Advanced
    <3>2. CASE Goto(q, "check", "start") /\ UNCHANGED pos
      BY <3>2 DEF Goto, Placed, Working
    <3>. QED BY <1>7, <3>1, <3>2 DEF Check
  <2>. HIDE DEF e
  <2>. QED BY <2>1, <2>2, <2>3, <2>4, <2>5, BreakerStep DEF Working
<1>8. CASE Start(q)
  <2>. DEFINE e == Tried(breaker[Provider(q)])
  <2>1. mode = "chain" /\ step[q] = "start" /\ UNCHANGED <<mode, now, pos>>
    BY <1>8 DEF Start, AttemptStarted, Goto, Placed
  <2>2. breaker' = [breaker EXCEPT ![Provider(q)] = e]
    BY <1>8 DEF Start, AttemptStarted
  <2>3. Provider(q) \in Providers => ValidEntry(e)
    BY EntryMethods DEF EntriesValid
  <2>4. /\ step' = [step EXCEPT ![q] = step'[q]] /\ step'[q] = "session"
        /\ pos' = [pos EXCEPT ![q] = pos'[q]] /\ pos'[q] \in Nat
    BY <1>8, <2>1 DEF Start, Goto, Placed
  <2>. HIDE DEF e
  <2>. QED BY <2>1, <2>2, <2>3, <2>4, BreakerStep DEF Working
<1>9. CASE Record(q)
  <2>1. mode = "chain" /\ step[q] = "record" /\ UNCHANGED <<mode, now>>
    BY <1>9 DEF Record, RecordSuccess, RecordFailure, Placed
  <2>2. PICK e : /\ breaker' = [breaker EXCEPT ![Provider(q)] = e]
                 /\ Provider(q) \in Providers => ValidEntry(e) /\ e.trial = FALSE
    <3>. DEFINE b == breaker[Provider(q)]
    <3>1. Provider(q) \in Providers =>
             /\ ValidEntry(Closed) /\ Closed.trial = FALSE
             /\ ValidEntry(FailedWorthy(b)) /\ FailedWorthy(b).trial = FALSE
             /\ ValidEntry(FailedUnworthy(b)) /\ FailedUnworthy(b).trial = FALSE
      BY EntryMethods DEF EntriesValid
    <3>2. \/ breaker' = [breaker EXCEPT ![Provider(q)] = Closed]
          \/ breaker' = [breaker EXCEPT ![Provider(q)] = FailedWorthy(b)]
          \/ breaker' = [breaker EXCEPT ![Provider(q)] = FailedUnworthy(b)]
      BY <1>9 DEF Record, RecordSuccess, RecordFailure
    <3>. QED BY <3>1, <3>2
  <2>3. /\ step' = [step EXCEPT ![q] = step'[q]] /\ step'[q] \in Working
        /\ pos' = [pos EXCEPT ![q] = pos'[q]] /\ pos'[q] \in Nat
    <3>1. CASE Advance(q, "failover")
      BY <3>1, Advanced
    <3>2. ASSUME NEW result, NEW to \in {"save", "reply"}, Conclude(q, result, to)
          PROVE  <2>3!1 /\ <2>3!2
      BY <3>2 DEF Conclude, Placed, Working
    <3>. QED BY <1>9, <3>1, <3>2 DEF Record
  <2>. QED BY <2>1, <2>2, <2>3, BreakerStep DEF Working
<1>. QED BY <1>1, <1>2, <1>3, <1>4, <1>5, <1>6, <1>7, <1>8, <1>9 DEF LoopStep

-----------------------------------------------------------------------------
(***************************************************************************)
(* The wait group and the queues.                                          *)
(***************************************************************************)
LEMMA RangeAppend ==
    ASSUME NEW seq \in Seq(Runs), NEW q \in Runs
    PROVE  /\ Append(seq, q) \in Seq(Runs)
           /\ q \in Range(Append(seq, q))
           /\ \A x \in Range(seq) : x \in Range(Append(seq, q))
<1>1. /\ Append(seq, q) \in Seq(Runs)
      /\ Len(Append(seq, q)) = Len(seq) + 1 /\ Len(seq) \in Nat
      /\ \A i \in 1..Len(seq) : Append(seq, q)[i] = seq[i]
      /\ Append(seq, q)[Len(seq) + 1] = q
  BY AppendProperties, LenProperties
<1>2. Range(seq) = {seq[i] : i \in 1..Len(seq)}
  BY RangeEquality
<1>3. Range(Append(seq, q)) = {Append(seq, q)[i] : i \in 1..(Len(seq) + 1)}
  BY <1>1, RangeEquality
<1>. QED BY <1>1, <1>2, <1>3

\* A step of a handler that has not ended leaves the count right.
LEMMA LiveKept ==
    ASSUME Placed, NEW q \in Runs, step' = [step EXCEPT ![q] = step'[q]],
           step[q] \in Working \cup {"end"}, step'[q] \in Working \cup {"end"}
    PROVE  Live' = Live
<1>1. \A x \in Runs : x # q => step'[x] = step[x]
  BY DEF Placed
<1>. QED BY <1>1 DEF Live

\* The steps of a handler that is not over keep the count and the queues.
LEMMA HandlerCounted ==
    ASSUME Placed, Counted, NEW q \in Runs, step' = [step EXCEPT ![q] = step'[q]],
           step[q] \in Working, step'[q] \in Working \cup {"end"},
           stdout' = Append(stdout, q) \/ (UNCHANGED stdout /\ step'[q] \in Working),
           UNCHANGED <<stdin, serve, inflight, timedOut>>
    PROVE  Counted'
<1>1. Live' = Live
  BY LiveKept
<1>2. \A x \in Runs : x # q => step'[x] = step[x]
  BY DEF Placed
<1>3. /\ stdout' \in Seq(Runs)
      /\ \A x \in Range(stdout) : x \in Range(stdout')
      /\ step'[q] = "end" => q \in Range(stdout')
  BY RangeAppend DEF Counted, Working
<1>4. \A i \in DOMAIN stdin : stdin[i] \in Runs /\ stdin[i] # q
  BY LenProperties, ElementOfSeq DEF Counted, Working
<1>5. step'[q] \notin {"done", "killed"}
  BY DEF Working
<1>. QED BY <1>1, <1>2, <1>3, <1>4, <1>5 DEF Counted

\* Steps of the client and the server that move no handler.
LEMMA ServerCounted ==
    ASSUME Counted, UNCHANGED <<step, stdin, stdout, inflight>>,
           serve' \in {"scan", "drain", "returned", "exited"}, timedOut' \in BOOLEAN,
           timedOut => timedOut', (serve # "exited" /\ serve' # "exited") \/ UNCHANGED serve,
           serve' \in {"returned", "exited"} /\ ~timedOut'
               => inflight = 0 \/ serve \in {"returned", "exited"}
    PROVE  Counted'
<1>1. Live' = Live
  BY DEF Live
<1>2. serve' # serve /\ inflight = 0 => Live = {}
  BY FS_EmptySet DEF Counted
<1>3. serve' \in {"returned", "exited"} /\ ~timedOut' => Live = {}
  BY <1>2 DEF Counted
<1>. QED BY <1>1, <1>3 DEF Counted

LEMMA SendCounted ==
    ASSUME Placed, Counted, NEW q \in Runs, Send(q)
    PROVE  Counted'
<1>1. /\ UNCHANGED <<step, serve, inflight, stdout, timedOut>>
      /\ step[q] = "none" /\ q \notin Range(stdin) /\ stdin' = Append(stdin, q)
  BY DEF Send, Sent, loopVars
<1>2. stdin \in Seq(Runs) /\ Len(stdin) \in Nat /\ DOMAIN stdin = 1..Len(stdin)
  BY LenProperties DEF Counted
<1>3. /\ stdin' \in Seq(Runs) /\ DOMAIN stdin' = 1..(Len(stdin) + 1)
      /\ \A i \in 1..Len(stdin) : stdin'[i] = stdin[i]
      /\ stdin'[Len(stdin) + 1] = q
  BY <1>1, <1>2, AppendProperties, LenProperties
<1>4. \A i \in 1..Len(stdin) : stdin[i] # q
  BY <1>1, <1>2, RangeEquality
<1>5. \A i \in DOMAIN stdin' : step'[stdin'[i]] = "none"
  BY <1>1, <1>2, <1>3 DEF Counted
<1>6. \A i, j \in DOMAIN stdin' : stdin'[i] = stdin'[j] => i = j
  BY <1>2, <1>3, <1>4 DEF Counted
<1>7. Live' = Live
  BY <1>1 DEF Live
<1>. QED BY <1>1, <1>3, <1>5, <1>6, <1>7 DEF Counted

\* What is left of the queue when its head is taken.
LEMMA TailWaits ==
    ASSUME Counted, stdin # <<>>
    PROVE  /\ Head(stdin) \in Runs /\ step[Head(stdin)] = "none"
           /\ Tail(stdin) \in Seq(Runs)
           /\ \A i \in DOMAIN Tail(stdin) :
                 /\ step[Tail(stdin)[i]] = "none"
                 /\ Tail(stdin)[i] # Head(stdin)
           /\ \A i, j \in DOMAIN Tail(stdin) : Tail(stdin)[i] = Tail(stdin)[j] => i = j
<1>1. stdin \in Seq(Runs) /\ Len(stdin) \in Nat \ {0} /\ DOMAIN stdin = 1..Len(stdin)
  BY EmptySeq, LenProperties DEF Counted
<1>2. /\ Tail(stdin) \in Seq(Runs) /\ DOMAIN Tail(stdin) = 1..(Len(stdin) - 1)
      /\ \A i \in 1..(Len(stdin) - 1) : Tail(stdin)[i] = stdin[i + 1]
  BY <1>1, HeadTailProperties, LenProperties
<1>3. Head(stdin) = stdin[1] /\ Head(stdin) \in Runs
  BY <1>1, HeadTailProperties
<1>4. \A i \in DOMAIN Tail(stdin) : i + 1 \in DOMAIN stdin /\ i + 1 # 1
  BY <1>1, <1>2
<1>5. \A i \in DOMAIN Tail(stdin) :
         step[Tail(stdin)[i]] = "none" /\ Tail(stdin)[i] # Head(stdin)
  BY <1>1, <1>2, <1>3, <1>4 DEF Counted
<1>6. ASSUME NEW i \in DOMAIN Tail(stdin), NEW j \in DOMAIN Tail(stdin),
             Tail(stdin)[i] = Tail(stdin)[j]
      PROVE  i = j
  <2>1. i + 1 = j + 1
    BY <1>2, <1>4, <1>6 DEF Counted
  <2>. QED BY <1>2, <2>1
<1>. QED BY <1>1, <1>2, <1>3, <1>5, <1>6 DEF Counted

LEMMA ServeLineCounted ==
    ASSUME Placed, Counted, ServeLine
    PROVE  Counted'
<1>. DEFINE h == Head(stdin)
<1>1. /\ serve = "scan" /\ stdin # <<>> /\ stdin' = Tail(stdin)
      /\ UNCHANGED <<stdout, timedOut>>
  BY DEF ServeLine
<1>2. /\ h \in Runs /\ step[h] = "none" /\ stdin' \in Seq(Runs)
      /\ \A i \in DOMAIN stdin' : step[stdin'[i]] = "none" /\ stdin'[i] # h
      /\ \A i, j \in DOMAIN stdin' : stdin'[i] = stdin'[j] => i = j
  BY <1>1, TailWaits
<1>3. CASE shutting
  <2>1. serve' = "drain" /\ UNCHANGED <<step, inflight>>
    BY <1>3 DEF ServeLine
  <2>2. Live' = Live
    BY <2>1 DEF Live
  <2>. QED BY <1>1, <1>2, <2>1, <2>2 DEF Counted
<1>4. CASE ~shutting
  <2>1. UNCHANGED serve /\ inflight' = inflight + 1 /\ step' = [step EXCEPT ![h] = "dispatch"]
    BY <1>4 DEF ServeLine
  <2>2. step'[h] = "dispatch" /\ \A x \in Runs : x # h => step'[x] = step[x]
    BY <1>2, <2>1 DEF Placed
  <2>3. Live' = Live \cup {h} /\ h \notin Live
    BY <1>2, <2>2 DEF Live, Working
  <2>4. IsFiniteSet(Live') /\ inflight' = Cardinality(Live')
    BY <1>1, <2>1, <2>3, FS_AddElement DEF Counted
  <2>5. \A i \in DOMAIN stdin' : stdin'[i] \in Runs /\ step'[stdin'[i]] = "none"
    BY <1>2, <2>2, LenProperties, ElementOfSeq
  <2>. QED BY <1>1, <1>2, <2>1, <2>2, <2>4, <2>5 DEF Counted
<1>. QED BY <1>3, <1>4

LEMMA EndCounted ==
    ASSUME Placed, Counted, NEW q \in Runs, End(q)
    PROVE  Counted'
<1>1. /\ step[q] = "end" /\ step'[q] = "done" /\ \A x \in Runs : x # q => step'[x] = step[x]
      /\ inflight' = inflight - 1 /\ UNCHANGED <<stdin, stdout, serve, timedOut>>
  BY DEF End, Goto, Placed
<1>2. q \in Live /\ Live' = Live \ {q}
  BY <1>1 DEF Live, Working
<1>3. IsFiniteSet(Live') /\ (serve # "exited" => inflight' = Cardinality(Live'))
  BY <1>1, <1>2, FS_RemoveElement DEF Counted
<1>4. \A i \in DOMAIN stdin : stdin[i] \in Runs /\ stdin[i] # q
  BY <1>1, LenProperties, ElementOfSeq DEF Counted
<1>. QED BY <1>1, <1>2, <1>3, <1>4 DEF Counted

LEMMA ExitCounted ==
    ASSUME Placed, Counted, Exit
    PROVE  Counted'
<1>1. /\ serve = "returned" /\ serve' = "exited" /\ UNCHANGED <<stdin, stdout, timedOut>>
      /\ \A x \in Runs : step'[x] = IF step[x] \in {"none", "done"} THEN step[x] ELSE "killed"
  BY DEF Exit
<1>2. Live' = {}
  BY <1>1 DEF Live, Working
<1>3. ASSUME NEW x \in Runs, step'[x] = "killed" PROVE timedOut
  <2>1. step[x] \notin {"none", "done", "killed"}
    BY <1>1, <1>3 DEF Counted
  <2>2. x \in Live
    BY <2>1 DEF Live, Placed, Steps, Working
  <2>. QED BY <1>1, <2>2 DEF Counted
<1>4. \A i \in DOMAIN stdin : stdin[i] \in Runs
  BY LenProperties, ElementOfSeq DEF Counted
<1>. QED BY <1>1, <1>2, <1>3, <1>4, FS_EmptySet DEF Counted

-----------------------------------------------------------------------------
(***************************************************************************)
(* The invariant.                                                          *)
(***************************************************************************)
\* Steps that leave the breaker and the runs' places alone.
LEMMA BreakerKept ==
    ASSUME EntriesValid, Placed, NoOrphanTrial, UNCHANGED <<breaker, now, mode, step, pos>>,
           serve' # "exited" => serve # "exited"
    PROVE  EntriesValid' /\ Placed' /\ NoOrphanTrial'
<1>1. EntriesValid'
  BY DEF EntriesValid, ValidEntry
<1>2. \A q \in Runs, p \in Providers : Attempting(q, p) => Attempting(q, p)'
  BY DEF Attempting, Provider
<1>. QED BY <1>1, <1>2 DEF Placed, NoOrphanTrial

\* A run that is not attempting anything moves without starting an attempt.
LEMMA OutsideAttempt ==
    ASSUME EntriesValid, Placed, NoOrphanTrial, NEW q \in Runs,
           UNCHANGED <<breaker, now, mode, serve>>,
           step' = [step EXCEPT ![q] = step'[q]], step'[q] \in Steps,
           pos' = [pos EXCEPT ![q] = pos'[q]], pos'[q] \in Nat,
           step[q] \notin {"session", "turn", "record"},
           step'[q] \notin {"check", "start", "session", "record"}
    PROVE  EntriesValid' /\ Placed' /\ NoOrphanTrial'
<1>1. EntriesValid'
  BY DEF EntriesValid, ValidEntry
<1>2. \A x \in Runs : x # q => step'[x] = step[x] /\ pos'[x] = pos[x]
  BY DEF Placed
<1>3. Placed'
  BY <1>2 DEF Placed
<1>4. ASSUME NEW x \in Runs, NEW p \in Providers, Attempting(x, p) PROVE Attempting(x, p)'
  <2>1. x # q
    BY <1>4 DEF Attempting
  <2>. QED BY <1>2, <1>4, <2>1 DEF Attempting, Provider
<1>. QED BY <1>1, <1>3, <1>4 DEF NoOrphanTrial

\* A step of AgentLoop keeps the breaker sound: a marked trial is the run's
\* own, or another run's that did not move.
LEMMA LoopKeeps ==
    ASSUME EntriesValid, Placed, NoOrphanTrial, NEW q \in Runs, LoopEffect(q), UNCHANGED serve
    PROVE  EntriesValid' /\ Placed' /\ NoOrphanTrial'
<1>1. \A x \in Runs : x # q => step'[x] = step[x] /\ pos'[x] = pos[x]
  BY DEF LoopEffect, Placed
<1>2. Placed'
  <2>1. Working \subseteq Steps
    BY DEF Working, Steps
  <2>. QED BY <1>1, <2>1 DEF LoopEffect, Placed
<1>3. ASSUME NEW p \in Providers, breaker'[p].trial, serve' # "exited"
      PROVE  \E x \in Runs : Attempting(x, p)'
  <2>1. CASE Attempting(q, p)'
    BY <2>1
  <2>2. CASE breaker[p].trial /\ ~Attempting(q, p)
    <3>1. PICK x \in Runs : Attempting(x, p)
      BY <1>3, <2>2 DEF NoOrphanTrial
    <3>2. x # q
      BY <2>2, <3>1
    <3>3. Attempting(x, p)'
      BY <1>1, <3>1, <3>2 DEF Attempting, Provider, LoopEffect
    <3>. QED BY <3>3
  <2>. QED BY <1>3, <2>1, <2>2 DEF LoopEffect
<1>4. EntriesValid'
  BY DEF LoopEffect
<1>. QED BY <1>2, <1>3, <1>4 DEF NoOrphanTrial, EntriesValid, ValidEntry

LEMMA InitInvariant == Init => IInv
<1>. SUFFICES ASSUME Init PROVE IInv
  OBVIOUS
<1>. USE DEF Init, BreakerInit, LoopInit
<1>1. ValidEntry(Closed) /\ Closed.trial = FALSE
  BY BreakerAssumption DEF ValidEntry, Closed
<1>2. EntriesValid /\ NoOrphanTrial
  BY <1>1 DEF EntriesValid, NoOrphanTrial
<1>3. Placed
  BY LoopAssumption DEF Placed, Steps
<1>4. Live = {}
  BY DEF Live, Working
<1>5. /\ stdin \in Seq(Runs) /\ stdout \in Seq(Runs) /\ DOMAIN stdin = {}
      /\ \A q \in Runs : step[q] = "none"
  BY EmptySeq, LenProperties
<1>6. IsFiniteSet(Live) /\ Cardinality(Live) = 0 /\ inflight = 0
  BY <1>4, FS_EmptySet
<1>7. serve = "scan" /\ timedOut = FALSE
  OBVIOUS
<1>8. Counted
  BY <1>4, <1>5, <1>6, <1>7 DEF Counted, Live, Working
<1>. QED BY <1>2, <1>3, <1>8 DEF IInv

LEMMA NextInvariant == IInv /\ [Next]_vars => IInv'
<1>. SUFFICES ASSUME EntriesValid, Placed, NoOrphanTrial, Counted, [Next]_vars
              PROVE  EntriesValid' /\ Placed' /\ NoOrphanTrial' /\ Counted'
  BY DEF IInv
<1>1. ASSUME NEW q \in Runs, Send(q) PROVE EntriesValid' /\ Placed' /\ NoOrphanTrial' /\ Counted'
  <2>1. UNCHANGED <<breaker, now, mode, step, pos, serve>>
    BY <1>1 DEF Send, breakerVars, loopVars
  <2>. QED BY <1>1, <2>1, BreakerKept, SendCounted
<1>2. CASE CloseStdin \/ Signal \/ Cancel \/ ServeEOF \/ Drained \/ DrainTimeout
  <2>1. /\ UNCHANGED <<breaker, now, mode, step, pos, stdin, stdout, inflight>>
        /\ serve' # "exited" => serve # "exited"
    BY <1>2 DEF CloseStdin, Signal, Cancel, ServeEOF, Drained, DrainTimeout, breakerVars, loopVars
  <2>2. Counted'
    BY <1>2, <2>1, ServerCounted
       DEF Counted, CloseStdin, Signal, Cancel, ServeEOF, Drained, DrainTimeout
  <2>. QED BY <2>1, <2>2, BreakerKept
<1>3. CASE ServeLine
  <2>1. CASE shutting
    <3>1. UNCHANGED <<breaker, now, mode, step, pos>> /\ serve # "exited"
      BY <1>3, <2>1 DEF ServeLine, breakerVars
    <3>. QED BY <1>3, <3>1, BreakerKept, ServeLineCounted
  <2>2. CASE ~shutting
    <3>1. PICK h \in Runs : step[h] = "none" /\ step' = [step EXCEPT ![h] = "dispatch"]
      BY <1>3, <2>2, TailWaits DEF ServeLine
    <3>2. UNCHANGED <<breaker, now, mode, pos, serve>>
      BY <1>3, <2>2 DEF ServeLine, breakerVars
    <3>3. /\ step' = [step EXCEPT ![h] = step'[h]] /\ step'[h] = "dispatch"
          /\ pos' = [pos EXCEPT ![h] = pos'[h]] /\ pos'[h] \in Nat
      BY <3>1, <3>2 DEF Placed
    <3>4. EntriesValid' /\ Placed' /\ NoOrphanTrial'
      BY <3>1, <3>2, <3>3, OutsideAttempt DEF Steps
    <3>. QED BY <1>3, <3>4, ServeLineCounted
  <2>. QED BY <2>1, <2>2
<1>4. CASE Exit
  <2>1. /\ UNCHANGED <<breaker, now, mode>> /\ serve' = "exited"
        /\ step' \in [Runs -> Steps] /\ pos' \in [Runs -> Nat]
        /\ \A q \in Runs : step'[q] \in {"none", "done", "killed"}
    BY <1>4 DEF Exit, breakerVars, Placed, Steps
  <2>2. EntriesValid' /\ Placed' /\ NoOrphanTrial'
    BY <2>1 DEF EntriesValid, ValidEntry, Placed, NoOrphanTrial
  <2>. QED BY <1>4, <2>2, ExitCounted
<1>5. CASE Clock
  <2>1. /\ now' = now + 1 /\ UNCHANGED <<breaker, mode, step, pos, serve>>
        /\ UNCHANGED <<stdin, stdout, inflight, timedOut>>
    BY <1>5 DEF Clock, Tick, loopVars, serverVars
  <2>2. EntriesValid'
    BY <2>1 DEF EntriesValid, ValidEntry
  <2>3. \A q \in Runs, p \in Providers : Attempting(q, p) => Attempting(q, p)'
    BY <2>1 DEF Attempting, Provider
  <2>4. Placed' /\ NoOrphanTrial'
    BY <2>1, <2>3 DEF Placed, NoOrphanTrial
  <2>5. Counted'
    BY <2>1, ServerCounted DEF Counted
  <2>. QED BY <2>2, <2>4, <2>5
<1>6. ASSUME NEW q \in Runs, HandleRun(q)
      PROVE  EntriesValid' /\ Placed' /\ NoOrphanTrial' /\ Counted'
  <2>1. LoopEffect(q) /\ UNCHANGED <<serve, stdin, stdout, inflight, timedOut>>
    BY <1>6, LoopSteps DEF HandleRun, serverVars
  <2>2. EntriesValid' /\ Placed' /\ NoOrphanTrial'
    BY <2>1, LoopKeeps
  <2>3. Counted'
    BY <2>1, HandlerCounted DEF LoopEffect
  <2>. QED BY <2>2, <2>3
<1>7. ASSUME NEW q \in Runs, HandleShutdown(q) \/ Reply(q)
      PROVE  EntriesValid' /\ Placed' /\ NoOrphanTrial' /\ Counted'
  <2>1. PICK from \in {"dispatch", "reply"}, to \in {"reply", "end"} :
           step[q] = from /\ step' = [step EXCEPT ![q] = to]
    BY <1>7 DEF HandleShutdown, Reply, Goto
  <2>2. /\ UNCHANGED <<breaker, now, mode, pos, serve, stdin, inflight, timedOut>>
        /\ stdout' = Append(stdout, q) \/ (UNCHANGED stdout /\ step'[q] = "reply")
    BY <1>7 DEF HandleShutdown, Reply, Goto, breakerVars, Placed
  <2>3. /\ step' = [step EXCEPT ![q] = step'[q]] /\ step'[q] \in {"reply", "end"}
        /\ pos' = [pos EXCEPT ![q] = pos'[q]] /\ pos'[q] \in Nat
    BY <2>1, <2>2 DEF Placed
  <2>4. EntriesValid' /\ Placed' /\ NoOrphanTrial'
    BY <2>1, <2>2, <2>3, OutsideAttempt DEF Steps
  <2>5. Counted'
    BY <2>1, <2>2, <2>3, HandlerCounted DEF Working
  <2>. QED BY <2>4, <2>5
<1>8. ASSUME NEW q \in Runs, End(q)
      PROVE  EntriesValid' /\ Placed' /\ NoOrphanTrial' /\ Counted'
  <2>1. /\ UNCHANGED <<breaker, now, mode, serve>>
        /\ step[q] = "end" /\ step' = [step EXCEPT ![q] = step'[q]] /\ step'[q] = "done"
        /\ pos' = [pos EXCEPT ![q] = pos'[q]] /\ pos'[q] \in Nat
    BY <1>8 DEF End, Goto, breakerVars, Placed
  <2>2. EntriesValid' /\ Placed' /\ NoOrphanTrial'
    BY <2>1, OutsideAttempt DEF Steps
  <2>. QED BY <1>8, <2>2, EndCounted
<1>9. CASE UNCHANGED vars
  <2>1. /\ UNCHANGED <<breaker, now, mode, step, pos, serve>>
        /\ UNCHANGED <<stdin, stdout, inflight, timedOut>>
    BY <1>9 DEF vars
  <2>2. Counted'
    BY <2>1, ServerCounted DEF Counted
  <2>. QED BY <2>1, <2>2, BreakerKept
<1>. QED BY <1>1, <1>2, <1>3, <1>4, <1>5, <1>6, <1>7, <1>8, <1>9
         DEF Next, Client, Serve, Handler

\* Over any interleaving of runs and any thresholds: the inductive invariant.
THEOREM Invariance == Spec => []IInv
<1>. QED BY InitInvariant, NextInvariant, PTL DEF Spec

\* fallback.go: AttemptStarted marks a half-open trial; whatever late results
\* of older attempts the other runs bring, the mark never outlives the attempts
\* on that provider, so it cannot block the provider for ever.
THEOREM TrialsEnd == Spec => []NoOrphanTrial
<1>1. IInv => NoOrphanTrial
  BY DEF IInv
<1>. QED BY <1>1, Invariance, PTL

\* fallback.go, RecordFailure: a provider with FailureThreshold failures on
\* record is not closed, and the time it was opened at has been.
THEOREM BreakerOpens == Spec => []OpensAtThreshold
<1>1. IInv => OpensAtThreshold
  BY DEF IInv, EntriesValid, ValidEntry, OpensAtThreshold
<1>. QED BY <1>1, Invariance, PTL

\* jsonrpc.go, Serve and drain: unless the drain timeout fired, a server that
\* returned has written a reply to every request it took from its input.
THEOREM DrainAnswersAll == Spec => []DrainIsComplete
<1>1. IInv => DrainIsComplete
  <2>. SUFFICES ASSUME IInv, serve \in {"returned", "exited"}, ~timedOut, NEW q \in Runs
                PROVE  step[q] = "none" \/ q \in Range(stdout)
    BY DEF DrainIsComplete
  <2>1. q \notin Live /\ step[q] \in Steps
    BY DEF IInv, Counted, Placed
  <2>2. step[q] \in {"none", "done", "killed"}
    BY <2>1 DEF Live, Working, Steps
  <2>. QED BY <2>2 DEF IInv, Counted
<1>. QED BY <1>1, Invariance, PTL

-----------------------------------------------------------------------------
(***************************************************************************)
(* The order of the chain.                                                 *)
(***************************************************************************)
\* The entries of agent.yaml that the daemon accepts.
LEMMA ConfigEntries ==
    /\ Len(Config) \in Nat \ {0} /\ DOMAIN Config = 1..Len(Config)
    /\ IsFiniteSet(DOMAIN Config) /\ Cardinality(DOMAIN Config) = Len(Config)
    /\ \A k \in DOMAIN Config :
          k \in Nat /\ Config[k].id \in Providers /\ Config[k].fallbackOnly \in BOOLEAN
<1>. DEFINE Entry == [id : Providers, fallbackOnly : BOOLEAN]
<1>1. /\ Config \in Seq(Entry) /\ DOMAIN Config # {}
  BY LoopAssumption
<1>2. Len(Config) \in Nat /\ DOMAIN Config = 1..Len(Config)
  BY <1>1, LenProperties
<1>3. Len(Config) \in Nat \ {0}
  BY <1>1, <1>2
<1>4. \A k \in 1..Len(Config) : Config[k] \in Entry
  BY <1>1, ElementOfSeq
<1>5. IsFiniteSet(1..Len(Config)) /\ Cardinality(1..Len(Config)) = Len(Config)
  BY <1>3, FS_Interval
<1>. QED BY <1>2, <1>3, <1>4, <1>5

\* The entries ahead of an entry that is ahead are fewer: their number is the
\* place of an entry in the chain.
LEMMA AheadGrows ==
    ASSUME NEW e \in DOMAIN Config
    PROVE  /\ IsFiniteSet(Ahead(e)) /\ Cardinality(Ahead(e)) \in 0..(Len(Config) - 1)
           /\ \A k \in Ahead(e) : k \in DOMAIN Config
                                  /\ Cardinality(Ahead(k)) < Cardinality(Ahead(e))
<1>1. Len(Config) \in Nat /\ DOMAIN Config = 1..Len(Config)
  BY ConfigEntries
<1>2. \A k \in DOMAIN Config : Config[k].fallbackOnly \in BOOLEAN /\ k \in Int
  BY ConfigEntries
<1>3. IsFiniteSet(DOMAIN Config) /\ Cardinality(DOMAIN Config) = Len(Config) /\ e \in 1..Len(Config)
  BY ConfigEntries
<1>4. \A k \in DOMAIN Config : Ahead(k) \in SUBSET DOMAIN Config /\ k \notin Ahead(k)
  BY <1>1 DEF Ahead
<1>5. \A k \in DOMAIN Config : IsFiniteSet(Ahead(k)) /\ Cardinality(Ahead(k)) \in Nat
  BY <1>3, <1>4, FS_Subset, FS_CardinalityType
<1>6. Cardinality(Ahead(e)) < Len(Config)
  <2>1. Cardinality(Ahead(e)) <= Len(Config) /\ Cardinality(Ahead(e)) # Len(Config)
    BY <1>3, <1>4, FS_Subset
  <2>. QED BY <1>1, <1>5, <2>1
<1>7. ASSUME NEW k \in Ahead(e) PROVE Cardinality(Ahead(k)) < Cardinality(Ahead(e))
  <2>1. k \in DOMAIN Config /\ k \notin Ahead(k)
    BY <1>4
  <2>2. Ahead(k) \in SUBSET Ahead(e)
    BY <1>1, <1>2, <2>1 DEF Ahead, IsPrimary
  <2>3. Ahead(k) # Ahead(e)
    BY <1>7, <2>1
  <2>4. Cardinality(Ahead(k)) <= Cardinality(Ahead(e)) /\ Cardinality(Ahead(k)) # Cardinality(Ahead(e))
    BY <1>5, <2>2, <2>3, FS_Subset
  <2>. QED BY <1>5, <2>1, <2>4
<1>. QED BY <1>1, <1>4, <1>5, <1>6, <1>7

\* OrderedForDispatch has every entry of the configuration, each at the place
\* the entries ahead of it leave.
LEMMA DispatchPlaces ==
           /\ \A n \in 1..Len(Config) :
                 \E k \in DOMAIN Config : Cardinality(Ahead(k)) = n - 1
           /\ \A k \in DOMAIN Config :
                 /\ Cardinality(Ahead(k)) \in 0..(Len(Config) - 1)
                 /\ OrderedForDispatch[Cardinality(Ahead(k)) + 1] = Config[k]
<1>. DEFINE place == [k \in DOMAIN Config |-> Cardinality(Ahead(k))]
            L == Len(Config)
<1>1. L \in Nat \ {0} /\ DOMAIN Config = 1..L
  BY ConfigEntries
<1>2. \A k \in DOMAIN Config : place[k] \in 0..(L - 1)
  BY AheadGrows
<1>3. ASSUME NEW i \in DOMAIN Config, NEW j \in DOMAIN Config, place[i] = place[j]
      PROVE  i = j
  <2>1. Cardinality(Ahead(i)) = Cardinality(Ahead(j)) /\ Cardinality(Ahead(i)) \in Int
    BY <1>2, <1>3
  <2>2. i \notin Ahead(j) /\ j \notin Ahead(i)
    BY <2>1, AheadGrows
  <2>3. Config[i].fallbackOnly \in BOOLEAN /\ Config[j].fallbackOnly \in BOOLEAN
    BY ConfigEntries
  <2>. QED BY <1>1, <2>2, <2>3 DEF Ahead, IsPrimary
<1>4. place \in Injection(DOMAIN Config, 0..(L - 1))
  BY <1>2, <1>3, Fun_IsInj
<1>5. /\ IsFiniteSet(0..(L - 1)) /\ Cardinality(0..(L - 1)) = L
      /\ Cardinality(DOMAIN Config) = L
  <2>1. 0 \in Int /\ L - 1 \in Int /\ ~(0 > L - 1) /\ L - 1 - 0 + 1 = L
    BY <1>1
  <2>. QED BY <2>1, FS_Interval, ConfigEntries
<1>6. place \in Surjection(DOMAIN Config, 0..(L - 1))
  <2>. DEFINE S == DOMAIN Config
              T == 0..(L - 1)
  <2>1. place \in Injection(S, T) /\ IsFiniteSet(T) /\ Cardinality(S) = Cardinality(T)
    BY <1>4, <1>5
  <2>. HIDE DEF place, S, T
  <2>2. place \in Surjection(S, T)
    BY <2>1, FS_Injection
  <2>. QED BY <2>2 DEF S, T
<1>7. \A n \in 0..(L - 1) : \E k \in DOMAIN Config : place[k] = n
  <2>. HIDE DEF place
  <2>. QED BY <1>6 DEF Surjection
<1>8. ASSUME NEW n \in 1..L PROVE \E k \in DOMAIN Config : Cardinality(Ahead(k)) = n - 1
  <2>1. n - 1 \in 0..(L - 1)
    BY <1>1
  <2>. QED BY <1>7, <2>1
<1>9. ASSUME NEW k \in DOMAIN Config PROVE OrderedForDispatch[Cardinality(Ahead(k)) + 1] = Config[k]
  <2>1. PICK n \in DOMAIN Config : n = Cardinality(Ahead(k)) + 1
    BY <1>1, <1>2
  <2>. DEFINE c == CHOOSE i \in DOMAIN Config : Cardinality(Ahead(i)) = n - 1
  <2>2. Cardinality(Ahead(k)) = n - 1
    BY <1>2, <2>1
  <2>3. c \in DOMAIN Config /\ Cardinality(Ahead(c)) = n - 1
    BY <2>2
  <2>4. c = k
    BY <1>3, <2>2, <2>3
  <2>5. OrderedForDispatch[n] = Config[c]
    BY DEF OrderedForDispatch
  <2>. QED BY <2>1, <2>4, <2>5
<1>. QED BY <1>1, <1>2, <1>8, <1>9

\* The chain's providers are configured ones, and the primary is one.
LEMMA DispatchedProviders ==
           /\ \A n \in 1..Len(Config) : OrderedForDispatch[n].id \in Providers
           /\ PrimaryProvider \in Providers
<1>1. Len(Config) \in Nat \ {0} /\ DOMAIN Config = 1..Len(Config)
  BY ConfigEntries
<1>2. \A k \in DOMAIN Config : Config[k].id \in Providers /\ Config[k].fallbackOnly \in BOOLEAN
  BY ConfigEntries
<1>3. ASSUME NEW n \in 1..Len(Config) PROVE OrderedForDispatch[n].id \in Providers
  <2>1. PICK k \in DOMAIN Config : Cardinality(Ahead(k)) = n - 1
    BY DispatchPlaces
  <2>2. Cardinality(Ahead(k)) + 1 = n
    BY <2>1
  <2>3. OrderedForDispatch[n] = Config[k]
    BY <2>2, DispatchPlaces
  <2>. QED BY <1>2, <2>3
<1>4. PICK k \in DOMAIN Config : Cardinality(Ahead(k)) = 0
  <2>1. 1 \in 1..Len(Config) /\ 1 - 1 = 0
    BY <1>1
  <2>. QED BY <2>1, DispatchPlaces
<1>5. Ahead(k) = {}
  BY <1>4, AheadGrows, FS_EmptySet
<1>6. IsPrimary(Config[k])
  <2>1. PICK i \in DOMAIN Config : ~Config[i].fallbackOnly
    BY LoopAssumption
  <2>2. i \notin Ahead(k)
    BY <1>5
  <2>. QED BY <1>2, <2>1, <2>2 DEF Ahead, IsPrimary
<1>7. \A j \in 1..(k - 1) : IsFallback(Config[j])
  <2>1. \A j \in 1..(k - 1) : j \in DOMAIN Config /\ j < k /\ j \notin Ahead(k)
    BY <1>1, <1>5
  <2>. QED BY <1>2, <1>6, <2>1 DEF Ahead, IsPrimary, IsFallback
<1>8. PrimaryProvider \in Providers
  <2>. DEFINE P(i) == IsPrimary(Config[i]) /\ \A j \in 1..(i - 1) : IsFallback(Config[j])
              c == CHOOSE i \in DOMAIN Config : P(i)
  <2>1. c \in DOMAIN Config
    BY <1>6, <1>7
  <2>2. PrimaryProvider = Config[c].id
    BY DEF PrimaryProvider
  <2>. QED BY <1>2, <2>1, <2>2
<1>. QED BY <1>3, <1>8

-----------------------------------------------------------------------------
(***************************************************************************)
(* What a run holds.                                                       *)
(***************************************************************************)
\* The steps of a run whose chain is not over.
Trying == {"none", "dispatch", "lookup", "initialized", "check", "start", "session",
           "turn", "record"}

Attempts == Seq([provider : Providers, result : Outcomes \cup {"skipped"}])

GoesOn == {"failover", "skipped"}

\* The session of run q's conversation with the provider it is about.
Own(q) == [provider |-> Provider(q), thread |-> ThreadOf[q]]

\* A list of attempts follows the dispatch order.
FollowsOrder(tried) ==
    /\ tried \in Attempts
    /\ Len(tried) <= Len(Config)
    /\ \A i \in 1..Len(tried) : tried[i].provider = OrderedForDispatch[i].id
    /\ \A i \in 1..Len(tried) : i < Len(tried) => tried[i].result \in GoesOn

\* The attempts of a run end just before its place in the chain while the chain
\* goes on; what it would resume is its own.
RunOK(q) ==
    /\ run[q] = [bootstrap |-> run[q].bootstrap, session |-> run[q].session,
                 outcome |-> run[q].outcome, attempts |-> run[q].attempts]
    /\ run[q].outcome \in Outcomes \cup {"none"}
    /\ FollowsOrder(run[q].attempts)
    /\ step[q] \in Trying =>
          /\ pos[q] \in 1..Len(Config) /\ Len(run[q].attempts) = pos[q] - 1
          /\ \A i \in 1..Len(run[q].attempts) : run[q].attempts[i].result \in GoesOn
    /\ step[q] = "lookup" => mode = "single"
    /\ step[q] \in {"none", "dispatch", "lookup"} => run[q].session = NoSession
    /\ step[q] \in {"initialized", "turn"} => run[q].session \in {NoSession, Own(q)}

RunsInv == DOMAIN run = Runs /\ \A q \in Runs : RunOK(q)

\* What is cached for a conversation and a provider was issued for them.
SessionsOwn ==
    /\ DOMAIN sessions = Threads
    /\ \A t \in Threads :
          /\ DOMAIN sessions[t] = Providers
          /\ \A p \in Providers :
                sessions[t][p] \in {NoSession, [provider |-> p, thread |-> t]}

\* A run that is left alone still holds what it held.
LEMMA RunLeftAlone ==
    ASSUME NEW x, RunOK(x), UNCHANGED mode,
           step'[x] = step[x], pos'[x] = pos[x], run'[x] = run[x]
    PROVE  RunOK(x)'
<1>1. Provider(x)' = Provider(x)
  BY DEF Provider
<1>2. Own(x)' = Own(x)
  BY <1>1 DEF Own
<1>. QED BY <1>2 DEF RunOK, FollowsOrder, Attempts

\* A run goes on without an attempt.
LEMMA RunMoves ==
    ASSUME Placed, RunsInv, NEW q \in Runs, NEW s, NEW r,
           UNCHANGED <<mode, pos>>, step' = [step EXCEPT ![q] = s], run' = [run EXCEPT ![q] = r],
           r = [bootstrap |-> r.bootstrap, session |-> r.session,
                outcome |-> r.outcome, attempts |-> run[q].attempts],
           r.outcome \in Outcomes \cup {"none"},
           s \in Trying => step[q] \in Trying,
           s = "lookup" => mode = "single",
           s \in {"none", "dispatch", "lookup"} => r.session = NoSession,
           s \in {"initialized", "turn"} => r.session \in {NoSession, Own(q)}
    PROVE  RunsInv'
<1>1. /\ step'[q] = s /\ run'[q] = r /\ pos'[q] = pos[q] /\ DOMAIN run' = Runs
      /\ \A x \in Runs : x # q => step'[x] = step[x] /\ run'[x] = run[x] /\ pos'[x] = pos[x]
  BY DEF Placed, RunsInv
<1>2. Own(q)' = Own(q)
  <2>1. Provider(q)' = Provider(q)
    BY DEF Provider
  <2>. QED BY <2>1 DEF Own
<1>3. RunOK(q)
  BY DEF RunsInv
<1>4. run'[q].attempts = run[q].attempts /\ FollowsOrder(run[q].attempts)
  BY <1>1, <1>3 DEF RunOK
<1>5. RunOK(q)'
  BY <1>1, <1>2, <1>3, <1>4 DEF RunOK, FollowsOrder, Attempts
<1>6. \A x \in Runs : x # q => RunOK(x)'
  BY <1>1, RunLeftAlone DEF RunsInv
<1>. QED BY <1>1, <1>5, <1>6 DEF RunsInv

\* An attempt of run q is recorded: the list follows the order one entry more.
LEMMA AttemptAppended ==
    ASSUME RunsInv, NEW q \in Runs, step[q] \in Trying, mode = "chain",
           NEW result \in Outcomes \cup {"skipped"},
           NEW a, a = [provider |-> Provider(q), result |-> result]
    PROVE  /\ FollowsOrder(Append(run[q].attempts, a))
           /\ Len(Append(run[q].attempts, a)) = pos[q]
           /\ result \in GoesOn => \A i \in 1..pos[q] :
                 Append(run[q].attempts, a)[i].result \in GoesOn
<1>. DEFINE old == run[q].attempts
            new == Append(old, a)
<1>1. /\ FollowsOrder(old) /\ pos[q] \in 1..Len(Config) /\ Len(old) = pos[q] - 1
      /\ \A i \in 1..Len(old) : old[i].result \in GoesOn
      /\ Len(Config) \in Nat
  BY ConfigEntries DEF RunsInv, RunOK
<1>2. a.provider = OrderedForDispatch[pos[q]].id /\ a.result = result /\ Provider(q) \in Providers
  BY <1>1, DispatchedProviders DEF Provider
<1>3. a \in [provider : Providers, result : Outcomes \cup {"skipped"}]
  BY <1>2
<1>4. /\ new \in Attempts /\ Len(new) = Len(old) + 1 /\ Len(old) \in Nat
      /\ \A i \in 1..Len(old) : new[i] = old[i]
      /\ new[Len(old) + 1] = a
  <2>. HIDE DEF old
  <2>1. old \in Attempts
    BY <1>1 DEF FollowsOrder
  <2>. QED BY <1>3, <2>1, AppendProperties, LenProperties DEF Attempts
<1>. HIDE DEF old, new
<1>5. Len(new) = pos[q] /\ \A i \in 1..pos[q] : i \in 1..Len(old) \/ i = pos[q]
  BY <1>1, <1>4
<1>6. \A i \in 1..pos[q] : new[i].provider = OrderedForDispatch[i].id
  BY <1>1, <1>2, <1>4, <1>5 DEF FollowsOrder
<1>7. \A i \in 1..pos[q] : i < pos[q] \/ result \in GoesOn => new[i].result \in GoesOn
  <2>. SUFFICES ASSUME NEW i \in 1..pos[q], i < pos[q] \/ result \in GoesOn
                PROVE  new[i].result \in GoesOn
    OBVIOUS
  <2>1. CASE i \in 1..Len(old)
    BY <1>1, <1>4, <2>1
  <2>2. CASE i = pos[q]
    <3>1. new[i] = a
      BY <1>1, <1>4, <2>2
    <3>2. ~(i < pos[q])
      BY <1>1, <2>2
    <3>. QED BY <1>2, <3>1, <3>2
  <2>. QED BY <1>5, <2>1, <2>2
<1>8. FollowsOrder(new)
  BY <1>1, <1>4, <1>5, <1>6, <1>7 DEF FollowsOrder
<1>. QED BY <1>5, <1>7, <1>8 DEF new, old

\* The attempt is over, and the chain goes on or ends.
LEMMA RunRecords ==
    ASSUME Placed, RunsInv, NEW q \in Runs, step[q] \in {"check", "record"}, mode = "chain",
           UNCHANGED mode, NEW result \in Outcomes \cup {"skipped"},
           \/ Advance(q, result) /\ result \in GoesOn
           \/ Conclude(q, result, "save")
           \/ Conclude(q, result, "reply")
    PROVE  RunsInv'
<1>. DEFINE a == [provider |-> Provider(q), result |-> result]
            r == [bootstrap |-> run[q].bootstrap, session |-> NoSession,
                  outcome |-> "none", attempts |-> Append(run[q].attempts, a)]
<1>1. RunOK(q) /\ DOMAIN run = Runs /\ step[q] \in Trying
  BY DEF RunsInv, Trying
<1>2. run' = [run EXCEPT ![q] = r]
  BY <1>1 DEF Advance, Conclude, RunOK
<1>3. /\ FollowsOrder(r.attempts) /\ Len(r.attempts) = pos[q]
      /\ result \in GoesOn => \A i \in 1..pos[q] : r.attempts[i].result \in GoesOn
  <2>1. r.attempts = Append(run[q].attempts, a)
    OBVIOUS
  <2>. HIDE DEF r
  <2>. QED BY <1>1, <2>1, AttemptAppended
<1>4. r = [bootstrap |-> r.bootstrap, session |-> r.session,
           outcome |-> r.outcome, attempts |-> r.attempts]
      /\ r.outcome = "none" /\ r.session = NoSession
  OBVIOUS
<1>. HIDE DEF a, r
<1>5. /\ run'[q] = r /\ DOMAIN run' = Runs
      /\ \A x \in Runs : x # q => run'[x] = run[x]
  BY <1>1, <1>2
<1>6. \A x \in Runs : x # q => step'[x] = step[x] /\ pos'[x] = pos[x]
  BY DEF Advance, Conclude, Placed
<1>7. \A x \in Runs : x # q => RunOK(x)'
  BY <1>5, <1>6, RunLeftAlone DEF RunsInv
<1>8. /\ FollowsOrder(run'[q].attempts) /\ Len(run'[q].attempts) = pos[q]
      /\ result \in GoesOn => \A i \in 1..pos[q] : run'[q].attempts[i].result \in GoesOn
  BY <1>3, <1>5
<1>9. /\ step'[q] \notin {"none", "dispatch", "lookup", "initialized", "turn"}
      /\ step'[q] \in Trying => /\ result \in GoesOn /\ pos'[q] = pos[q] + 1
                                /\ pos[q] < Len(Config)
  BY DEF Advance, Conclude, Placed, Trying
<1>10. step'[q] \in Trying =>
          /\ pos'[q] \in 1..Len(Config) /\ Len(run'[q].attempts) = pos'[q] - 1
          /\ \A i \in 1..Len(run'[q].attempts) : run'[q].attempts[i].result \in GoesOn
  <2>1. pos[q] \in Nat /\ Len(Config) \in Nat
    BY ConfigEntries DEF Placed
  <2>. QED BY <1>8, <1>9, <2>1
<1>11. FollowsOrder(run[q].attempts)'
  BY <1>8 DEF FollowsOrder, Attempts
<1>12. RunOK(q)'
  BY <1>4, <1>5, <1>9, <1>10, <1>11 DEF RunOK
<1>. QED BY <1>5, <1>7, <1>12 DEF RunsInv

\* A run moves and keeps what it holds.
LEMMA RunPasses ==
    ASSUME Placed, RunsInv, NEW q \in Runs, NEW s,
           UNCHANGED <<mode, pos, run>>, step' = [step EXCEPT ![q] = s],
           s \in Trying => step[q] \in Trying,
           s = "lookup" => mode = "single",
           s \in {"none", "dispatch", "lookup", "initialized", "turn"}
              => \/ step[q] \in {"none", "dispatch", "lookup"}
                 \/ step[q] = "initialized" /\ s = "turn"
    PROVE  RunsInv'
<1>1. /\ step'[q] = s /\ RunOK(q) /\ DOMAIN run' = Runs
      /\ \A x \in Runs : x # q => step'[x] = step[x]
      /\ \A x \in Runs : run'[x] = run[x] /\ pos'[x] = pos[x]
  BY DEF Placed, RunsInv
<1>2. Own(q)' = Own(q)
  <2>1. Provider(q)' = Provider(q)
    BY DEF Provider
  <2>. QED BY <2>1 DEF Own
<1>3. RunOK(q)'
  BY <1>1, <1>2 DEF RunOK, FollowsOrder, Attempts
<1>4. \A x \in Runs : x # q => RunOK(x)'
  BY <1>1, RunLeftAlone DEF RunsInv
<1>. QED BY <1>1, <1>3, <1>4 DEF RunsInv

\* One field of what a run holds is replaced.
LEMMA FieldReplaced ==
    ASSUME RunsInv, NEW q \in Runs, NEW v
    PROVE  LET h == run[q] IN
           /\ [run EXCEPT ![q].bootstrap = v] = [run EXCEPT ![q] =
                 [bootstrap |-> v, session |-> h.session, outcome |-> h.outcome,
                  attempts |-> h.attempts]]
           /\ [run EXCEPT ![q].session = v] = [run EXCEPT ![q] =
                 [bootstrap |-> h.bootstrap, session |-> v, outcome |-> h.outcome,
                  attempts |-> h.attempts]]
           /\ [run EXCEPT ![q].outcome = v] = [run EXCEPT ![q] =
                 [bootstrap |-> h.bootstrap, session |-> h.session, outcome |-> v,
                  attempts |-> h.attempts]]
<1>1. run[q] = [bootstrap |-> run[q].bootstrap, session |-> run[q].session,
                outcome |-> run[q].outcome, attempts |-> run[q].attempts]
  BY DEF RunsInv, RunOK
<1>2. PICK b, s, o, a : run[q] = [bootstrap |-> b, session |-> s, outcome |-> o, attempts |-> a]
  BY <1>1
<1>3. /\ [run[q] EXCEPT !.bootstrap = v] = [bootstrap |-> v, session |-> s, outcome |-> o, attempts |-> a]
      /\ [run[q] EXCEPT !.session = v] = [bootstrap |-> b, session |-> v, outcome |-> o, attempts |-> a]
      /\ [run[q] EXCEPT !.outcome = v] = [bootstrap |-> b, session |-> s, outcome |-> v, attempts |-> a]
      /\ run[q].bootstrap = b /\ run[q].session = s /\ run[q].outcome = o /\ run[q].attempts = a
  BY <1>2
<1>. QED BY <1>3

\* A lookup brings a run the session cached for its conversation.
LEMMA SessionsFound ==
    ASSUME SessionsOwn, NEW q \in Runs, NEW p \in Providers
    PROVE  Cached(q, p) \in {NoSession, [provider |-> p, thread |-> ThreadOf[q]]}
  BY LoopAssumption DEF SessionsOwn, Cached

\* Every step of a run of AgentLoop.
LEMMA LoopRuns ==
    ASSUME Placed, RunsInv, NEW q \in Runs, LoopStep(q, cancelled), SessionsOwn
    PROVE  RunsInv'
<1>0. RunOK(q) /\ run[q].outcome \in Outcomes \cup {"none"}
  BY DEF RunsInv, RunOK
<1>3. CASE Dispatch(q)
  <2>1. PICK s \in {"lookup", "initialized"} :
           /\ step[q] = "dispatch" /\ step' = [step EXCEPT ![q] = s]
           /\ s = "lookup" => mode = "single"
    BY <1>3 DEF Dispatch, Goto
  <2>2. /\ UNCHANGED <<mode, pos, run>>
        /\ step[q] \in Trying /\ step[q] \in {"none", "dispatch", "lookup"}
    BY <1>3, <2>1 DEF Dispatch, Trying
  <2>. HIDE DEF Trying
  <2>. QED BY <2>1, <2>2, RunPasses
<1>4. CASE LookupSession(q)
  <2>1. UNCHANGED <<mode, pos>> /\ step[q] = "lookup" /\ mode = "single"
    BY <1>0, <1>4 DEF LookupSession, Goto, RunOK
  <2>2. CASE Goto(q, "lookup", "initialized")
             /\ run' = [run EXCEPT ![q].session = Cached(q, PrimaryProvider)]
    <3>. DEFINE r == [bootstrap |-> run[q].bootstrap, session |-> Cached(q, PrimaryProvider),
                      outcome |-> run[q].outcome, attempts |-> run[q].attempts]
    <3>1. run' = [run EXCEPT ![q] = r]
      BY <2>2, FieldReplaced
    <3>2. r.session \in {NoSession, Own(q)}
      BY <2>1, DispatchedProviders, SessionsFound DEF Own, Provider
    <3>3. /\ r = [bootstrap |-> r.bootstrap, session |-> r.session,
                  outcome |-> r.outcome, attempts |-> run[q].attempts]
          /\ r.outcome \in Outcomes \cup {"none"}
      BY <1>0
    <3>. HIDE DEF r
    <3>4. step' = [step EXCEPT ![q] = "initialized"] /\ step[q] \in Trying
      BY <2>1, <2>2 DEF Goto, Trying
    <3>. QED BY <2>1, <3>1, <3>2, <3>3, <3>4, RunMoves
  <2>3. CASE Goto(q, "lookup", "reply") /\ UNCHANGED run
    BY <2>1, <2>3, RunPasses DEF Goto, Trying
  <2>. QED BY <1>4, <2>2, <2>3 DEF LookupSession
<1>5. CASE IsInitialized(q)
  <2>1. UNCHANGED <<mode, pos>> /\ step[q] = "initialized"
    BY <1>5 DEF IsInitialized, Goto
  <2>2. ASSUME NEW s \in {"turn", "check"}, step' = [step EXCEPT ![q] = s],
               NEW b, run' = [run EXCEPT ![q].bootstrap = b]
        PROVE  RunsInv'
    <3>. DEFINE r == [bootstrap |-> b, session |-> run[q].session,
                      outcome |-> run[q].outcome, attempts |-> run[q].attempts]
    <3>1. run' = [run EXCEPT ![q] = r]
      BY <2>2, FieldReplaced
    <3>2. r.session \in {NoSession, Own(q)}
      BY <1>0, <2>1 DEF RunOK
    <3>3. /\ r = [bootstrap |-> r.bootstrap, session |-> r.session,
                  outcome |-> r.outcome, attempts |-> run[q].attempts]
          /\ r.outcome \in Outcomes \cup {"none"}
      BY <1>0
    <3>. HIDE DEF r
    <3>4. step[q] \in Trying
      BY <2>1 DEF Trying
    <3>. QED BY <2>1, <2>2, <3>1, <3>2, <3>3, <3>4, RunMoves
  <2>3. CASE Goto(q, "initialized", "reply") /\ UNCHANGED run
    BY <2>1, <2>3, RunPasses DEF Goto, Trying
  <2>. QED BY <1>5, <2>2, <2>3 DEF IsInitialized, Goto
<1>6. CASE Check(q)
  <2>1. UNCHANGED mode /\ step[q] = "check" /\ mode = "chain"
    BY <1>6 DEF Check, Placed
  <2>2. CASE Advance(q, "skipped")
    BY <2>1, <2>2, RunRecords DEF GoesOn
  <2>3. CASE Goto(q, "check", "start") /\ UNCHANGED <<pos, run>>
    BY <2>1, <2>3, RunPasses DEF Goto, Trying
  <2>. QED BY <1>6, <2>2, <2>3 DEF Check
<1>7. CASE Start(q)
  BY <1>7, RunPasses DEF Start, Goto, Trying
<1>8. CASE LookupProviderSession(q)
  <2>1. UNCHANGED <<mode, pos>> /\ step[q] = "session" /\ mode = "chain"
    BY <1>8 DEF LookupProviderSession, Goto, Placed
  <2>2. Provider(q) \in Providers /\ step[q] \in Trying
    BY <1>0, <2>1, DispatchedProviders DEF RunOK, Trying, Provider
  <2>3. CASE Goto(q, "session", "turn")
             /\ run' = [run EXCEPT ![q].session = Cached(q, Provider(q))]
    <3>. DEFINE r == [bootstrap |-> run[q].bootstrap, session |-> Cached(q, Provider(q)),
                      outcome |-> run[q].outcome, attempts |-> run[q].attempts]
    <3>1. run' = [run EXCEPT ![q] = r]
      BY <2>3, FieldReplaced
    <3>2. r.session \in {NoSession, Own(q)}
      BY <2>2, SessionsFound DEF Own
    <3>3. /\ r = [bootstrap |-> r.bootstrap, session |-> r.session,
                  outcome |-> r.outcome, attempts |-> run[q].attempts]
          /\ r.outcome \in Outcomes \cup {"none"}
      BY <1>0
    <3>. HIDE DEF r
    <3>4. step' = [step EXCEPT ![q] = "turn"]
      BY <2>3 DEF Goto
    <3>. QED BY <2>1, <2>2, <3>1, <3>2, <3>3, <3>4, RunMoves
  <2>4. CASE Goto(q, "session", "record") /\ run' = [run EXCEPT ![q].outcome = "failover"]
    <3>. DEFINE r == [bootstrap |-> run[q].bootstrap, session |-> run[q].session,
                      outcome |-> "failover", attempts |-> run[q].attempts]
    <3>1. run' = [run EXCEPT ![q] = r]
      BY <2>4, FieldReplaced
    <3>2. /\ r = [bootstrap |-> r.bootstrap, session |-> r.session,
                  outcome |-> r.outcome, attempts |-> run[q].attempts]
          /\ r.outcome \in Outcomes \cup {"none"}
      BY DEF Outcomes
    <3>. HIDE DEF r
    <3>3. step' = [step EXCEPT ![q] = "record"]
      BY <2>4 DEF Goto
    <3>. QED BY <2>1, <2>2, <3>1, <3>2, <3>3, RunMoves
  <2>. QED BY <1>8, <2>3, <2>4 DEF LookupProviderSession
<1>9. CASE Turn(q, cancelled)
  <2>1. PICK o \in Outcomes, s \in {"record", "save", "reply"} :
           /\ step[q] = "turn" /\ step' = [step EXCEPT ![q] = s]
           /\ run' = [run EXCEPT ![q].outcome = o]
    BY <1>9 DEF Turn, Goto
  <2>2. UNCHANGED <<mode, pos>> /\ step[q] \in Trying
    BY <1>9, <2>1 DEF Turn, Trying
  <2>. DEFINE r == [bootstrap |-> run[q].bootstrap, session |-> run[q].session,
                    outcome |-> o, attempts |-> run[q].attempts]
  <2>3. run' = [run EXCEPT ![q] = r]
    BY <2>1, FieldReplaced
  <2>4. /\ r = [bootstrap |-> r.bootstrap, session |-> r.session,
                outcome |-> r.outcome, attempts |-> run[q].attempts]
        /\ r.outcome \in Outcomes \cup {"none"}
    OBVIOUS
  <2>. HIDE DEF r
  <2>. QED BY <2>1, <2>2, <2>3, <2>4, RunMoves
<1>10. CASE Record(q)
  <2>1. UNCHANGED mode /\ step[q] = "record" /\ mode = "chain"
    BY <1>10 DEF Record, Placed
  <2>2. \/ Conclude(q, "ok", "save")
        \/ Advance(q, "failover")
        \/ Conclude(q, "terminal", "reply")
    BY <1>10 DEF Record
  <2>. QED BY <2>1, <2>2, RunRecords DEF GoesOn, Outcomes
<1>11. CASE Save(q)
  BY <1>11, RunPasses DEF Save, Goto, Trying
<1>. QED BY <1>3, <1>4, <1>5, <1>6, <1>7, <1>8, <1>9, <1>10, <1>11 DEF LoopStep

\* The only write to the cache stores the session under the provider that
\* issued it.
LEMMA LoopSessions ==
    ASSUME SessionsOwn, NEW q \in Runs, LoopStep(q, cancelled)
    PROVE  SessionsOwn'
<1>1. CASE UNCHANGED sessions
  BY <1>1 DEF SessionsOwn
<1>2. CASE sessions' = [sessions EXCEPT ![ThreadOf[q]][Provider(q)] =
                           [provider |-> Provider(q), thread |-> ThreadOf[q]]]
  <2>. DEFINE own == [provider |-> Provider(q), thread |-> ThreadOf[q]]
  <2>1. ThreadOf[q] \in Threads
    BY LoopAssumption
  <2>2. sessions' = [sessions EXCEPT ![ThreadOf[q]] =
                        [sessions[ThreadOf[q]] EXCEPT ![Provider(q)] = own]]
    BY <1>2
  <2>3. /\ DOMAIN sessions' = Threads
        /\ \A t \in Threads : t # ThreadOf[q] => sessions'[t] = sessions[t]
        /\ sessions'[ThreadOf[q]] = [sessions[ThreadOf[q]] EXCEPT ![Provider(q)] = own]
    BY <2>1, <2>2 DEF SessionsOwn
  <2>. QED BY <2>1, <2>3 DEF SessionsOwn
<1>. QED BY <1>1, <1>2
         DEF LoopStep, Dispatch, LookupSession, IsInitialized, Check, Start,
             LookupProviderSession, Turn, Record, Save

LEMMA InitRuns == Init => RunsInv /\ SessionsOwn
<1>. SUFFICES ASSUME Init PROVE RunsInv /\ SessionsOwn
  OBVIOUS
<1>1. SessionsOwn
  BY DEF Init, LoopInit, SessionsOwn
<1>2. /\ <<>> \in Attempts /\ Len(<<>>) = 0 /\ Len(Config) \in Nat \ {0}
  BY EmptySeq, ConfigEntries DEF Attempts
<1>3. /\ DOMAIN run = Runs
      /\ \A q \in Runs : run[q] = NoRun /\ step[q] = "none" /\ pos[q] = 1
  BY DEF Init, LoopInit
<1>4. FollowsOrder(<<>>)
  BY <1>2 DEF FollowsOrder
<1>. QED BY <1>1, <1>2, <1>3, <1>4 DEF RunsInv, RunOK, NoRun, Trying

\* The request is over or the process is: what it held is gone.
LEMMA RunEnds ==
    ASSUME NEW x, step'[x] \in {"none", "done", "killed"}, pos'[x] = 1, run'[x] = NoRun
    PROVE  RunOK(x)'
<1>1. /\ <<>> \in Attempts /\ Len(<<>>) = 0 /\ Len(Config) \in Nat \ {0}
  BY EmptySeq, ConfigEntries DEF Attempts
<1>2. /\ NoRun.attempts = <<>> /\ NoRun.session = NoSession /\ NoRun.outcome = "none"
      /\ NoRun = [bootstrap |-> NoRun.bootstrap, session |-> NoRun.session,
                  outcome |-> NoRun.outcome, attempts |-> NoRun.attempts]
  BY DEF NoRun
<1>3. FollowsOrder(run[x].attempts)'
  BY <1>1, <1>2 DEF FollowsOrder, Attempts
<1>. QED BY <1>1, <1>2, <1>3 DEF RunOK, Trying

LEMMA NextRuns == IInv /\ RunsInv /\ SessionsOwn /\ [Next]_vars => RunsInv' /\ SessionsOwn'
<1>. SUFFICES ASSUME IInv, RunsInv, SessionsOwn, [Next]_vars PROVE RunsInv' /\ SessionsOwn'
  OBVIOUS
<1>0. Placed /\ Counted
  BY DEF IInv
<1>1. ASSUME UNCHANGED sessions PROVE SessionsOwn'
  BY <1>1 DEF SessionsOwn
<1>2. ASSUME UNCHANGED <<mode, step, pos, run>> PROVE RunsInv'
  BY <1>2, RunLeftAlone DEF RunsInv
<1>3. CASE Client \/ Cancel \/ DrainTimeout \/ Clock \/ ServeEOF \/ Drained \/ UNCHANGED vars
  <2>1. UNCHANGED <<mode, step, pos, run, sessions>>
    BY <1>3 DEF Client, Send, CloseStdin, Signal, Cancel, DrainTimeout, Clock, ServeEOF, Drained,
                loopVars, vars
  <2>. QED BY <1>1, <1>2, <2>1
<1>4. CASE ServeLine
  <2>1. UNCHANGED <<mode, pos, run, sessions>>
    BY <1>4 DEF ServeLine
  <2>2. CASE shutting
    BY <1>1, <1>2, <1>4, <2>1, <2>2 DEF ServeLine
  <2>3. CASE ~shutting
    <3>1. PICK h \in Runs : step[h] = "none" /\ step' = [step EXCEPT ![h] = "dispatch"]
      BY <1>0, <1>4, <2>3, TailWaits DEF ServeLine
    <3>2. RunsInv'
      <4>1. step[h] \in Trying /\ step[h] \in {"none", "dispatch", "lookup"}
        BY <3>1 DEF Trying
      <4>2. "dispatch" # "lookup"
        OBVIOUS
      <4>. QED BY <1>0, <2>1, <3>1, <4>1, <4>2, RunPasses
    <3>. QED BY <1>1, <2>1, <3>2
  <2>. QED BY <2>2, <2>3
<1>5. CASE Exit
  <2>1. /\ UNCHANGED sessions /\ DOMAIN run' = Runs
        /\ \A q \in Runs : /\ step'[q] \in {"none", "done", "killed"}
                           /\ pos'[q] = 1 /\ run'[q] = NoRun
    BY <1>5 DEF Exit
  <2>. QED BY <1>1, <2>1, RunEnds DEF RunsInv
<1>6. ASSUME NEW q \in Runs, HandleRun(q) PROVE RunsInv' /\ SessionsOwn'
  BY <1>0, <1>6, LoopRuns, LoopSessions DEF HandleRun
<1>7. ASSUME NEW q \in Runs, HandleShutdown(q) \/ Reply(q) PROVE RunsInv' /\ SessionsOwn'
  <2>1. /\ UNCHANGED <<mode, pos, run, sessions>>
        /\ \E s \in {"reply", "end"} : step' = [step EXCEPT ![q] = s]
    BY <1>7 DEF HandleShutdown, Reply, Goto
  <2>. QED BY <1>0, <1>1, <2>1, RunPasses DEF Trying
<1>8. ASSUME NEW q \in Runs, End(q) PROVE RunsInv' /\ SessionsOwn'
  <2>1. /\ UNCHANGED <<mode, sessions>> /\ DOMAIN run' = Runs
        /\ step'[q] = "done" /\ pos'[q] = 1 /\ run'[q] = NoRun
        /\ \A x \in Runs : x # q => step'[x] = step[x] /\ pos'[x] = pos[x] /\ run'[x] = run[x]
    BY <1>0, <1>8 DEF End, Goto, Placed, RunsInv
  <2>. QED BY <1>1, <2>1, RunEnds, RunLeftAlone DEF RunsInv
<1>. QED BY <1>3, <1>4, <1>5, <1>6, <1>7, <1>8 DEF Next, Serve, Handler

\* Over any interleaving of runs: what each holds, and what is cached.
THEOREM RunsInvariance == Spec => [](RunsInv /\ SessionsOwn)
<1>1. IInv /\ (RunsInv /\ SessionsOwn) /\ [Next]_vars => (RunsInv /\ SessionsOwn)'
  BY NextRuns
<1>. QED BY <1>1, InitRuns, Invariance, PTL DEF Spec

\* fallback.go, OrderedForDispatch and Turn: in any configuration a provider
\* that is fallback-only is tried only after every other one has been, and the
\* chain goes on only after a failure that is worth it or a skip.
THEOREM DispatchInOrder == Spec => []ChainInOrder
<1>1. RunsInv => ChainInOrder
  <2>. SUFFICES ASSUME RunsInv, NEW q \in Runs
                PROVE  LET tried == run[q].attempts IN
                       /\ \A i \in DOMAIN tried :
                             i < Len(tried) => tried[i].result \in {"failover", "skipped"}
                       /\ \A entry \in Range(Config), i \in DOMAIN tried :
                             (\A f \in Range(Config) : f.id = tried[i].provider => f.fallbackOnly)
                             /\ ~entry.fallbackOnly
                             => \E j \in 1..(i - 1) : tried[j].provider = entry.id
    BY DEF ChainInOrder
  <2>. DEFINE tried == run[q].attempts
  <2>1. FollowsOrder(tried) /\ DOMAIN tried = 1..Len(tried) /\ Len(tried) \in Nat
    <3>1. FollowsOrder(tried)
      BY DEF RunsInv, RunOK
    <3>. HIDE DEF tried
    <3>. QED BY <3>1, LenProperties DEF FollowsOrder, Attempts
  <2>. HIDE DEF tried
  <2>2. ASSUME NEW i \in DOMAIN tried, NEW entry \in Range(Config), ~entry.fallbackOnly,
               \A f \in Range(Config) : f.id = tried[i].provider => f.fallbackOnly
        PROVE  \E j \in 1..(i - 1) : tried[j].provider = entry.id
    <3>1. i \in 1..Len(tried) /\ Len(tried) <= Len(Config) /\ i \in 1..Len(Config)
      BY <2>1, ConfigEntries DEF FollowsOrder
    <3>2. PICK k \in DOMAIN Config : Cardinality(Ahead(k)) = i - 1
      BY <3>1, DispatchPlaces
    <3>3. OrderedForDispatch[i] = Config[k]
      <4>1. Cardinality(Ahead(k)) + 1 = i
        BY <3>1, <3>2
      <4>. QED BY <4>1, DispatchPlaces
    <3>4. Config[k].fallbackOnly
      <4>1. Config[k] \in Range(Config) /\ Config[k].id = tried[i].provider
        BY <2>1, <3>1, <3>3 DEF FollowsOrder, Range
      <4>. QED BY <2>2, <4>1
    <3>5. PICK e \in DOMAIN Config : entry = Config[e]
      BY DEF Range
    <3>6. e \in Ahead(k)
      BY <2>2, <3>4, <3>5 DEF Ahead, IsPrimary
    <3>. DEFINE j == Cardinality(Ahead(e)) + 1
    <3>7. /\ Cardinality(Ahead(e)) < Cardinality(Ahead(k))
          /\ Cardinality(Ahead(e)) \in 0..(Len(Config) - 1)
          /\ OrderedForDispatch[j] = Config[e]
      BY <3>6, AheadGrows, DispatchPlaces
    <3>8. j \in 1..(i - 1) /\ j \in 1..Len(tried)
      BY <2>1, <3>1, <3>2, <3>7, ConfigEntries
    <3>9. tried[j].provider = entry.id
      BY <2>1, <3>5, <3>7, <3>8 DEF FollowsOrder
    <3>. QED BY <3>8, <3>9
  <2>3. \A i \in DOMAIN tried : i < Len(tried) => tried[i].result \in {"failover", "skipped"}
    BY <2>1 DEF FollowsOrder, GoesOn
  <2>. QED BY <2>2, <2>3 DEF tried
<1>. QED BY <1>1, RunsInvariance, PTL

\* session_dal.go: whichever provider of the chain answers, and whichever runs
\* share the cache, a turn resumes no session of another provider or another
\* conversation.
THEOREM SessionsStayApart == Spec => []SessionIsolation
<1>1. RunsInv => SessionIsolation
  BY DEF RunsInv, RunOK, Own, SessionIsolation
<1>. QED BY <1>1, RunsInvariance, PTL

=============================================================================
