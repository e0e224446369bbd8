-------------------------- MODULE SideServicesProofs --------------------------
(***************************************************************************)
(* Proofs about five components that share no state: the daemon handle,    *)
(* the refresher of the Zalo tokens, the migrations, the health of the     *)
(* providers and the plugin directory of a turn.                           *)
(***************************************************************************)
EXTENDS DaemonHandle, ZaloTokens, Migration, ProviderHealth, SkillTurn, SequenceTheorems,
        FiniteSetTheorems, FunctionTheorems, TLAPS

-----------------------------------------------------------------------------
(***************************************************************************)
(* DaemonHandle: Stop answers every RPC it finds, for any number of        *)
(* daemons, sandboxes and RPCs.                                            *)
(***************************************************************************)
\* The record r has the fields fs, and r[f] for each of them.
Shaped(r, fs) == r = [f \in fs |-> r[f]]

HandleTypeOK ==
    /\ handle = [d \in Daemons |-> handle[d]]
    /\ stopper = [d \in Daemons |-> stopper[d]]
    /\ rpc = [r \in Rpcs |-> rpc[r]]
    /\ \A d \in Daemons :
         /\ Shaped(handle[d], {"stopped", "pending", "reader", "closed"})
         /\ Shaped(stopper[d], {"pc", "pending"})
    /\ \A r \in Rpcs :
         Shaped(rpc[r], {"pc", "channel", "outcome"})

\* An RPC with nothing in its channel is in the pending map, which Stop may
\* have taken over, and whose entries Stop has then still to answer.
Kept(r) ==
    LET d == DaemonOf[r] IN
    \/ r \in handle[d].pending
    \/ r \in stopper[d].pending /\ stopper[d].pc \in {"close", "drain"}
NobodyForgotten == \A r \in Rpcs :
    rpc[r].pc \in {"write", "wait"} /\ rpc[r].channel = "empty" => Kept(r)

HandleInv == HandleTypeOK /\ NobodyForgotten

\* No RPC has been called (NewDaemonHandle).
LEMMA HandleInitial == HandleInit => HandleInv
<1> SUFFICES ASSUME HandleInit PROVE HandleInv
  OBVIOUS
<1>1. HandleTypeOK
  BY DEF HandleInit, HandleTypeOK, Shaped
<1>2. NobodyForgotten
  BY DEF HandleInit, NobodyForgotten
<1> QED
  BY <1>1, <1>2 DEF HandleInv

\* An RPC registers before it writes and takes itself off the map only when it
\* returns (RPC).
LEMMA RpcKeeps ==
    ASSUME HandleInv, NEW q \in Rpcs, RpcStep(q)
    PROVE  HandleInv'
<1> DEFINE e == DaemonOf[q]
<1>0. /\ e \in Daemons
      /\ stopper' = stopper
      /\ rpc = [r \in Rpcs |-> rpc[r]] /\ handle = [d \in Daemons |-> handle[d]]
      /\ Shaped(rpc[q], {"pc", "channel", "outcome"})
      /\ Shaped(handle[e], {"stopped", "pending", "reader", "closed"})
  BY HandleAssumption DEF HandleInv, HandleTypeOK, Daemons, Rpcs, RpcStep, RpcCalled, Register,
     RpcWrites, RpcReceives, RpcExpires
<1>1. /\ \A r \in Rpcs : r # q => rpc'[r] = rpc[r]
      /\ rpc' = [r \in Rpcs |-> rpc'[r]]
      /\ Shaped(rpc'[q], {"pc", "channel", "outcome"})
      /\ \A d \in Daemons : d # e => handle'[d] = handle[d]
      /\ handle' = [d \in Daemons |-> handle'[d]]
      /\ Shaped(handle'[e], {"stopped", "pending", "reader", "closed"})
      /\ \/ rpc'[q].pc \notin {"write", "wait"} /\ handle'[e].pending = handle[e].pending
         \/ rpc'[q].pc \notin {"write", "wait"} /\ handle'[e].pending = handle[e].pending \ {q}
         \/ rpc'[q].pc = "write" /\ handle'[e].pending = handle[e].pending \union {q}
         \/ rpc[q].pc = "write" /\ rpc'[q].channel = rpc[q].channel
            /\ handle'[e].pending = handle[e].pending
  <2> HIDE DEF e
  <2>1. CASE RpcCalled(q)
    BY <1>0, <2>1 DEF RpcCalled, Shaped
  <2>2. CASE Register(q)
    BY <1>0, <2>2 DEF Register, Shaped, e
  <2>3. ASSUME NEW o, RpcReturns(q, o)
        PROVE  /\ \A r \in Rpcs : r # q => rpc'[r] = rpc[r]
               /\ rpc' = [r \in Rpcs |-> rpc'[r]]
               /\ Shaped(rpc'[q], {"pc", "channel", "outcome"})
               /\ \A d \in Daemons : d # e => handle'[d] = handle[d]
               /\ handle' = [d \in Daemons |-> handle'[d]]
               /\ Shaped(handle'[e], {"stopped", "pending", "reader", "closed"})
               /\ rpc'[q].pc \notin {"write", "wait"}
               /\ handle'[e].pending = handle[e].pending \ {q}
    BY <1>0, <2>3 DEF RpcReturns, Shaped, e
  <2>4. CASE RpcWrites(q)
    <3>1. CASE RpcReturns(q, "write error")
      BY <2>3, <3>1
    <3>2. CASE rpc' = [rpc EXCEPT ![q].pc = "wait"] /\ handle' = handle
      BY <1>0, <2>4, <3>2 DEF RpcWrites, Shaped
    <3> QED
      BY <2>4, <3>1, <3>2 DEF RpcWrites
  <2>5. CASE RpcReceives(q)
    BY <2>3, <2>5 DEF RpcReceives
  <2>6. CASE RpcExpires(q)
    BY <2>3, <2>6 DEF RpcExpires
  <2> QED
    BY <2>1, <2>2, <2>4, <2>5, <2>6 DEF RpcStep
<1> HIDE DEF e
<1>2. HandleTypeOK'
  BY <1>0, <1>1 DEF HandleInv, HandleTypeOK
<1>3. NobodyForgotten'
  <2> SUFFICES ASSUME NEW r \in Rpcs, rpc'[r].pc \in {"write", "wait"}, rpc'[r].channel = "empty"
               PROVE  Kept(r)'
    BY DEF NobodyForgotten
  <2>0. DaemonOf[r] \in Daemons
    BY HandleAssumption DEF Daemons, Rpcs
  <2>1. CASE r # q
    <3>1. Kept(r)
      BY <1>1, <2>1 DEF HandleInv, NobodyForgotten
    <3>2. r \in handle[DaemonOf[r]].pending => r \in handle'[DaemonOf[r]].pending
      BY <1>1, <2>0, <2>1
    <3> QED
      BY <1>0, <3>1, <3>2 DEF Kept
  <2>2. CASE r = q
    <3>1. CASE q \in handle'[e].pending
      BY <2>2, <3>1 DEF Kept, e
    <3>2. CASE /\ rpc[q].pc = "write" /\ rpc'[q].channel = rpc[q].channel
               /\ handle'[e].pending = handle[e].pending
      <4>1. Kept(q)
        BY <2>2, <3>2 DEF HandleInv, NobodyForgotten
      <4> QED
        BY <1>0, <2>2, <3>2, <4>1 DEF Kept, e
    <3> QED
      BY <1>1, <2>2, <3>1, <3>2
  <2> QED
    BY <2>1, <2>2
<1> QED
  BY <1>2, <1>3 DEF HandleInv

\* A send only fills channels (readerLoop, Stop).
LEMMA SentFills ==
    ASSUME HandleInv, NEW rs, NEW v, v # "empty", rpc' = Sent(rs, v)
    PROVE  /\ rpc' = [r \in Rpcs |-> rpc'[r]]
           /\ \A r \in Rpcs :
                /\ Shaped(rpc'[r], {"pc", "channel", "outcome"})
                /\ rpc'[r].pc = rpc[r].pc
                /\ rpc'[r].channel = "empty" => rpc[r].channel = "empty" /\ r \notin rs
  BY DEF HandleInv, HandleTypeOK, Shaped, Sent

\* The reader answers who is pending and takes nobody off the map (readerLoop).
LEMMA ReaderKeeps ==
    ASSUME HandleInv, NEW e \in Daemons, ReaderStep(e)
    PROVE  HandleInv'
<1>1. /\ stopper' = stopper
      /\ handle' = [d \in Daemons |-> handle'[d]]
      /\ \A d \in Daemons :
           /\ handle'[d].pending = handle[d].pending
           /\ Shaped(handle'[d], {"stopped", "pending", "reader", "closed"})
  <2>0. /\ handle = [d \in Daemons |-> handle[d]]
        /\ \A d \in Daemons : Shaped(handle[d], {"stopped", "pending", "reader", "closed"})
    BY DEF HandleInv, HandleTypeOK
  <2>1. stopper' = stopper
    BY DEF ReaderStep, ReadLine, ReadEnds
  <2>2. CASE handle' = handle
    BY <2>0, <2>1, <2>2
  <2>3. CASE handle' = [handle EXCEPT ![e].reader = "done"]
    <3>1. handle' = [d \in Daemons |-> IF d = e THEN [handle[e] EXCEPT !.reader = "done"]
                                       ELSE handle[d]]
      BY <2>0, <2>3
    <3>2. /\ [handle[e] EXCEPT !.reader = "done"].pending = handle[e].pending
          /\ Shaped([handle[e] EXCEPT !.reader = "done"], {"stopped", "pending", "reader", "closed"})
      BY <2>0 DEF Shaped
    <3> QED
      BY <2>0, <2>1, <3>1, <3>2
  <2>4. handle' = handle \/ handle' = [handle EXCEPT ![e].reader = "done"]
    BY DEF ReaderStep, ReadLine, ReadEnds
  <2> QED
    BY <2>2, <2>3, <2>4
<1>2. rpc' = rpc \/ \E rs : rpc' = Sent(rs, "reply")
  BY DEF ReaderStep, ReadLine, ReadEnds
<1>3. /\ rpc' = [r \in Rpcs |-> rpc'[r]]
      /\ \A r \in Rpcs :
           /\ Shaped(rpc'[r], {"pc", "channel", "outcome"})
           /\ rpc'[r].pc = rpc[r].pc
           /\ rpc'[r].channel = "empty" => rpc[r].channel = "empty"
  <2>1. CASE rpc' = rpc
    BY <2>1 DEF HandleInv, HandleTypeOK
  <2>2. ASSUME NEW rs, rpc' = Sent(rs, "reply")
        PROVE  /\ rpc' = [r \in Rpcs |-> rpc'[r]]
               /\ \A r \in Rpcs :
                    /\ Shaped(rpc'[r], {"pc", "channel", "outcome"})
                    /\ rpc'[r].pc = rpc[r].pc
                    /\ rpc'[r].channel = "empty" => rpc[r].channel = "empty"
    <3>1. "reply" # "empty"
      OBVIOUS
    <3> QED
      BY <2>2, <3>1, SentFills
  <2> QED
    BY <1>2, <2>1, <2>2
<1>4. HandleTypeOK'
  BY <1>1, <1>3 DEF HandleInv, HandleTypeOK
<1>5. \A r \in Rpcs : DaemonOf[r] \in Daemons
  BY HandleAssumption DEF Daemons, Rpcs
<1>6. NobodyForgotten'
  BY <1>1, <1>3, <1>5 DEF HandleInv, NobodyForgotten, Kept
<1> QED
  BY <1>4, <1>6 DEF HandleInv

\* Stop takes the map over in one critical section, and answers all it took
\* before it returns (Stop).
LEMMA StopKeeps ==
    ASSUME HandleInv, NEW e \in Daemons, HandleStopStep(e)
    PROVE  HandleInv'
<1>0. /\ \A r \in Rpcs : DaemonOf[r] \in Daemons
      /\ handle = [d \in Daemons |-> handle[d]] /\ stopper = [d \in Daemons |-> stopper[d]]
      /\ rpc = [r \in Rpcs |-> rpc[r]]
      /\ Shaped(handle[e], {"stopped", "pending", "reader", "closed"})
      /\ Shaped(stopper[e], {"pc", "pending"})
  BY HandleAssumption DEF Daemons, Rpcs, HandleInv, HandleTypeOK
<1>1. CASE StopBegins(e)
  <2>1. /\ \A d \in Daemons : d # e => handle'[d] = handle[d] /\ stopper'[d] = stopper[d]
        /\ handle' = [d \in Daemons |-> handle'[d]] /\ stopper' = [d \in Daemons |-> stopper'[d]]
        /\ Shaped(handle'[e], {"stopped", "pending", "reader", "closed"})
        /\ Shaped(stopper'[e], {"pc", "pending"})
        /\ stopper[e].pc = "none"
        /\ stopper'[e].pc = "close" /\ stopper'[e].pending = handle[e].pending
        /\ rpc' = rpc
    BY <1>0, <1>1 DEF StopBegins, Shaped
  <2>2. HandleTypeOK'
    BY <2>1 DEF HandleInv, HandleTypeOK
  <2>3. NobodyForgotten'
    BY <1>0, <2>1 DEF HandleInv, NobodyForgotten, Kept
  <2> QED
    BY <2>2, <2>3 DEF HandleInv
<1>2. CASE CloseStreams(e) \/ Forget(e)
  <2>1. /\ \A d \in Daemons : /\ handle'[d].pending = handle[d].pending
                              /\ Shaped(handle'[d], {"stopped", "pending", "reader", "closed"})
                              /\ Shaped(stopper'[d], {"pc", "pending"})
                              /\ stopper'[d].pending = stopper[d].pending
                              /\ stopper[d].pc \in {"close", "drain"} => stopper'[d].pc \in {"close", "drain"}
        /\ handle' = [d \in Daemons |-> handle'[d]] /\ stopper' = [d \in Daemons |-> stopper'[d]]
        /\ rpc' = rpc
    <3>1. CASE CloseStreams(e)
      BY <1>0, <3>1 DEF HandleInv, HandleTypeOK, CloseStreams, StopAt, Shaped
    <3>2. CASE Forget(e)
      BY <1>0, <3>2 DEF HandleInv, HandleTypeOK, Forget, StopAt, Shaped
    <3> QED
      BY <1>2, <3>1, <3>2
  <2>2. HandleTypeOK'
    BY <2>1 DEF HandleInv, HandleTypeOK
  <2>3. NobodyForgotten'
    BY <1>0, <2>1 DEF HandleInv, NobodyForgotten, Kept
  <2> QED
    BY <2>2, <2>3 DEF HandleInv
<1>3. CASE Drain(e)
  <2>1. /\ handle' = handle
        /\ \A d \in Daemons : d # e => stopper'[d] = stopper[d]
        /\ stopper' = [d \in Daemons |-> stopper'[d]]
        /\ Shaped(stopper'[e], {"pc", "pending"})
        /\ rpc' = Sent(stopper[e].pending, "stopped")
    BY <1>0, <1>3 DEF Drain, StopAt, Shaped
  <2>2. "stopped" # "empty"
    OBVIOUS
  <2>3. /\ rpc' = [r \in Rpcs |-> rpc'[r]]
        /\ \A r \in Rpcs :
             /\ Shaped(rpc'[r], {"pc", "channel", "outcome"})
             /\ rpc'[r].pc = rpc[r].pc
             /\ rpc'[r].channel = "empty" => rpc[r].channel = "empty" /\ r \notin stopper[e].pending
    BY <2>1, <2>2, SentFills
  <2>4. HandleTypeOK'
    BY <2>1, <2>3 DEF HandleInv, HandleTypeOK
  <2>5. NobodyForgotten'
    BY <1>0, <2>1, <2>3 DEF HandleInv, NobodyForgotten, Kept
  <2> QED
    BY <2>4, <2>5 DEF HandleInv
<1> QED
  BY <1>1, <1>2, <1>3 DEF HandleStopStep

\* The daemons' own steps touch no handle.
LEMMA HandleStep == HandleInv /\ [HandleNext]_handleVars => HandleInv'
<1> SUFFICES ASSUME HandleInv, [HandleNext]_handleVars PROVE HandleInv'
  OBVIOUS
<1>1. ASSUME UNCHANGED <<handle, stopper, rpc>> PROVE HandleInv'
  BY <1>1 DEF HandleInv, HandleTypeOK, NobodyForgotten, Kept
<1>2. ASSUME NEW d \in Daemons, StartDaemon(d) \/ DaemonReplies(d) \/ Babble(d) \/ Exit(d)
      PROVE  UNCHANGED <<handle, stopper, rpc>>
  BY <1>2 DEF StartDaemon, DaemonReplies, Babble, Exit
<1>3. CASE UNCHANGED handleVars
  BY <1>1, <1>3 DEF handleVars
<1> QED
  BY <1>1, <1>2, <1>3, RpcKeeps, ReaderKeeps, StopKeeps DEF HandleNext

\* For any number of daemons in any sandboxes, and any number of RPCs.
THEOREM HandleInvariance == HandleSpec => []HandleInv
  BY HandleInitial, HandleStep, PTL DEF HandleSpec

\* Once Stop has returned it owes nobody an answer, however the calls, the
\* reader, the daemon's end and other daemons interleave (RPC, readerLoop, Stop).
THEOREM StopOwesNobody == HandleSpec => []StopAnswersPending
<1>1. HandleInv => StopAnswersPending
  BY DEF HandleInv, NobodyForgotten, Kept, StopAnswersPending, Of
<1> QED
  BY <1>1, HandleInvariance, PTL

-----------------------------------------------------------------------------
(***************************************************************************)
(* ZaloTokens: when concurrent refreshes keep the newest token; sends stop *)
(* only after the failure window, for any number of goroutines and any     *)
(* durations.                                                              *)
(***************************************************************************)
TokenFields   == {"pair", "validityS", "issuedAt", "failures", "firstFailureAt", "sendDisabled"}
RefreshFields == {"pc", "until", "cancelled", "used", "reply", "life"}

\* Durations and lifetimes are left open: no property depends on them.
TokenTypeOK ==
    /\ clock \in Nat /\ issued \in Nat
    /\ token = [f \in TokenFields |-> token[f]]
    /\ token.pair \in Nat /\ token.issuedAt \in Nat /\ token.firstFailureAt \in Int
    /\ refreshing = [g \in Refreshers |-> refreshing[g]]
    /\ \A g \in Refreshers :
         /\ refreshing[g] = [f \in RefreshFields |-> refreshing[g][f]]
         /\ refreshing[g].used \in Nat

\* The refresh tokens that goroutines carry are Zalo's last or older, and as old
\* as the stored one unless that was put back.  A pair that Zalo has issued and
\* nobody has stored or lost is in one reply, and then nobody else has its token.
OneReply ==
    /\ token.pair <= issued
    /\ \A g \in Refreshers :
         /\ refreshing[g].pc \in {"ask", "reply"} =>
              /\ refreshing[g].used <= issued
              /\ putBack \/ refreshing[g].used <= token.pair
         /\ refreshing[g].reply = "pair" =>
              /\ refreshing[g].used + 1 = issued
              /\ token.pair < issued
              /\ \A w \in Refreshers :
                   refreshing[w].pc \in {"ask", "reply"} => refreshing[w].used < issued

\* An answer is held only by who is about to record it.
AnswersHeld == \A g \in Refreshers :
    refreshing[g].reply # "none" => refreshing[g].pc = "reply"

\* Failures are counted from a time after the last success.
FailedSince ==
    /\ token.issuedAt <= clock
    /\ token.firstFailureAt # -1 => token.firstFailureAt >= token.issuedAt

\* A second pair in a reply would have been issued for a token that only the
\* first one can bring.
TokenInv ==
    /\ TokenTypeOK
    /\ OneReply
    /\ AnswersHeld
    /\ \A g, h \in Refreshers : refreshing[g].reply = "pair" /\ refreshing[h].reply = "pair" => g = h
    /\ FailedSince
    /\ TokenIsLatest
    /\ DisabledOnlyAfterWindow

\* Before Start (NewTokenRefresher) the first pair is Zalo's last.
LEMMA TokenInitial == TokenInit => TokenInv
<1> SUFFICES ASSUME TokenInit PROVE TokenInv
  OBVIOUS
<1>1. \A g \in Refreshers : refreshing[g] = Quiet
  BY DEF TokenInit
<1>2. /\ token.pair = 0 /\ token.issuedAt = 0 /\ token.firstFailureAt = -1
      /\ token.sendDisabled = FALSE
      /\ token = [f \in TokenFields |-> token[f]]
  BY DEF TokenInit, TokenFields
<1>3. /\ Quiet.pc = "none" /\ Quiet.used = 0 /\ Quiet.reply = "none"
      /\ Quiet = [f \in RefreshFields |-> Quiet[f]]
  BY DEF Quiet, RefreshFields
<1>4. /\ refreshing = [g \in Refreshers |-> refreshing[g]]
      /\ clock = 0 /\ issued = 0
  BY DEF TokenInit
<1>5. TokenTypeOK
  BY <1>1, <1>2, <1>3, <1>4 DEF TokenTypeOK
<1>6. /\ OneReply /\ AnswersHeld /\ FailedSince /\ TokenIsLatest /\ DisabledOnlyAfterWindow
      /\ \A g \in Refreshers : refreshing[g].reply # "pair"
  BY <1>1, <1>2, <1>3, <1>4 DEF OneReply, AnswersHeld, FailedSince, TokenIsLatest, DisabledOnlyAfterWindow
<1> QED
  BY <1>5, <1>6 DEF TokenInv

\* What a goroutine does outside RefreshNow, or when it reads the token to
\* start one (Start, Stop, loop), leaves the replies alone.
LEMMA QuietMoves ==
    ASSUME TokenInv, NEW g \in Refreshers, UNCHANGED <<clock, token, issued, lost, putBack>>,
           refreshing' = [refreshing EXCEPT ![g] = refreshing'[g]],
           refreshing'[g] = [f \in RefreshFields |-> refreshing'[g][f]],
           refreshing'[g].reply = refreshing[g].reply,
           \/ /\ refreshing'[g].used = refreshing[g].used
              /\ \/ refreshing'[g].pc = refreshing[g].pc
                 \/ refreshing[g].pc # "reply" /\ refreshing'[g].pc \notin {"ask", "reply"}
           \/ refreshing[g].pc # "reply" /\ refreshing'[g].used = token.pair
    PROVE  TokenInv'
<1>1. \A w \in Refreshers : w # g => refreshing'[w] = refreshing[w]
  BY DEF TokenInv, TokenTypeOK
<1>2. TokenTypeOK'
  BY <1>1 DEF TokenInv, TokenTypeOK
<1>3. refreshing[g].reply # "none" => refreshing[g].pc = "reply"
  BY DEF TokenInv, AnswersHeld
<1>4. OneReply' /\ AnswersHeld'
  BY <1>1, <1>3 DEF TokenInv, TokenTypeOK, OneReply, AnswersHeld
<1>5. TokenIsLatest'
  BY <1>1, <1>3 DEF TokenInv, TokenTypeOK, OneReply, TokenIsLatest
<1>6. FailedSince' /\ DisabledOnlyAfterWindow'
  BY DEF TokenInv, FailedSince, DisabledOnlyAfterWindow
<1>7. \A w \in Refreshers : refreshing'[w].reply = refreshing[w].reply
  BY <1>1
<1> QED
  BY <1>2, <1>4, <1>5, <1>6, <1>7 DEF TokenInv

\* Zalo answers: a new pair only for its last refresh token, which whoever has
\* asked with it still finds stored (RefreshAccessToken).
LEMMA AskKeeps ==
    ASSUME TokenInv, NEW g \in Refreshers, Ask(g)
    PROVE  TokenInv'
<1>0. /\ refreshing[g].pc = "ask" /\ refreshing[g].used \in Nat
      /\ refreshing[g].used <= issued /\ token.pair <= issued /\ issued \in Nat
      /\ token.pair \in Nat
      /\ refreshing[g].reply = "none"
      /\ clock' = clock /\ token' = token /\ putBack' = putBack
  BY DEF TokenInv, TokenTypeOK, OneReply, AnswersHeld, Ask
<1>9. /\ refreshing = [w \in Refreshers |-> refreshing[w]]
      /\ refreshing[g] = [f \in RefreshFields |-> refreshing[g][f]]
  BY DEF TokenInv, TokenTypeOK
<1>1. /\ \A w \in Refreshers : w # g => refreshing'[w] = refreshing[w]
      /\ refreshing' = [w \in Refreshers |-> refreshing'[w]]
      /\ refreshing'[g] = [f \in RefreshFields |-> refreshing'[g][f]]
      /\ refreshing'[g].pc = "reply" /\ refreshing'[g].used = refreshing[g].used
      /\ \/ refreshing'[g].reply \in {"error", "access"} /\ issued' = issued /\ lost' = lost
         \/ /\ refreshing'[g].reply = "error" /\ issued' = issued + 1 /\ lost' = TRUE
            /\ refreshing[g].used = issued
         \/ /\ refreshing'[g].reply = "pair" /\ issued' = issued + 1 /\ lost' = lost
            /\ refreshing[g].used = issued
  <2>1. \/ /\ issued' = issued + 1 /\ lost' = lost /\ refreshing[g].used = issued
           /\ \E life \in Lifetimes : refreshing' = [refreshing EXCEPT
                 ![g].pc = "reply", ![g].reply = "pair", ![g].life = life]
        \/ /\ issued' = issued + 1 /\ lost' = TRUE /\ refreshing[g].used = issued
           /\ refreshing' = [refreshing EXCEPT ![g].pc = "reply", ![g].reply = "error"]
        \/ /\ issued' = issued /\ lost' = lost
           /\ \E life \in Lifetimes : refreshing' = [refreshing EXCEPT
                 ![g].pc = "reply", ![g].reply = "access", ![g].life = life]
        \/ /\ issued' = issued /\ lost' = lost
           /\ refreshing' = [refreshing EXCEPT ![g].pc = "reply", ![g].reply = "error"]
    BY DEF Ask
  <2>2. ASSUME NEW life \in Lifetimes, NEW answer,
               refreshing' = [refreshing EXCEPT
                 ![g].pc = "reply", ![g].reply = answer, ![g].life = life]
        PROVE  /\ \A w \in Refreshers : w # g => refreshing'[w] = refreshing[w]
               /\ refreshing' = [w \in Refreshers |-> refreshing'[w]]
               /\ refreshing'[g] = [f \in RefreshFields |-> refreshing'[g][f]]
               /\ refreshing'[g].pc = "reply" /\ refreshing'[g].used = refreshing[g].used
               /\ refreshing'[g].reply = answer
    BY <1>9, <2>2 DEF RefreshFields
  <2>3. ASSUME refreshing' = [refreshing EXCEPT ![g].pc = "reply", ![g].reply = "error"]
        PROVE  /\ \A w \in Refreshers : w # g => refreshing'[w] = refreshing[w]
               /\ refreshing' = [w \in Refreshers |-> refreshing'[w]]
               /\ refreshing'[g] = [f \in RefreshFields |-> refreshing'[g][f]]
               /\ refreshing'[g].pc = "reply" /\ refreshing'[g].used = refreshing[g].used
               /\ refreshing'[g].reply = "error"
    BY <1>9, <2>3 DEF RefreshFields
  <2> QED
    BY <2>1, <2>2, <2>3
<1>2. issued' \in Nat
  BY <1>0, <1>1
<1>3. TokenTypeOK'
  BY <1>0, <1>1, <1>2 DEF TokenInv, TokenTypeOK
<1>4. FailedSince' /\ DisabledOnlyAfterWindow' /\ AnswersHeld'
  BY <1>0, <1>1 DEF TokenInv, FailedSince, DisabledOnlyAfterWindow, AnswersHeld
<1>5. CASE refreshing[g].used = issued
  <2>1. \A w \in Refreshers : refreshing[w].reply # "pair"
    BY <1>0, <1>5 DEF TokenInv, TokenTypeOK, OneReply
  <2>2. OneReply'
    BY <1>0, <1>1, <1>5, <2>1 DEF TokenInv, TokenTypeOK, OneReply
  <2>3. \A w, h \in Refreshers : refreshing'[w].reply = "pair" /\ refreshing'[h].reply = "pair" => w = h
    BY <1>1, <2>1
  <2>4. TokenIsLatest'
    BY <1>0, <1>1, <1>5, <2>1 DEF TokenInv, TokenIsLatest
  <2> QED
    BY <1>3, <1>4, <2>2, <2>3, <2>4 DEF TokenInv
<1>6. CASE refreshing[g].used # issued
  <2>1. refreshing'[g].reply # "pair" /\ issued' = issued /\ lost' = lost
    BY <1>1, <1>6
  <2>2. OneReply'
    BY <1>0, <1>1, <2>1 DEF TokenInv, TokenTypeOK, OneReply
  <2>3. \A w, h \in Refreshers : refreshing'[w].reply = "pair" /\ refreshing'[h].reply = "pair" => w = h
    BY <1>1, <2>1 DEF TokenInv
  <2>4. TokenIsLatest'
    BY <1>0, <1>1, <2>1 DEF TokenInv, TokenIsLatest
  <2> QED
    BY <1>3, <1>4, <2>2, <2>3, <2>4 DEF TokenInv
<1> QED
  BY <1>5, <1>6

\* After a reply the goroutine holds nothing of it.
LEMMA AgainClears ==
    ASSUME TokenInv, NEW g \in Refreshers, Again(g)
    PROVE  /\ \A w \in Refreshers : w # g => refreshing'[w] = refreshing[w]
           /\ refreshing' = [w \in Refreshers |-> refreshing'[w]]
           /\ refreshing'[g] = [f \in RefreshFields |-> refreshing'[g][f]]
           /\ refreshing'[g].pc \notin {"ask", "reply"}
           /\ refreshing'[g].used = 0 /\ refreshing'[g].reply = "none"
  BY DEF TokenInv, TokenTypeOK, RefreshFields, Again, Quiet

\* The refresh token is read again to be kept (RefreshNow).
LEMMA RereadKeeps ==
    ASSUME TokenInv, NEW g \in Refreshers, Reread(g)
    PROVE  TokenInv'
<1>0. /\ token.pair \in Nat /\ token.pair <= issued /\ issued \in Nat
      /\ refreshing[g].pc = "reply"
      /\ UNCHANGED <<clock, token, issued, lost, putBack>>
  BY DEF TokenInv, TokenTypeOK, OneReply, AnswersHeld, Reread
<1>1. /\ \A w \in Refreshers : w # g => refreshing'[w] = refreshing[w]
      /\ refreshing' = [w \in Refreshers |-> refreshing'[w]]
      /\ refreshing'[g] = [f \in RefreshFields |-> refreshing'[g][f]]
      /\ refreshing'[g].pc = refreshing[g].pc /\ refreshing'[g].used = token.pair
      /\ refreshing'[g].reply = "kept" /\ refreshing[g].reply = "access"
  BY DEF TokenInv, TokenTypeOK, RefreshFields, Reread
<1>2. TokenTypeOK'
  BY <1>0, <1>1 DEF TokenInv, TokenTypeOK
<1>3. OneReply'
  BY <1>0, <1>1 DEF TokenInv, TokenTypeOK, OneReply
<1>4. TokenIsLatest'
  BY <1>0, <1>1 DEF TokenInv, TokenIsLatest
<1>5. FailedSince' /\ DisabledOnlyAfterWindow' /\ AnswersHeld'
  BY <1>0, <1>1 DEF TokenInv, FailedSince, DisabledOnlyAfterWindow, AnswersHeld
<1>6. \A w, h \in Refreshers : refreshing'[w].reply = "pair" /\ refreshing'[h].reply = "pair" => w = h
  BY <1>1 DEF TokenInv
<1> QED
  BY <1>2, <1>3, <1>4, <1>5, <1>6 DEF TokenInv

\* The one new pair is stored, or the one read before is written back: over a
\* newer one, that is a token put back (onSuccess).
LEMMA OnSuccessKeeps ==
    ASSUME TokenInv, NEW g \in Refreshers, OnSuccess(g)
    PROVE  TokenInv'
<1>0. /\ token.pair \in Nat /\ refreshing[g].used \in Nat /\ issued \in Nat
      /\ refreshing[g].pc = "reply" /\ refreshing[g].used <= issued
      /\ putBack \/ refreshing[g].used <= token.pair
      /\ clock \in Nat
  BY DEF TokenInv, TokenTypeOK, OneReply, AnswersHeld, OnSuccess
<1>1. /\ token' = [f \in TokenFields |-> token'[f]]
      /\ token'.pair = Written(g) /\ token'.issuedAt = clock
      /\ token'.firstFailureAt = -1 /\ token'.sendDisabled = FALSE
      /\ clock' = clock /\ issued' = issued /\ lost' = lost
  BY <1>0 DEF OnSuccess, Renewed, TokenFields
<1>2. /\ \A w \in Refreshers : w # g => refreshing'[w] = refreshing[w]
      /\ refreshing' = [w \in Refreshers |-> refreshing'[w]]
      /\ refreshing'[g] = [f \in RefreshFields |-> refreshing'[g][f]]
      /\ refreshing'[g].pc \notin {"ask", "reply"}
      /\ refreshing'[g].used = 0 /\ refreshing'[g].reply = "none"
  BY AgainClears DEF OnSuccess
<1>3. Written(g) \in Nat /\ Written(g) <= issued
  BY <1>0 DEF Written, TokenInv, OneReply
<1>4. TokenTypeOK'
  BY <1>0, <1>1, <1>2, <1>3 DEF TokenInv, TokenTypeOK
<1>5. FailedSince' /\ DisabledOnlyAfterWindow' /\ AnswersHeld'
  BY <1>0, <1>1, <1>2 DEF TokenInv, FailedSince, DisabledOnlyAfterWindow, AnswersHeld
<1>6. \A w, h \in Refreshers : refreshing'[w].reply = "pair" /\ refreshing'[h].reply = "pair" => w = h
  BY <1>2 DEF TokenInv
<1>7. CASE refreshing[g].reply = "pair"
  <2>1. /\ token'.pair = issued /\ putBack' = FALSE
        /\ \A w \in Refreshers : w # g => refreshing[w].reply # "pair"
    BY <1>0, <1>1, <1>7 DEF TokenInv, OneReply, OnSuccess, PutsBack, Written
  <2>2. OneReply' /\ TokenIsLatest'
    BY <1>0, <1>1, <1>2, <2>1 DEF TokenInv, TokenTypeOK, OneReply, TokenIsLatest
  <2> QED
    BY <1>4, <1>5, <1>6, <2>2 DEF TokenInv
<1>8. CASE refreshing[g].reply = "kept"
  <2>1. /\ token'.pair = refreshing[g].used
        /\ putBack' = (putBack \/ refreshing[g].used < token.pair)
    BY <1>1, <1>8 DEF OnSuccess, PutsBack, Written
  <2>2. CASE putBack'
    <3>1. OneReply' /\ TokenIsLatest'
      BY <1>0, <1>1, <1>2, <1>3, <2>1, <2>2 DEF TokenInv, TokenTypeOK, OneReply, TokenIsLatest
    <3> QED
      BY <1>4, <1>5, <1>6, <3>1 DEF TokenInv
  <2>3. CASE ~putBack'
    <3>1. ~putBack /\ ~(refreshing[g].used < token.pair)
      BY <2>1, <2>3, Zenon
    <3>2. token'.pair = token.pair /\ ~putBack
      BY <1>0, <2>1, <3>1
    <3>3. OneReply'
      BY <1>0, <1>1, <1>2, <1>3, <3>2 DEF TokenInv, TokenTypeOK, OneReply
    <3>4. TokenIsLatest'
      BY <1>1, <1>2, <1>8, <3>2 DEF TokenInv, TokenIsLatest
    <3> QED
      BY <1>4, <1>5, <1>6, <3>3, <3>4 DEF TokenInv
  <2> QED
    BY <2>2, <2>3
<1> QED
  BY <1>7, <1>8 DEF OnSuccess

\* A failure keeps the token and may end sending (onFailure).
LEMMA OnFailureKeeps ==
    ASSUME TokenInv, NEW g \in Refreshers, OnFailure(g)
    PROVE  TokenInv'
<1> DEFINE first == IF token.firstFailureAt = -1 THEN clock ELSE token.firstFailureAt
<1>0. /\ token.issuedAt \in Nat /\ clock \in Nat /\ DisableS \in Nat
      /\ first \in Int /\ first >= token.issuedAt
      /\ refreshing[g].reply # "pair" /\ putBack' = putBack
  BY TokenAssumption DEF TokenInv, TokenTypeOK, FailedSince, OnFailure
<1>1. /\ token' = [f \in TokenFields |-> token'[f]]
      /\ token'.pair = token.pair /\ token'.issuedAt = token.issuedAt
      /\ token'.firstFailureAt = first
      /\ token'.sendDisabled => token.sendDisabled \/ clock - first >= DisableS
      /\ clock' = clock /\ issued' = issued /\ lost' = lost
  BY DEF TokenInv, TokenTypeOK, OnFailure, TokenFields
<1> HIDE DEF first
<1>2. /\ \A w \in Refreshers : w # g => refreshing'[w] = refreshing[w]
      /\ refreshing' = [w \in Refreshers |-> refreshing'[w]]
      /\ refreshing'[g] = [f \in RefreshFields |-> refreshing'[g][f]]
      /\ refreshing'[g].pc \notin {"ask", "reply"}
      /\ refreshing'[g].used = 0 /\ refreshing'[g].reply = "none"
  BY AgainClears DEF OnFailure
<1>3. TokenTypeOK'
  BY <1>0, <1>1, <1>2 DEF TokenInv, TokenTypeOK
<1>4. OneReply'
  BY <1>0, <1>1, <1>2 DEF TokenInv, TokenTypeOK, OneReply
<1>5. FailedSince' /\ AnswersHeld'
  BY <1>0, <1>1, <1>2 DEF TokenInv, FailedSince, AnswersHeld
<1>6. TokenIsLatest'
  BY <1>0, <1>1, <1>2 DEF TokenInv, TokenIsLatest
<1>7. DisabledOnlyAfterWindow'
  BY <1>0, <1>1 DEF TokenInv, DisabledOnlyAfterWindow
<1>8. \A w, h \in Refreshers : refreshing'[w].reply = "pair" /\ refreshing'[h].reply = "pair" => w = h
  BY <1>2 DEF TokenInv
<1> QED
  BY <1>3, <1>4, <1>5, <1>6, <1>7, <1>8 DEF TokenInv

\* Every step of the refresher, of Zalo and of time keeps the invariant.
LEMMA TokenStep == TokenInv /\ [TokenNext]_tokenVars => TokenInv'
<1> SUFFICES ASSUME TokenInv, [TokenNext]_tokenVars PROVE TokenInv'
  OBVIOUS
<1>1. CASE Tick
  <2>1. /\ clock' = clock + 1 /\ clock' \in Nat
        /\ token' = token /\ refreshing' = refreshing
        /\ UNCHANGED <<issued, lost, putBack>>
    BY <1>1 DEF TokenInv, TokenTypeOK, Tick
  <2>2. TokenTypeOK' /\ OneReply' /\ AnswersHeld' /\ TokenIsLatest'
    BY <2>1 DEF TokenInv, TokenTypeOK, OneReply, AnswersHeld, TokenIsLatest
  <2>3. FailedSince' /\ DisabledOnlyAfterWindow'
    BY <2>1, TokenAssumption DEF TokenInv, TokenTypeOK, FailedSince, DisabledOnlyAfterWindow
  <2> QED
    BY <2>1, <2>2, <2>3 DEF TokenInv
<1>2. CASE StopLoop
  <2>1. CASE current \in Refreshers
    <3>1. /\ UNCHANGED <<clock, token, issued, lost, putBack>>
          /\ refreshing' = [refreshing EXCEPT ![current] = refreshing'[current]]
          /\ refreshing'[current] = [f \in RefreshFields |-> refreshing'[current][f]]
          /\ refreshing'[current].reply = refreshing[current].reply
          /\ refreshing'[current].used = refreshing[current].used
          /\ refreshing'[current].pc = refreshing[current].pc
      BY <1>2, <2>1 DEF TokenInv, TokenTypeOK, RefreshFields, StopLoop
    <3> QED
      BY <2>1, <3>1, QuietMoves
  <2>2. CASE current \notin Refreshers
    <3>1. UNCHANGED <<clock, token, issued, lost, putBack, refreshing>>
      BY <1>2, <2>2 DEF TokenInv, TokenTypeOK, StopLoop
    <3> QED
      BY <3>1 DEF TokenInv, TokenTypeOK, OneReply, AnswersHeld, FailedSince, TokenIsLatest, DisabledOnlyAfterWindow
  <2> QED
    BY <2>1, <2>2
<1>3. CASE StopDone
  BY <1>3 DEF StopDone, TokenInv, TokenTypeOK, OneReply, AnswersHeld, FailedSince, TokenIsLatest,
              DisabledOnlyAfterWindow
<1>4. ASSUME NEW g \in Refreshers, Start(g) \/ Sleep(g) \/ Wake(g) \/ RefreshNow(g)
      PROVE  TokenInv'
  <2>1. UNCHANGED <<clock, token, issued, lost, putBack>>
    BY <1>4 DEF Start, Sleep, Wake, RefreshNow
  <2>2. /\ refreshing = [w \in Refreshers |-> refreshing[w]]
        /\ refreshing[g] = [f \in RefreshFields |-> refreshing[g][f]]
    BY DEF TokenInv, TokenTypeOK
  <2>3. refreshing[g].pc # "reply"
    BY <1>4 DEF Start, Sleep, Wake, RefreshNow
  <2>4. \/ \E p \in {"loop", "ended"} : refreshing' = [refreshing EXCEPT ![g].pc = p]
        \/ refreshing' = [refreshing EXCEPT ![g].pc = "sleep", ![g].until = clock + NextWaitS]
        \/ refreshing' = [refreshing EXCEPT ![g].pc = "ask", ![g].used = token.pair]
    <3>1. CASE Start(g)
      BY <3>1 DEF Start
    <3>2. CASE Sleep(g)
      BY <3>2 DEF Sleep
    <3>3. CASE Wake(g)
      BY <3>3 DEF Wake
    <3>4. CASE RefreshNow(g)
      BY <3>4 DEF RefreshNow
    <3> QED
      BY <1>4, <3>1, <3>2, <3>3, <3>4
  <2>5. ASSUME NEW p \in {"loop", "ended"}, refreshing' = [refreshing EXCEPT ![g].pc = p]
        PROVE  TokenInv'
    <3>1. /\ refreshing' = [refreshing EXCEPT ![g] = refreshing'[g]]
          /\ refreshing'[g] = [f \in RefreshFields |-> refreshing'[g][f]]
          /\ refreshing'[g].reply = refreshing[g].reply
          /\ refreshing'[g].used = refreshing[g].used /\ refreshing'[g].pc \notin {"ask", "reply"}
      BY <2>2, <2>5 DEF RefreshFields
    <3> QED
      BY <2>1, <2>3, <3>1, QuietMoves
  <2>6. ASSUME NEW u, refreshing' = [refreshing EXCEPT ![g].pc = "sleep", ![g].until = u]
        PROVE  TokenInv'
    <3>1. /\ refreshing' = [refreshing EXCEPT ![g] = refreshing'[g]]
          /\ refreshing'[g] = [f \in RefreshFields |-> refreshing'[g][f]]
          /\ refreshing'[g].reply = refreshing[g].reply
          /\ refreshing'[g].used = refreshing[g].used /\ refreshing'[g].pc \notin {"ask", "reply"}
      BY <2>2, <2>6 DEF RefreshFields
    <3> QED
      BY <2>1, <2>3, <3>1, QuietMoves
  <2>7. ASSUME refreshing' = [refreshing EXCEPT ![g].pc = "ask", ![g].used = token.pair]
        PROVE  TokenInv'
    <3>1. /\ refreshing' = [refreshing EXCEPT ![g] = refreshing'[g]]
          /\ refreshing'[g] = [f \in RefreshFields |-> refreshing'[g][f]]
          /\ refreshing'[g].reply = refreshing[g].reply
          /\ refreshing'[g].used = token.pair
      BY <2>2, <2>7 DEF RefreshFields
    <3> QED
      BY <2>1, <2>3, <3>1, QuietMoves
  <2> QED
    BY <2>4, <2>5, <2>6, <2>7
<1>5. CASE UNCHANGED tokenVars
  BY <1>5 DEF tokenVars, TokenInv, TokenTypeOK, OneReply, AnswersHeld, FailedSince, TokenIsLatest,
              DisabledOnlyAfterWindow
<1> QED
  BY <1>1, <1>2, <1>3, <1>4, <1>5, AskKeeps, RereadKeeps, OnSuccessKeeps, OnFailureKeeps
  DEF TokenNext, Refreshers

\* For any loops, manual refreshes, durations, lifetimes and backoff.
THEOREM TokenInvariance == TokenSpec => []TokenInv
  BY TokenInitial, TokenStep, PTL DEF TokenSpec

\* However refreshes overlap, the refresher ends up with a token that Zalo has
\* replaced only if a reply was lost, or if a refresh answered without a refresh
\* token wrote an older one back (RefreshNow, onSuccess).
THEOREM LatestTokenKept == TokenSpec => []TokenIsLatest
<1>1. TokenInv => TokenIsLatest
  BY DEF TokenInv
<1> QED
  BY <1>1, TokenInvariance, PTL

\* Sends are refused only when no refresh has succeeded for the whole window
\* (onFailure, SendOutgoing).
THEOREM SendsStopAfterWindow == TokenSpec => []DisabledOnlyAfterWindow
<1>1. TokenInv => DisabledOnlyAfterWindow
  BY DEF TokenInv
<1> QED
  BY <1>1, TokenInvariance, PTL

-----------------------------------------------------------------------------
(***************************************************************************)
(* Migration: migrations are applied in order by any number of runners,    *)
(* with any numbers of files.                                              *)
(***************************************************************************)
Steps == {"start", "loop", "open", "done", "error"}
MigrationTypeOK ==
    /\ ledger \subseteq Nat
    /\ schema \in Seq(Nat)
    /\ runner \in [Runners -> [pc : Steps, applied : SUBSET Nat, file : Nat \ {0}, ran : Seq(Nat)]]

\* What a runner has passed, or has read as applied, is in the ledger, which
\* never loses a version: so the next version it commits extends a prefix.
PassedInLedger == \A u \in Runners :
    /\ runner[u].applied \subseteq ledger
    /\ runner[u].pc \in {"start", "loop", "open"} => 1 .. runner[u].file - 1 \subseteq ledger

\* The ledger's row is committed with the migration.
LedgerInSchema == \A v \in ledger : \E j \in DOMAIN schema : schema[j] = v

PrefixLedger == \A v \in ledger : 1 .. v \subseteq ledger
OrderedSchema == \A i \in DOMAIN schema : \A v \in 1 .. schema[i] - 1 :
    \E j \in 1 .. i - 1 : schema[j] = v
DoneApplied == \A u \in Runners : runner[u].pc = "done" => 1 .. Newest[u] \subseteq ledger

MigrationInv ==
    /\ MigrationTypeOK
    /\ PassedInLedger
    /\ LedgerInSchema
    /\ PrefixLedger
    /\ OrderedSchema
    /\ DoneApplied

\* A runner that begins with the files has passed none (MigrationInit).
LEMMA MigrationInitial == MigrationInit => MigrationInv
<1> SUFFICES ASSUME MigrationInit PROVE MigrationInv
  OBVIOUS
<1>1. MigrationTypeOK
  BY DEF MigrationInit, MigrationTypeOK, Steps
<1>2. PassedInLedger /\ DoneApplied
  BY DEF MigrationInit, PassedInLedger, DoneApplied
<1>3. LedgerInSchema /\ PrefixLedger /\ OrderedSchema
  BY DEF MigrationInit, LedgerInSchema, PrefixLedger, OrderedSchema
<1> QED
  BY <1>1, <1>2, <1>3 DEF MigrationInv

\* Only a commit (applyOne) changes ledger and schema: it adds the version
\* after a prefix that the ledger already has.
LEMMA CommitKeeps ==
    ASSUME MigrationInv, NEW u \in Runners, Commit(u)
    PROVE  MigrationInv'
<1> DEFINE f == runner[u].file
<1>0. /\ f \in Nat \ {0}
      /\ 1 .. f - 1 \subseteq ledger
      /\ schema' = Append(schema, f)
      /\ ledger' = ledger \union {f}
      /\ runner' = [runner EXCEPT ![u].pc = "loop", ![u].file = f + 1,
                                  ![u].ran = Append(@, f)]
  BY DEF MigrationInv, MigrationTypeOK, PassedInLedger, Commit
<1>1. MigrationTypeOK'
  BY <1>0, SMTT(30) DEF MigrationInv, MigrationTypeOK, Steps
<1>2. PassedInLedger'
  <2> SUFFICES ASSUME NEW w \in Runners
               PROVE  /\ runner'[w].applied \subseteq ledger'
                      /\ runner'[w].pc \in {"start", "loop", "open"} => 1 .. runner'[w].file - 1 \subseteq ledger'
    BY DEF PassedInLedger
  <2>1. CASE w = u
    <3>1. /\ runner'[u].applied = runner[u].applied
          /\ runner'[u].file = f + 1
      BY <1>0 DEF MigrationInv, MigrationTypeOK
    <3>2. 1 .. f \subseteq ledger' /\ (f + 1) - 1 = f
      BY <1>0
    <3>3. runner[u].applied \subseteq ledger'
      BY <1>0 DEF MigrationInv, PassedInLedger
    <3> HIDE DEF f
    <3> QED
      BY <2>1, <3>1, <3>2, <3>3
  <2>2. CASE w # u
    BY <1>0, <2>2 DEF MigrationInv, MigrationTypeOK, PassedInLedger
  <2> QED
    BY <2>1, <2>2
<1>3. LedgerInSchema'
  <2> SUFFICES ASSUME NEW v \in ledger'
               PROVE  \E j \in DOMAIN schema' : schema'[j] = v
    BY DEF LedgerInSchema
  <2>1. CASE v = f
    <3>1. Len(schema) + 1 \in DOMAIN schema' /\ schema'[Len(schema) + 1] = f
      BY <1>0 DEF MigrationInv, MigrationTypeOK
    <3> QED
      BY <2>1, <3>1
  <2>2. CASE v \in ledger
    <3>1. PICK j \in DOMAIN schema : schema[j] = v
      BY <2>2 DEF MigrationInv, LedgerInSchema
    <3>2. j \in DOMAIN schema' /\ schema'[j] = schema[j]
      BY <1>0 DEF MigrationInv, MigrationTypeOK
    <3> QED
      BY <3>1, <3>2
  <2> QED
    BY <1>0, <2>1, <2>2
<1>4. PrefixLedger'
  <2> SUFFICES ASSUME NEW v \in ledger' PROVE 1 .. v \subseteq ledger'
    BY DEF PrefixLedger
  <2>1. CASE v = f
    BY <1>0, <2>1
  <2>2. CASE v \in ledger
    BY <1>0, <2>2 DEF MigrationInv, PrefixLedger
  <2> QED
    BY <1>0, <2>1, <2>2
<1>5. OrderedSchema'
  <2> SUFFICES ASSUME NEW i \in DOMAIN schema', NEW v \in 1 .. schema'[i] - 1
               PROVE  \E j \in 1 .. i - 1 : schema'[j] = v
    BY DEF OrderedSchema
  <2>1. /\ DOMAIN schema = 1 .. Len(schema)
        /\ Len(schema) \in Nat
        /\ DOMAIN schema' = 1 .. Len(schema) + 1
        /\ \A k \in DOMAIN schema : schema'[k] = schema[k]
        /\ schema'[Len(schema) + 1] = f
    BY <1>0, SMTT(30) DEF MigrationInv, MigrationTypeOK
  <2>2. CASE i \in DOMAIN schema
    <3>1. PICK j \in 1 .. i - 1 : schema[j] = v
      BY <2>1, <2>2 DEF MigrationInv, OrderedSchema
    <3>2. j \in DOMAIN schema
      BY <2>1, <2>2
    <3> QED
      BY <2>1, <3>1, <3>2
  <2>3. CASE i = Len(schema) + 1
    <3>1. v \in ledger
      BY <1>0, <2>1, <2>3
    <3>2. PICK j \in DOMAIN schema : schema[j] = v
      BY <3>1 DEF MigrationInv, LedgerInSchema
    <3>3. j \in 1 .. i - 1
      BY <2>1, <2>3
    <3> QED
      BY <2>1, <3>2, <3>3
  <2> QED
    BY <2>1, <2>2, <2>3
<1>6. DoneApplied'
  <2>1. \A w \in Runners : runner'[w].pc = "done" => runner[w].pc = "done"
    BY <1>0 DEF MigrationInv, MigrationTypeOK
  <2> QED
    BY <1>0, <2>1 DEF MigrationInv, DoneApplied
<1> QED
  BY <1>1, <1>2, <1>3, <1>4, <1>5, <1>6 DEF MigrationInv

\* The other steps (Up, and the end of a failed run) move one runner.
LEMMA OthersKeep ==
    ASSUME MigrationInv, NEW u \in Runners,
           ReadLedger(u) \/ Skip(u) \/ Begin(u) \/ Rollback(u) \/ Finish(u) \/ Rerun(u)
    PROVE  MigrationInv'
<1>0. UNCHANGED <<ledger, schema>>
  BY DEF ReadLedger, Skip, Begin, Rollback, Finish, Rerun
<1>1. LedgerInSchema' /\ PrefixLedger' /\ OrderedSchema'
  BY <1>0 DEF MigrationInv, LedgerInSchema, PrefixLedger, OrderedSchema
<1>2. /\ MigrationTypeOK'
      /\ \A w \in Runners : w # u => runner'[w] = runner[w]
  <2>1. CASE ReadLedger(u)
    <3>1. ledger \in SUBSET Nat /\ "loop" \in Steps /\ "error" \in Steps
      BY DEF MigrationInv, MigrationTypeOK, Steps
    <3>2. CASE runner' = [runner EXCEPT ![u].pc = "loop", ![u].applied = ledger]
      BY <1>0, <3>1, <3>2 DEF MigrationInv, MigrationTypeOK
    <3>3. CASE runner' = [runner EXCEPT ![u].pc = "error"]
      BY <1>0, <3>1, <3>3 DEF MigrationInv, MigrationTypeOK
    <3> QED
      BY <2>1, <3>2, <3>3 DEF ReadLedger
  <2>2. CASE Skip(u)
    <3>1. runner[u].file + 1 \in Nat \ {0}
      BY DEF MigrationInv, MigrationTypeOK
    <3>2. runner' = [runner EXCEPT ![u].file = runner[u].file + 1]
      BY <2>2 DEF Skip
    <3> QED
      BY <1>0, <3>1, <3>2 DEF MigrationInv, MigrationTypeOK
  <2>3. CASE Begin(u) \/ Rollback(u) \/ Finish(u)
    <3>1. PICK p \in {"open", "error", "done"} : runner' = [runner EXCEPT ![u].pc = p]
      BY <2>3 DEF Begin, Rollback, Finish
    <3>2. p \in Steps
      BY DEF Steps
    <3> QED
      BY <1>0, <3>1, <3>2 DEF MigrationInv, MigrationTypeOK
  <2>4. CASE Rerun(u)
    <3> DEFINE fresh == [pc |-> "start", applied |-> {}, file |-> 1, ran |-> <<>>]
    <3>1. fresh \in [pc : Steps, applied : SUBSET Nat, file : Nat \ {0}, ran : Seq(Nat)]
      BY DEF Steps
    <3>2. runner' = [runner EXCEPT ![u] = fresh]
      BY <2>4 DEF Rerun
    <3> HIDE DEF fresh
    <3> QED
      BY <1>0, <3>1, <3>2 DEF MigrationInv, MigrationTypeOK
  <2> QED
    BY <2>1, <2>2, <2>3, <2>4
<1>3. /\ runner'[u].applied \subseteq ledger
      /\ runner'[u].pc \in {"start", "loop", "open"} => 1 .. runner'[u].file - 1 \subseteq ledger
  <2>1. CASE ReadLedger(u)
    BY <2>1 DEF MigrationInv, MigrationTypeOK, PassedInLedger, ReadLedger
  <2>2. CASE Skip(u)
    <3>1. /\ runner'[u].applied = runner[u].applied
          /\ runner'[u].file = runner[u].file + 1
          /\ runner[u].file \in Nat \ {0}
      BY <2>2 DEF MigrationInv, MigrationTypeOK, Skip
    <3>2. runner[u].file \in ledger
      BY <2>2 DEF MigrationInv, PassedInLedger, Skip
    <3>3. 1 .. runner[u].file \subseteq ledger
      BY <3>2 DEF MigrationInv, PrefixLedger
    <3> QED
      BY <3>1, <3>3 DEF MigrationInv, PassedInLedger
  <2>3. CASE Begin(u)
    BY <2>3 DEF MigrationInv, MigrationTypeOK, PassedInLedger, Begin
  <2>4. CASE Rollback(u) \/ Finish(u)
    BY <2>4, ZenonT(60) DEF MigrationInv, MigrationTypeOK, PassedInLedger, Rollback, Finish
  <2>5. CASE Rerun(u)
    BY <2>5 DEF MigrationInv, MigrationTypeOK, PassedInLedger, Rerun
  <2> QED
    BY <2>1, <2>2, <2>3, <2>4, <2>5
<1>4. PassedInLedger'
  BY <1>0, <1>2, <1>3 DEF MigrationInv, PassedInLedger
<1>5. runner'[u].pc = "done" => 1 .. Newest[u] \subseteq ledger
  <2>1. CASE Finish(u)
    <3>1. /\ 1 .. runner[u].file - 1 \subseteq ledger
          /\ runner[u].file \in Nat
          /\ runner[u].file > Newest[u]
          /\ Newest[u] \in Nat
      BY <2>1, MigrationAssumption DEF MigrationInv, MigrationTypeOK, PassedInLedger, Finish
    <3> QED
      BY <3>1
  <2>2. CASE ReadLedger(u) \/ Skip(u) \/ Begin(u) \/ Rollback(u) \/ Rerun(u)
    BY <2>2 DEF MigrationInv, MigrationTypeOK, ReadLedger, Skip, Begin, Rollback, Rerun
  <2> QED
    BY <2>1, <2>2
<1>6. DoneApplied'
  BY <1>0, <1>2, <1>5 DEF MigrationInv, DoneApplied
<1> QED
  BY <1>1, <1>2, <1>4, <1>6 DEF MigrationInv

\* The inductive invariant holds for every set of runners and every number of
\* files (Up, run by several processes).
THEOREM MigrationInvariance == MigrationSpec => []MigrationInv
<1>1. MigrationInit => MigrationInv
  BY MigrationInitial
<1>2. MigrationInv /\ [MigrationNext]_migrationVars => MigrationInv'
  <2> SUFFICES ASSUME MigrationInv, [MigrationNext]_migrationVars PROVE MigrationInv'
    OBVIOUS
  <2>1. CASE MigrationNext
    BY <2>1, CommitKeeps, OthersKeep DEF MigrationNext
  <2>2. CASE UNCHANGED migrationVars
    <3>1. ledger' = ledger /\ schema' = schema /\ runner' = runner
      BY <2>2 DEF migrationVars
    <3> QED
      BY <3>1, ZenonT(60) DEF MigrationInv, MigrationTypeOK, PassedInLedger, LedgerInSchema,
                  PrefixLedger, OrderedSchema, DoneApplied
  <2> QED
    BY <2>1, <2>2
<1> QED
  BY <1>1, <1>2, PTL DEF MigrationSpec

\* However many runners overlap, fail and are run again, and whatever number of
\* files each embeds, versions are first applied in order and success means
\* that all of a runner's files are applied (Up, applyOne).
THEOREM AppliedInOrder == MigrationSpec => []MigratedInOrder
<1>1. MigrationInv => MigratedInOrder
  BY DEF MigrationInv, PrefixLedger, OrderedSchema, DoneApplied, MigratedInOrder
<1> QED
  BY <1>1, MigrationInvariance, PTL

-----------------------------------------------------------------------------
(***************************************************************************)
(* ProviderHealth: what a snapshot counts, for any number of goroutines,   *)
(* any thresholds and any order of clock reads and appends.                *)
(***************************************************************************)
Samples == [at : Nat, failed : BOOLEAN, recorded : Nat]

\* Eviction drops nothing that is young; the clock a goroutine has read is not
\* ahead; samples stand in the order of their appends, and have been recorded.
HealthInv ==
    /\ now \in Nat /\ samples \in Seq(Samples) /\ history \in Seq(Samples)
    /\ DOMAIN caller = Callers
    /\ \A c \in Callers : caller[c].now \in Nat /\ caller[c].now <= now
    /\ \A i \in DOMAIN history :
          history[i].at >= now - WindowSeconds => \E j \in DOMAIN samples : samples[j] = history[i]
    /\ \A j \in DOMAIN samples :
          /\ \E i \in DOMAIN history : history[i] = samples[j]
          /\ samples[j].at <= samples[j].recorded /\ samples[j].recorded <= now
          /\ \A k \in DOMAIN samples : j <= k => samples[j].recorded <= samples[k].recorded

\* A set of numbers that is not empty has a least one: evictLocked stops there.
LEMMA LeastIndex ==
    ASSUME NEW T \in SUBSET Nat, T # {}
    PROVE  \E m \in T : \A k \in T : m <= k
<1>1. PICK m \in T : \A k \in T : <<k, m>> \notin OpToRel(<, Nat)
  BY WFMin, NatLessThanWellFounded
<1>2. \A k \in T : ~(k < m)
  BY <1>1 DEF OpToRel
<1>. QED BY <1>2

\* What a sample of the tracker's list is.
LEMMA SampleLists ==
    ASSUME NEW ss \in Seq(Samples)
    PROVE  /\ Len(ss) \in Nat /\ DOMAIN ss = 1..Len(ss)
           /\ \A i \in DOMAIN ss : ss[i] \in Samples /\ ss[i].at \in Nat /\ ss[i].recorded \in Nat
<1>1. Len(ss) \in Nat /\ DOMAIN ss = 1..Len(ss)
  BY LenProperties
<1>2. \A i \in 1..Len(ss) : ss[i] \in Samples
  BY ElementOfSeq
<1>. QED BY <1>1, <1>2 DEF Samples

\* evictLocked drops the samples before the first that is young enough.
LEMMA EvictDropsPrefix ==
    ASSUME NEW ss \in Seq(Samples), NEW t \in Nat
    PROVE  /\ Evict(ss, t) \in Seq(Samples)
           /\ \E d \in 0..Len(ss) :
                 /\ Len(Evict(ss, t)) = Len(ss) - d
                 /\ \A i \in 1..(Len(ss) - d) : Evict(ss, t)[i] = ss[i + d]
                 /\ \A i \in 1..d : ss[i].at < t - WindowSeconds
           /\ Len(Evict(ss, t)) > 0 => Evict(ss, t)[1].at >= t - WindowSeconds
<1>. DEFINE young == {i \in DOMAIN ss : ss[i].at >= t - WindowSeconds}
<1>1. /\ Len(ss) \in Nat /\ DOMAIN ss = 1..Len(ss) /\ WindowSeconds \in Nat
      /\ \A i \in 1..Len(ss) : ss[i] \in Samples /\ ss[i].at \in Nat
  BY SampleLists, HealthAssumption
<1>2. CASE young = {}
  <2>1. Evict(ss, t) = <<>>
    BY <1>2 DEF Evict
  <2>2. \A i \in 1..Len(ss) : ss[i].at < t - WindowSeconds
    BY <1>1, <1>2
  <2>3. <<>> \in Seq(Samples) /\ Len(<<>>) = 0
    BY EmptySeq
  <2>4. Len(ss) \in 0..Len(ss) /\ Len(ss) - Len(ss) = 0 /\ 1..0 = {}
    BY <1>1
  <2>. QED BY <2>1, <2>2, <2>3, <2>4
<1>3. CASE young # {}
  <2>. DEFINE m == CHOOSE i \in young : \A j \in young : i <= j
  <2>1. m \in young /\ \A j \in young : m <= j
    <3>1. \E i \in young : \A j \in young : i <= j
      <4>1. young \in SUBSET Nat
        BY <1>1
      <4>. HIDE DEF young
      <4>. QED BY <1>3, <4>1, LeastIndex
    <3>. QED BY <3>1
  <2>2. Evict(ss, t) = SubSeq(ss, m, Len(ss))
    BY <1>3 DEF Evict
  <2>. HIDE DEF m
  <2>3. m \in 1..Len(ss) /\ ss[m].at >= t - WindowSeconds
    BY <1>1, <2>1
  <2>4. /\ SubSeq(ss, m, Len(ss)) \in Seq(Samples)
        /\ Len(SubSeq(ss, m, Len(ss))) = Len(ss) - m + 1
        /\ \A i \in 1..(Len(ss) - m + 1) : SubSeq(ss, m, Len(ss))[i] = ss[m + i - 1]
    BY <1>1, <2>3, SubSeqProperties
  <2>5. \A i \in 1..(m - 1) : ss[i].at < t - WindowSeconds
    BY <1>1, <2>1, <2>3
  <2>6. /\ m - 1 \in 0..Len(ss) /\ Len(ss) - (m - 1) = Len(ss) - m + 1
        /\ \A i \in 1..(Len(ss) - m + 1) : m + i - 1 = i + (m - 1)
        /\ m + 1 - 1 = m /\ 1 \in 1..(Len(ss) - m + 1)
    BY <1>1, <2>3
  <2>7. \E d \in 0..Len(ss) :
           /\ Len(Evict(ss, t)) = Len(ss) - d
           /\ \A i \in 1..(Len(ss) - d) : Evict(ss, t)[i] = ss[i + d]
           /\ \A i \in 1..d : ss[i].at < t - WindowSeconds
    <3>1. \A i \in 1..(Len(ss) - m + 1) : SubSeq(ss, m, Len(ss))[i] = ss[i + (m - 1)]
      BY <2>4, <2>6
    <3>. DEFINE d == m - 1
    <3>2. /\ d \in 0..Len(ss) /\ Len(Evict(ss, t)) = Len(ss) - d
          /\ \A i \in 1..(Len(ss) - d) : Evict(ss, t)[i] = ss[i + d]
          /\ \A i \in 1..d : ss[i].at < t - WindowSeconds
      BY <2>2, <2>4, <2>5, <2>6, <3>1
    <3>. HIDE DEF d
    <3>. QED BY <3>2
  <2>8. Evict(ss, t)[1] = ss[m]
    BY <2>2, <2>4, <2>6
  <2>. QED BY <2>2, <2>3, <2>4, <2>7, <2>8
<1>. QED BY <1>2, <1>3

\* What HealthInv says of a list of samples at time n, when all that has been
\* recorded is hist.
Sound(ss, hist, n) ==
    /\ ss \in Seq(Samples)
    /\ \A i \in DOMAIN hist :
          hist[i].at >= n - WindowSeconds => \E j \in DOMAIN ss : ss[j] = hist[i]
    /\ \A j \in DOMAIN ss :
          /\ \E i \in DOMAIN hist : hist[i] = ss[j]
          /\ ss[j].at <= ss[j].recorded /\ ss[j].recorded <= n
          /\ \A k \in DOMAIN ss : j <= k => ss[j].recorded <= ss[k].recorded

\* Eviction at a time that is not ahead of the clock keeps the list sound, and
\* leaves nothing that was recorded before the window.
LEMMA EvictSound ==
    ASSUME NEW ss, NEW hist \in Seq(Samples), NEW n \in Nat, Sound(ss, hist, n),
           NEW t \in Nat, t <= n
    PROVE  /\ Sound(Evict(ss, t), hist, n)
           /\ \A j \in DOMAIN Evict(ss, t) : Evict(ss, t)[j].recorded >= t - WindowSeconds
<1>. DEFINE e == Evict(ss, t)
<1>1. /\ ss \in Seq(Samples) /\ Len(ss) \in Nat /\ DOMAIN ss = 1..Len(ss)
      /\ WindowSeconds \in Nat
  BY LenProperties, HealthAssumption DEF Sound
<1>2. /\ e \in Seq(Samples)
      /\ Len(e) > 0 => e[1].at >= t - WindowSeconds
  BY <1>1, EvictDropsPrefix
<1>3. PICK d \in 0..Len(ss) :
         /\ Len(e) = Len(ss) - d
         /\ \A i \in 1..(Len(ss) - d) : e[i] = ss[i + d]
         /\ \A i \in 1..d : ss[i].at < t - WindowSeconds
  BY <1>1, EvictDropsPrefix
<1>. HIDE DEF e
<1>4. /\ DOMAIN e = 1..Len(e) /\ Len(e) \in Nat
      /\ \A i \in 1..Len(e) : e[i] \in Samples /\ e[i].at \in Nat /\ e[i].recorded \in Nat
  BY <1>2, SampleLists
<1>5. \A i \in DOMAIN e : i + d \in DOMAIN ss /\ e[i] = ss[i + d]
  BY <1>1, <1>3, <1>4
<1>6. ASSUME NEW i \in DOMAIN hist, hist[i].at >= n - WindowSeconds
      PROVE  \E j \in DOMAIN e : e[j] = hist[i]
  <2>1. PICK j \in DOMAIN ss : ss[j] = hist[i]
    BY <1>6 DEF Sound
  <2>2. hist[i].at \in Nat
    BY SampleLists
  <2>3. j \notin 1..d
    BY <1>1, <1>3, <1>6, <2>1, <2>2
  <2>4. j - d \in DOMAIN e /\ (j - d) + d = j
    BY <1>1, <1>3, <1>4, <2>3
  <2>. QED BY <1>5, <2>1, <2>4
<1>7. \A j \in DOMAIN e :
         /\ \E i \in DOMAIN hist : hist[i] = e[j]
         /\ e[j].at <= e[j].recorded /\ e[j].recorded <= n
  BY <1>5 DEF Sound
<1>8. ASSUME NEW j \in DOMAIN e, NEW k \in DOMAIN e, j <= k PROVE e[j].recorded <= e[k].recorded
  <2>1. j + d <= k + d
    BY <1>3, <1>4, <1>8
  <2>. QED BY <1>5, <2>1 DEF Sound
<1>9. ASSUME NEW j \in DOMAIN e PROVE e[j].recorded >= t - WindowSeconds
  <2>1. 1 \in DOMAIN e /\ 1 <= j /\ Len(e) > 0
    BY <1>4
  <2>2. e[1].at >= t - WindowSeconds /\ e[1].at <= e[1].recorded /\ e[1].recorded <= e[j].recorded
    BY <1>2, <1>7, <1>8, <2>1
  <2>. QED BY <1>1, <1>4, <2>1, <2>2
<1>10. Sound(e, hist, n)
  BY <1>2, <1>6, <1>7, <1>8 DEF Sound
<1>. QED BY <1>9, <1>10 DEF e

\* A sample that is appended is the last to be recorded.
LEMMA AppendSound ==
    ASSUME NEW ss, NEW hist \in Seq(Samples), NEW n \in Nat, Sound(ss, hist, n),
           NEW s \in Samples, s.at <= n, s.recorded = n
    PROVE  Sound(Append(ss, s), Append(hist, s), n)
<1>1. /\ ss \in Seq(Samples) /\ Len(ss) \in Nat /\ DOMAIN ss = 1..Len(ss)
      /\ Len(hist) \in Nat /\ DOMAIN hist = 1..Len(hist)
  BY LenProperties DEF Sound
<1>2. /\ Append(ss, s) \in Seq(Samples) /\ DOMAIN Append(ss, s) = 1..(Len(ss) + 1)
      /\ \A i \in 1..Len(ss) : Append(ss, s)[i] = ss[i]
      /\ Append(ss, s)[Len(ss) + 1] = s
  BY <1>1, AppendProperties, LenProperties
<1>3. /\ DOMAIN Append(hist, s) = 1..(Len(hist) + 1)
      /\ \A i \in 1..Len(hist) : Append(hist, s)[i] = hist[i]
      /\ Append(hist, s)[Len(hist) + 1] = s
  BY <1>1, AppendProperties, LenProperties
<1>. DEFINE as == Append(ss, s)
            ah == Append(hist, s)
<1>. HIDE DEF as, ah
<1>4. ASSUME NEW i \in DOMAIN ah, ah[i].at >= n - WindowSeconds
      PROVE  \E j \in DOMAIN as : as[j] = ah[i]
  <2>1. CASE i \in 1..Len(hist)
    <3>1. PICK j \in DOMAIN ss : ss[j] = hist[i]
      BY <1>1, <1>3, <1>4, <2>1 DEF Sound, ah
    <3>2. j \in DOMAIN as /\ as[j] = ah[i]
      BY <1>1, <1>2, <1>3, <2>1, <3>1 DEF as, ah
    <3>. QED BY <3>2
  <2>2. CASE i = Len(hist) + 1
    <3>1. Len(ss) + 1 \in DOMAIN as /\ as[Len(ss) + 1] = ah[i]
      BY <1>1, <1>2, <1>3, <2>2 DEF as, ah
    <3>. QED BY <3>1
  <2>3. i \in 1..Len(hist) \/ i = Len(hist) + 1
    BY <1>1, <1>3 DEF ah
  <2>. QED BY <2>1, <2>2, <2>3
<1>5. ASSUME NEW j \in DOMAIN as
      PROVE  /\ \E i \in DOMAIN ah : ah[i] = as[j]
             /\ as[j].at <= as[j].recorded /\ as[j].recorded <= n
             /\ \A k \in DOMAIN as : j <= k => as[j].recorded <= as[k].recorded
  <2>1. CASE j \in 1..Len(ss)
    <3>1. PICK i \in DOMAIN hist : hist[i] = ss[j]
      BY <1>1, <2>1 DEF Sound
    <3>2. i \in DOMAIN ah /\ ah[i] = as[j]
      BY <1>1, <1>2, <1>3, <2>1, <3>1 DEF as, ah
    <3>3. as[j].at <= as[j].recorded /\ as[j].recorded <= n
      BY <1>1, <1>2, <2>1 DEF Sound, as
    <3>4. \A k \in DOMAIN as : k \in 1..Len(ss) \/ (k = Len(ss) + 1 /\ as[k].recorded = n)
      BY <1>1, <1>2 DEF as
    <3>5. \A k \in DOMAIN as : j <= k => as[j].recorded <= as[k].recorded
      BY <1>1, <1>2, <2>1, <3>3, <3>4 DEF Sound, as
    <3>. QED BY <3>2, <3>3, <3>5
  <2>2. CASE j = Len(ss) + 1
    <3>1. as[j] = s /\ ah[Len(hist) + 1] = s /\ Len(hist) + 1 \in DOMAIN ah
      BY <1>1, <1>2, <1>3, <2>2 DEF as, ah
    <3>2. \A k \in DOMAIN as : j <= k => k = j
      BY <1>1, <1>2, <2>2 DEF as
    <3>3. \E i \in DOMAIN ah : ah[i] = as[j]
      BY <3>1
    <3>4. as[j].at <= as[j].recorded /\ as[j].recorded <= n /\ as[j].recorded <= as[j].recorded
      BY <3>1
    <3>. QED BY <3>2, <3>3, <3>4
  <2>. QED BY <1>1, <1>2, <2>1, <2>2 DEF as
<1>. QED BY <1>2, <1>4, <1>5 DEF Sound, as, ah

\* Between any calls of the tracker, what it keeps is sound.
LEMMA HealthInitial == HealthInit => HealthInv
<1>1. <<>> \in Seq(Samples) /\ DOMAIN <<>> = {}
  BY EmptySeq, LenProperties
<1>. QED BY <1>1 DEF HealthInit, HealthInv, Resting

LEMMA HealthKept == HealthInv /\ [HealthNext]_healthVars => HealthInv'
<1>. SUFFICES ASSUME HealthInv, [HealthNext]_healthVars PROVE HealthInv'
  OBVIOUS
<1>0. /\ now \in Nat /\ samples \in Seq(Samples) /\ history \in Seq(Samples)
      /\ Sound(samples, history, now)
      /\ DOMAIN caller = Callers
      /\ \A c \in Callers : caller[c].now \in Nat /\ caller[c].now <= now
  BY DEF HealthInv, Sound
<1>1. ASSUME now' \in Nat, history' \in Seq(Samples), Sound(samples', history', now'),
             DOMAIN caller' = Callers,
             \A c \in Callers : caller'[c].now \in Nat /\ caller'[c].now <= now'
      PROVE  HealthInv'
  BY <1>1 DEF HealthInv, Sound, Samples
<1>2. CASE Advance
  <2>1. now' = now + 1 /\ UNCHANGED <<caller, samples, history>>
    BY <1>2 DEF Advance
  <2>2. /\ \A j \in 1..Len(samples) : samples[j].recorded \in Nat
        /\ \A i \in 1..Len(history) : history[i].at \in Nat
        /\ DOMAIN samples = 1..Len(samples) /\ DOMAIN history = 1..Len(history)
        /\ WindowSeconds \in Nat
    BY <1>0, SampleLists, HealthAssumption
  <2>3. Sound(samples, history, now + 1)
    BY <1>0, <2>2 DEF Sound
  <2>. QED BY <1>0, <1>1, <2>1, <2>3
<1>3. CASE Reset
  <2>1. <<>> \in Seq(Samples) /\ DOMAIN <<>> = {}
    BY EmptySeq, LenProperties
  <2>. QED BY <1>0, <1>1, <1>3, <2>1 DEF Reset, Sound
<1>4. ASSUME NEW c \in Callers, ReadClock(c) PROVE HealthInv'
  <2>1. \A x \in Callers : caller'[x].now = IF x = c THEN now ELSE caller[x].now
    BY <1>0, <1>4 DEF ReadClock
  <2>2. UNCHANGED <<now, samples, history>> /\ DOMAIN caller' = Callers
    BY <1>0, <1>4 DEF ReadClock
  <2>. QED BY <1>0, <1>1, <2>1, <2>2
<1>5. ASSUME NEW c \in Callers, Record(c) PROVE HealthInv'
  <2>. DEFINE s == [at |-> caller[c].now, failed |-> caller[c].op = "failure", recorded |-> now]
  <2>1. /\ samples' = Evict(Append(samples, s), caller[c].now) /\ history' = Append(history, s)
        /\ caller' = [caller EXCEPT ![c] = Resting] /\ UNCHANGED now
    BY <1>5 DEF Record
  <2>2. s \in Samples /\ s.at <= now /\ s.recorded = now
    BY <1>0 DEF Samples
  <2>. HIDE DEF s
  <2>3. Append(history, s) \in Seq(Samples)
    BY <1>0, <2>2, AppendProperties
  <2>4. Sound(Append(samples, s), Append(history, s), now)
    BY <1>0, <2>2, AppendSound
  <2>5. Sound(samples', history', now)
    BY <1>0, <2>1, <2>3, <2>4, EvictSound
  <2>6. DOMAIN caller' = Callers /\ \A x \in Callers : caller'[x].now \in Nat /\ caller'[x].now <= now
    BY <1>0, <2>1 DEF Resting
  <2>. QED BY <1>0, <1>1, <2>1, <2>3, <2>5, <2>6
<1>6. ASSUME NEW c \in Callers, Snapshot(c) PROVE HealthInv'
  <2>1. /\ samples' = Evict(samples, caller[c].now) /\ UNCHANGED <<now, history>>
        /\ caller' = [caller EXCEPT ![c] = Resting]
    BY <1>6 DEF Snapshot
  <2>2. Sound(samples', history, now)
    BY <1>0, <2>1, EvictSound
  <2>3. DOMAIN caller' = Callers /\ \A x \in Callers : caller'[x].now \in Nat /\ caller'[x].now <= now
    BY <1>0, <2>1 DEF Resting
  <2>. QED BY <1>0, <1>1, <2>1, <2>2, <2>3
<1>7. CASE UNCHANGED healthVars
  BY <1>0, <1>1, <1>7 DEF healthVars
<1>. QED BY <1>2, <1>3, <1>4, <1>5, <1>6, <1>7 DEF HealthNext

\* health.go, Snapshot and evictLocked: in whatever order the clocks are read
\* and the samples appended, a snapshot counts every sample of its window and
\* none that was recorded before the window it asked for.
THEOREM WindowsAreCounted == HealthSpec => WindowIsCounted
<1>. DEFINE Counts == \A c \in Callers :
         caller[c].op = "snapshot" /\ caller[c].pc = "lock" /\ caller'[c].pc = "idle" =>
           /\ \A i \in DOMAIN history :
                history[i].at >= now - WindowSeconds => Contains(samples', history[i])
           /\ \A i \in DOMAIN samples' :
                samples'[i].recorded >= caller[c].now - WindowSeconds
           /\ outcome' = "unhealthy" =>
                \E i \in DOMAIN history :
                  history[i].failed /\ history[i].recorded >= caller[c].now - WindowSeconds
<1>1. HealthInv /\ [HealthNext]_healthVars => [Counts]_healthVars
  <2>. SUFFICES ASSUME HealthInv, HealthNext, NEW c \in Callers,
                       caller[c].op = "snapshot", caller[c].pc = "lock", caller'[c].pc = "idle"
                PROVE  /\ \A i \in DOMAIN history :
                             history[i].at >= now - WindowSeconds => Contains(samples', history[i])
                       /\ \A i \in DOMAIN samples' :
                             samples'[i].recorded >= caller[c].now - WindowSeconds
                       /\ outcome' = "unhealthy" =>
                             \E i \in DOMAIN history :
                                history[i].failed
                                /\ history[i].recorded >= caller[c].now - WindowSeconds
    OBVIOUS
  <2>1. Snapshot(c)
    BY DEF HealthNext, Advance, Reset, ReadClock, Record, Snapshot, HealthInv, Resting
  <2>2. /\ samples' = Evict(samples, caller[c].now) /\ outcome' = Classified(samples')
        /\ now \in Nat /\ history \in Seq(Samples) /\ Sound(samples, history, now)
        /\ caller[c].now \in Nat /\ caller[c].now <= now
    BY <2>1 DEF Snapshot, HealthInv, Sound
  <2>3. /\ Sound(samples', history, now)
        /\ \A i \in DOMAIN samples' : samples'[i].recorded >= caller[c].now - WindowSeconds
    BY <2>2, EvictSound
  <2>4. samples' \in Seq(Samples) /\ DOMAIN samples' = 1..Len(samples') /\ Len(samples') \in Nat
    BY <2>3, LenProperties DEF Sound
  <2>5. \A i \in DOMAIN history :
           history[i].at >= now - WindowSeconds => Contains(samples', history[i])
    BY <2>3, <2>4 DEF Sound, Contains
  <2>6. ASSUME outcome' = "unhealthy" PROVE \E i \in DOMAIN samples' : samples'[i].failed
    <3>. DEFINE F == {i \in DOMAIN samples' : samples'[i].failed}
    <3>1. samples' # <<>> /\ Cardinality(F) * 10 >= Unhealthy * Len(samples')
      BY <2>2, <2>6 DEF Classified
    <3>2. Len(samples') > 0
      BY <2>4, <3>1, EmptySeq
    <3>3. Unhealthy \in Nat \ {0}
      BY HealthAssumption
    <3>4. Unhealthy * Len(samples') > 0
      <4>. DEFINE u == Unhealthy
                  n == Len(samples')
      <4>1. u \in Nat \ {0} /\ n \in Nat \ {0}
        BY <2>4, <3>2, <3>3
      <4>. HIDE DEF u, n
      <4>2. u * n > 0
        BY <4>1
      <4>. QED BY <4>2 DEF u, n
    <3>. DEFINE p == Unhealthy * Len(samples')
    <3>5. p > 0 /\ Cardinality(F) * 10 >= p
      BY <3>1, <3>4
    <3>. HIDE DEF F, p
    <3>6. F # {}
      <4>1. p \in Int
        BY <2>4, <3>3 DEF p
      <4>. QED BY <3>5, <4>1, FS_EmptySet
    <3>. QED BY <3>6 DEF F
  <2>7. ASSUME outcome' = "unhealthy"
        PROVE  \E i \in DOMAIN history :
                  history[i].failed /\ history[i].recorded >= caller[c].now - WindowSeconds
    <3>1. PICK j \in DOMAIN samples' : samples'[j].failed
      BY <2>6, <2>7
    <3>. QED BY <2>3, <3>1 DEF Sound
  <2>. QED BY <2>3, <2>5, <2>7
<1>2. HealthSpec => []HealthInv
  BY HealthInitial, HealthKept, PTL DEF HealthSpec
<1>. QED BY <1>1, <1>2, PTL DEF HealthSpec, WindowIsCounted

-----------------------------------------------------------------------------
(***************************************************************************)
(* SkillTurn: the plugin directory of a turn, for any number of turns,     *)
(* runs, roots and skills.                                                 *)
(***************************************************************************)
TurnFields == {"pc", "loaded", "roots", "selected", "unknown", "todo", "plugin", "bridge",
               "disturbed"}

RunIds == {Run(t) : t \in DOMAIN Turns}

\* The directory of run r holds the skills of the selections s.
Holds(r, s) == plugins[r].there /\ plugins[r].skills = {Slug(x) : x \in s}

\* While a turn copies, its directory holds what it has copied, and then all it
\* has selected, unless another turn of its run came between.
TurnOK(t) ==
    /\ Shaped(turn[t], TurnFields)
    /\ turn[t].pc \in {"load", "clear", "copy"} => ~turn[t].plugin
    /\ turn[t].pc = "copy" => turn[t].todo \subseteq turn[t].selected
    /\ turn[t].pc = "clear" => turn[t].todo = turn[t].selected
    /\ turn[t].pc = "copy" /\ ~turn[t].disturbed =>
          Holds(Run(t), turn[t].selected \ turn[t].todo) /\ ~plugins[Run(t)].loopback
    /\ turn[t].pc = "bridge" /\ turn[t].plugin /\ ~turn[t].disturbed =>
          Holds(Run(t), turn[t].selected) /\ ~plugins[Run(t)].loopback
    /\ turn[t].pc = "cli" /\ turn[t].plugin /\ ~turn[t].disturbed =>
          Holds(Run(t), turn[t].selected) /\ (plugins[Run(t)].loopback => turn[t].bridge)

PluginInv ==
    /\ turn = [t \in DOMAIN Turns |-> turn[t]]
    /\ plugins = [r \in RunIds |-> plugins[r]]
    /\ \A r \in RunIds : Shaped(plugins[r], {"there", "skills", "loopback"})
    /\ \A t \in DOMAIN Turns : TurnOK(t)

\* A turn whose directory another turn writes is disturbed, unless it has not
\* begun or is over (runs deliver a turn again).
LEMMA OtherTurnsKeep ==
    ASSUME PluginInv, NEW w \in DOMAIN Turns
    PROVE  /\ (turn'[w] = turn[w] /\ plugins'[Run(w)] = plugins[Run(w)]) => TurnOK(w)'
           /\ (turn'[w] = turn[w] /\ turn[w].pc \in {"load", "done", "dead"}) => TurnOK(w)'
           /\ turn'[w] = [turn[w] EXCEPT !.disturbed = TRUE] => TurnOK(w)'
<1>0. TurnOK(w)
  BY DEF PluginInv
<1>1. ASSUME turn'[w] = turn[w], plugins'[Run(w)] = plugins[Run(w)] PROVE TurnOK(w)'
  BY <1>0, <1>1 DEF TurnOK, Holds, Shaped
<1>2. ASSUME turn'[w] = turn[w], turn[w].pc \in {"load", "done", "dead"} PROVE TurnOK(w)'
  BY <1>0, <1>2 DEF TurnOK, Holds, Shaped
<1>3. ASSUME turn'[w] = [turn[w] EXCEPT !.disturbed = TRUE] PROVE TurnOK(w)'
  <2>1. /\ turn'[w] = [f \in TurnFields |-> turn'[w][f]]
        /\ turn'[w].disturbed /\ turn'[w].pc = turn[w].pc /\ turn'[w].plugin = turn[w].plugin
        /\ turn'[w].todo = turn[w].todo /\ turn'[w].selected = turn[w].selected
    BY <1>0, <1>3 DEF TurnOK, Shaped, TurnFields
  <2>. QED BY <1>0, <2>1 DEF TurnOK, Shaped
<1>4. QED BY <1>1, <1>2, <1>3

\* Turn t moves and leaves the directories alone.
LEMMA TurnMoves ==
    ASSUME PluginInv, NEW t \in DOMAIN Turns, UNCHANGED plugins,
           turn' = [turn EXCEPT ![t] = turn'[t]], TurnOK(t)'
    PROVE  PluginInv'
<1>1. turn' = [w \in DOMAIN Turns |-> turn'[w]]
      /\ \A w \in DOMAIN Turns : w # t => turn'[w] = turn[w]
  BY DEF PluginInv
<1>2. \A w \in DOMAIN Turns : TurnOK(w)'
  BY <1>1, OtherTurnsKeep
<1>. QED BY <1>1, <1>2 DEF PluginInv, RunIds, Run, Shaped

\* Turn t moves and writes the directory of its run.
LEMMA TurnWrites ==
    ASSUME PluginInv, NEW t \in DOMAIN Turns, NEW f, NEW p,
           f = [turn EXCEPT ![t] = f[t]], turn' = Disturbing(t, f),
           plugins' = [plugins EXCEPT ![Run(t)] = p],
           Shaped(p, {"there", "skills", "loopback"}),
           turn'[t] = f[t] /\ plugins'[Run(t)] = p => TurnOK(t)'
    PROVE  PluginInv'
<1>0. Run(t) \in RunIds /\ \A w \in DOMAIN Turns : Run(w) \in RunIds
  BY DEF RunIds
<1>1. /\ turn' = [w \in DOMAIN Turns |-> turn'[w]] /\ turn'[t] = f[t]
      /\ \A w \in DOMAIN Turns : w # t => f[w] = turn[w]
  BY DEF PluginInv, Disturbing
<1>2. /\ plugins' = [r \in RunIds |-> plugins'[r]]
      /\ plugins'[Run(t)] = p
      /\ \A r \in RunIds : r # Run(t) => plugins'[r] = plugins[r]
  BY <1>0 DEF PluginInv
<1>3. ASSUME NEW w \in DOMAIN Turns, w # t PROVE TurnOK(w)'
  <2>1. turn'[w] = IF Run(w) = Run(t) /\ turn[w].pc \notin {"load", "done", "dead"}
                   THEN [turn[w] EXCEPT !.disturbed = TRUE] ELSE turn[w]
    BY <1>1, <1>3 DEF Disturbing
  <2>2. Run(w) # Run(t) => plugins'[Run(w)] = plugins[Run(w)]
    BY <1>0, <1>2
  <2>. QED BY <2>1, <2>2, OtherTurnsKeep
<1>4. \A w \in DOMAIN Turns : TurnOK(w)'
  BY <1>1, <1>2, <1>3
<1>5. \A r \in RunIds : Shaped(plugins'[r], {"there", "skills", "loopback"})
  BY <1>2 DEF PluginInv
<1>. QED BY <1>1, <1>2, <1>4, <1>5 DEF PluginInv, RunIds, Run, Shaped

\* The steps of a turn that touch no directory.
LEMMA TurnStepsAside ==
    ASSUME PluginInv, NEW t \in DOMAIN Turns,
           \/ Load(t) \/ Resolve(t) \/ CopyFails(t) \/ Generated(t) \/ CliEnds(t) \/ DaemonDies(t)
    PROVE  PluginInv'
<1>0. TurnOK(t) /\ UNCHANGED plugins /\ turn = [w \in DOMAIN Turns |-> turn[w]]
  BY DEF PluginInv, Load, Resolve, CopyFails, Generated, CliEnds, DaemonDies
<1>1. CASE Load(t)
  <2>1. turn' = [turn EXCEPT ![t] = turn'[t]]
        /\ turn'[t] = [turn[t] EXCEPT !.roots = turn[t].roots + 1,
                                      !.loaded = turn[t].loaded \o LoadRoot(disk[turn[t].roots + 1])]
        /\ turn[t].pc = "load"
    BY <1>0, <1>1 DEF Load
  <2>2. TurnOK(t)'
    BY <1>0, <2>1 DEF TurnOK, Shaped, TurnFields
  <2>. QED BY <1>0, <2>1, <2>2, TurnMoves
<1>2. CASE Resolve(t)
  <2>. DEFINE s == Selected(turn[t].loaded, Turns[t].requested)
  <2>. DEFINE u == Unknown(turn[t].loaded, Turns[t].requested)
              pc == IF Turns[t].provider = "claude" /\ s # {} THEN "clear" ELSE "bridge"
  <2>1. /\ turn' = [turn EXCEPT ![t] = turn'[t]]
        /\ turn'[t] = [turn[t] EXCEPT !.selected = s, !.todo = s, !.unknown = u, !.pc = pc]
        /\ turn[t].pc = "load" /\ pc \in {"clear", "bridge"}
    <3>1. turn' = [turn EXCEPT ![t].selected = s, ![t].todo = s, ![t].unknown = u, ![t].pc = pc]
          /\ turn[t].pc = "load" /\ pc \in {"clear", "bridge"}
      BY <1>2 DEF Resolve
    <3>. HIDE DEF s, u, pc
    <3>. QED BY <1>0, <3>1
  <2>. HIDE DEF s, u, pc
  <2>2. /\ Shaped(turn'[t], TurnFields) /\ turn'[t].pc \in {"clear", "bridge"} /\ ~turn'[t].plugin
        /\ turn'[t].todo = turn'[t].selected
    BY <1>0, <2>1 DEF TurnOK, Shaped, TurnFields
  <2>3. TurnOK(t)'
    BY <2>2 DEF TurnOK, Shaped
  <2>. QED BY <1>0, <2>1, <2>3, TurnMoves
<1>3. CASE CopyFails(t)
  <2>1. turn' = [turn EXCEPT ![t] = turn'[t]] /\ turn'[t] = [turn[t] EXCEPT !.pc = "bridge"]
        /\ turn[t].pc \in {"clear", "copy"}
    BY <1>0, <1>3 DEF CopyFails, Go
  <2>2. Shaped(turn'[t], TurnFields) /\ turn'[t].pc = "bridge" /\ ~turn'[t].plugin
    BY <1>0, <2>1 DEF TurnOK, Shaped, TurnFields
  <2>3. TurnOK(t)'
    BY <2>2 DEF TurnOK, Shaped
  <2>. QED BY <1>0, <2>1, <2>3, TurnMoves
<1>4. CASE Generated(t)
  <2>1. turn' = [turn EXCEPT ![t] = turn'[t]]
        /\ turn'[t] = [turn[t] EXCEPT !.plugin = TRUE, !.pc = "bridge"]
        /\ turn[t].pc = "copy" /\ turn[t].todo = {}
    BY <1>0, <1>4 DEF Generated
  <2>2. /\ Shaped(turn'[t], TurnFields) /\ turn'[t].pc = "bridge" /\ turn'[t].plugin
        /\ turn'[t].disturbed = turn[t].disturbed /\ turn'[t].selected = turn[t].selected
    BY <1>0, <2>1 DEF TurnOK, Shaped, TurnFields
  <2>3. turn[t].selected \ turn[t].todo = turn[t].selected
    BY <2>1
  <2>4. ~turn[t].disturbed => Holds(Run(t), turn[t].selected) /\ ~plugins[Run(t)].loopback
    BY <1>0, <2>1, <2>3 DEF TurnOK
  <2>5. TurnOK(t)'
    BY <1>0, <2>2, <2>4 DEF TurnOK, Shaped, Holds
  <2>. QED BY <1>0, <2>1, <2>5, TurnMoves
<1>5. CASE CliEnds(t) \/ DaemonDies(t)
  <2>1. PICK pc \in {"cleanup", "dead"} :
           turn' = [turn EXCEPT ![t] = turn'[t]] /\ turn'[t] = [turn[t] EXCEPT !.pc = pc]
    BY <1>0, <1>5 DEF CliEnds, DaemonDies, Go
  <2>2. Shaped(turn'[t], TurnFields) /\ turn'[t].pc \in {"cleanup", "dead"}
    BY <1>0, <2>1 DEF TurnOK, Shaped, TurnFields
  <2>3. TurnOK(t)'
    BY <2>2 DEF TurnOK, Shaped
  <2>. QED BY <1>0, <2>1, <2>3, TurnMoves
<1>. QED BY <1>1, <1>2, <1>3, <1>4, <1>5

\* GeneratePluginDir starts from an empty directory, whatever was there.
LEMMA ClearKeeps ==
    ASSUME PluginInv, NEW t \in DOMAIN Turns, Clear(t)
    PROVE  PluginInv'
<1>. DEFINE f == Go(t, "copy")
<1>0. TurnOK(t) /\ turn = [w \in DOMAIN Turns |-> turn[w]] /\ turn[t].pc = "clear"
  BY DEF PluginInv, Clear
<1>1. f = [turn EXCEPT ![t] = f[t]] /\ f[t] = [turn[t] EXCEPT !.pc = "copy"]
  BY <1>0 DEF Go
<1>2. turn' = Disturbing(t, f) /\ plugins' = [plugins EXCEPT ![Run(t)] = EmptyPlugin]
  BY DEF Clear
<1>. HIDE DEF f
<1>3. /\ Shaped(f[t], TurnFields) /\ f[t].pc = "copy" /\ ~f[t].plugin
      /\ f[t].todo = f[t].selected
  BY <1>0, <1>1 DEF TurnOK, Shaped, TurnFields
<1>4. /\ Shaped(EmptyPlugin, {"there", "skills", "loopback"})
      /\ EmptyPlugin.there /\ EmptyPlugin.skills = {} /\ ~EmptyPlugin.loopback
  BY DEF EmptyPlugin, NoPlugin, Shaped
<1>5. f[t].selected \ f[t].todo = {} /\ {Slug(x) : x \in {}} = {}
  BY <1>3
<1>6. ASSUME turn'[t] = f[t], plugins'[Run(t)] = EmptyPlugin PROVE TurnOK(t)'
  BY <1>3, <1>4, <1>5, <1>6 DEF TurnOK, Holds, Shaped
<1>. QED BY <1>1, <1>2, <1>4, <1>6, TurnWrites

\* One more skill is copied.
LEMMA CopyKeeps ==
    ASSUME PluginInv, NEW t \in DOMAIN Turns, Copy(t)
    PROVE  PluginInv'
<1>1. PICK s \in turn[t].todo :
         /\ plugins' = [plugins EXCEPT ![Run(t)] =
                [@ EXCEPT !.there = TRUE, !.skills = plugins[Run(t)].skills \union {Slug(s)}]]
         /\ turn' = Disturbing(t, [turn EXCEPT ![t].todo = @ \ {s}])
  BY DEF Copy
<1>. DEFINE f == [turn EXCEPT ![t].todo = @ \ {s}]
            d == plugins[Run(t)]
            p == [d EXCEPT !.there = TRUE, !.skills = d.skills \union {Slug(s)}]
<1>0. /\ TurnOK(t) /\ turn = [w \in DOMAIN Turns |-> turn[w]] /\ turn[t].pc = "copy"
      /\ Run(t) \in RunIds /\ plugins = [r \in RunIds |-> plugins[r]]
      /\ Shaped(d, {"there", "skills", "loopback"})
  BY DEF PluginInv, Copy, RunIds
<1>3. plugins' = [plugins EXCEPT ![Run(t)] = p]
  BY <1>1
<1>4. f = [turn EXCEPT ![t] = f[t]] /\ f[t] = [turn[t] EXCEPT !.todo = turn[t].todo \ {s}]
  BY <1>0
<1>5. /\ Shaped(p, {"there", "skills", "loopback"})
      /\ p.there /\ p.skills = d.skills \union {Slug(s)} /\ p.loopback = d.loopback
  BY <1>0 DEF Shaped
<1>7. turn' = Disturbing(t, f)
  BY <1>1
<1>. HIDE DEF f, p
<1>8. /\ Shaped(f[t], TurnFields) /\ f[t].pc = "copy" /\ ~f[t].plugin
      /\ f[t].todo = turn[t].todo \ {s} /\ f[t].selected = turn[t].selected
      /\ f[t].disturbed = turn[t].disturbed
  BY <1>0, <1>4 DEF TurnOK, Shaped, TurnFields
<1>9. turn[t].todo \subseteq turn[t].selected
  BY <1>0 DEF TurnOK
<1>10. ASSUME ~turn[t].disturbed
       PROVE  p.skills = {Slug(x) : x \in f[t].selected \ f[t].todo} /\ ~p.loopback
  <2>1. d.skills = {Slug(x) : x \in turn[t].selected \ turn[t].todo} /\ ~d.loopback
    BY <1>0, <1>10 DEF TurnOK, Holds
  <2>2. f[t].selected \ f[t].todo = (turn[t].selected \ turn[t].todo) \union {s}
    BY <1>8, <1>9
  <2>. QED BY <1>5, <2>1, <2>2
<1>11. ASSUME turn'[t] = f[t], plugins'[Run(t)] = p PROVE TurnOK(t)'
  BY <1>5, <1>8, <1>9, <1>10, <1>11 DEF TurnOK, Holds, Shaped
<1>. QED BY <1>3, <1>4, <1>5, <1>7, <1>11, TurnWrites

\* buildProviderOverlay adds the loopback entry to a directory that is there.
LEMMA StartBridgeKeeps ==
    ASSUME PluginInv, NEW t \in DOMAIN Turns, StartBridge(t)
    PROVE  PluginInv'
<1>1. PICK up \in BOOLEAN :
         LET layered == up /\ turn[t].plugin /\ plugins[Run(t)].there
             f == [turn EXCEPT ![t].bridge = up, ![t].pc = "cli"] IN
         /\ plugins' = IF layered THEN [plugins EXCEPT ![Run(t)].loopback = TRUE] ELSE plugins
         /\ turn' = IF layered THEN Disturbing(t, f) ELSE f
  BY DEF StartBridge
<1>. DEFINE layered == up /\ turn[t].plugin /\ plugins[Run(t)].there
            f == [turn EXCEPT ![t].bridge = up, ![t].pc = "cli"]
            d == plugins[Run(t)]
            p == [d EXCEPT !.loopback = TRUE]
<1>0. /\ TurnOK(t) /\ turn = [w \in DOMAIN Turns |-> turn[w]] /\ turn[t].pc = "bridge"
      /\ Run(t) \in RunIds /\ plugins = [r \in RunIds |-> plugins[r]]
      /\ Shaped(d, {"there", "skills", "loopback"})
  BY DEF PluginInv, StartBridge, RunIds
<1>2. f = [turn EXCEPT ![t] = f[t]] /\ f[t] = [turn[t] EXCEPT !.bridge = up, !.pc = "cli"]
  BY <1>0
<1>3. /\ layered => turn' = Disturbing(t, f)
      /\ ~layered => turn' = f /\ UNCHANGED plugins
  BY <1>1
<1>4. layered => plugins' = [plugins EXCEPT ![Run(t)] = p]
  BY <1>1
<1>5. /\ Shaped(p, {"there", "skills", "loopback"})
      /\ p.there = d.there /\ p.skills = d.skills /\ p.loopback
  BY <1>0 DEF Shaped
<1>. HIDE DEF f, p
<1>7. /\ Shaped(f[t], TurnFields) /\ f[t].pc = "cli" /\ f[t].bridge = up
      /\ f[t].plugin = turn[t].plugin /\ f[t].disturbed = turn[t].disturbed
      /\ f[t].selected = turn[t].selected
  BY <1>0, <1>2 DEF TurnOK, Shaped, TurnFields
<1>8. turn[t].plugin /\ ~turn[t].disturbed
         => d.there /\ d.skills = {Slug(x) : x \in turn[t].selected} /\ ~d.loopback
  BY <1>0 DEF TurnOK, Holds
<1>9. CASE layered
  <2>1. ASSUME turn'[t] = f[t], plugins'[Run(t)] = p PROVE TurnOK(t)'
    BY <1>5, <1>7, <1>8, <1>9, <2>1 DEF TurnOK, Holds, Shaped
  <2>. QED BY <1>2, <1>3, <1>4, <1>5, <1>9, <2>1, TurnWrites
<1>10. CASE ~layered
  <2>1. turn' = f /\ UNCHANGED plugins
    BY <1>3, <1>10
  <2>2. TurnOK(t)'
    BY <1>7, <1>8, <2>1 DEF TurnOK, Holds, Shaped
  <2>3. turn' = [turn EXCEPT ![t] = turn'[t]]
    BY <1>2, <2>1
  <2>. QED BY <2>1, <2>2, <2>3, TurnMoves
<1>. QED BY <1>9, <1>10

\* The directory goes with the turn that generated it.
LEMMA CleanupKeeps ==
    ASSUME PluginInv, NEW t \in DOMAIN Turns, Cleanup(t)
    PROVE  PluginInv'
<1>. DEFINE f == Go(t, "done")
<1>0. TurnOK(t) /\ turn = [w \in DOMAIN Turns |-> turn[w]]
  BY DEF PluginInv
<1>1. f = [turn EXCEPT ![t] = f[t]] /\ f[t] = [turn[t] EXCEPT !.pc = "done"]
  BY <1>0 DEF Go
<1>2. \/ turn' = Disturbing(t, f) /\ plugins' = [plugins EXCEPT ![Run(t)] = NoPlugin]
      \/ turn' = f /\ UNCHANGED plugins
  BY DEF Cleanup
<1>. HIDE DEF f
<1>3. Shaped(f[t], TurnFields) /\ f[t].pc = "done"
  BY <1>0, <1>1 DEF TurnOK, Shaped, TurnFields
<1>4. Shaped(NoPlugin, {"there", "skills", "loopback"})
  BY DEF NoPlugin, Shaped
<1>5. turn'[t] = f[t] => TurnOK(t)'
  BY <1>3 DEF TurnOK, Shaped
<1>6. CASE turn' = f /\ UNCHANGED plugins
  <2>1. turn' = [turn EXCEPT ![t] = turn'[t]] /\ TurnOK(t)'
    BY <1>1, <1>5, <1>6
  <2>. QED BY <1>6, <2>1, TurnMoves
<1>7. CASE turn' = Disturbing(t, f) /\ plugins' = [plugins EXCEPT ![Run(t)] = NoPlugin]
  BY <1>1, <1>4, <1>5, <1>7, TurnWrites
<1>. QED BY <1>2, <1>6, <1>7

LEMMA PluginInitial == SkillTurnInit => PluginInv
  BY DEF SkillTurnInit, PluginInv, TurnOK, Shaped, TurnFields, NoPlugin, RunIds, Run

LEMMA PluginKept == PluginInv /\ [SkillTurnNext]_skillTurnVars => PluginInv'
<1>. SUFFICES ASSUME PluginInv, [SkillTurnNext]_skillTurnVars PROVE PluginInv'
  OBVIOUS
<1>1. CASE UNCHANGED <<plugins, turn>>
  BY <1>1 DEF PluginInv, TurnOK, Holds, Shaped
<1>2. Update \/ UNCHANGED skillTurnVars => UNCHANGED <<plugins, turn>>
  BY DEF Update, skillTurnVars
<1>3. ASSUME NEW t \in DOMAIN Turns,
             \/ Load(t) \/ Resolve(t) \/ Clear(t) \/ Copy(t) \/ CopyFails(t) \/ Generated(t)
             \/ StartBridge(t) \/ CliEnds(t) \/ Cleanup(t) \/ DaemonDies(t)
      PROVE  PluginInv'
  BY <1>3, TurnStepsAside, ClearKeeps, CopyKeeps, StartBridgeKeeps, CleanupKeeps
<1>. QED BY <1>1, <1>2, <1>3 DEF SkillTurnNext

\* plugin_dir.go, GeneratePluginDir and buildProviderOverlay: whatever earlier
\* deliveries of the run, killed at any place, left behind, the directory Claude
\* is told of holds the skills of this turn.
THEOREM PluginDirIsTurns == SkillTurnSpec => []PluginDirIsSelection
<1>1. PluginInv => PluginDirIsSelection
  BY DEF PluginInv, TurnOK, Holds, PluginDirIsSelection
<1>. QED BY <1>1, PluginInitial, PluginKept, PTL DEF SkillTurnSpec

-----------------------------------------------------------------------------
(***************************************************************************)
(* SkillTurn: the tiers, for any roots and any requests.                   *)
(***************************************************************************)
\* p lists the positions A in their order, and Those(s, A) what s has there.
InOrder(p, s, A) ==
    /\ p \in [1..Cardinality(A) -> A]
    /\ \A i \in A : \E n \in 1..Cardinality(A) : p[n] = i
    /\ \A m, n \in 1..Cardinality(A) : m < n => p[m] < p[n]
    /\ Those(s, A) = [n \in 1..Cardinality(A) |-> s[p[n]]]

\* What is kept of a list stays in its order (loadRoot).
LEMMA ThoseInOrder ==
    ASSUME NEW N \in Nat, NEW A \in SUBSET (1..N), NEW s
    PROVE  /\ Cardinality(A) \in Nat
           /\ \E p : InOrder(p, s, A)
<1>. DEFINE Before(i) == {j \in A : j < i}
            L == Cardinality(A)
            at == [i \in A |-> Cardinality(Before(i))]
            p == [n \in 1..L |-> CHOOSE i \in A : Cardinality(Before(i)) = n - 1]
<1>0. \A i \in A : i \in Int
  OBVIOUS
<1>1. IsFiniteSet(1..N)
  BY FS_Interval
<1>2. IsFiniteSet(A) /\ L \in Nat
  BY <1>1, FS_Subset, FS_CardinalityType
<1>3. \A i \in A : /\ IsFiniteSet(Before(i)) /\ Cardinality(Before(i)) \in Nat
                   /\ Cardinality(Before(i)) <= L /\ Cardinality(Before(i)) # L
  <2>. TAKE i \in A
  <2>1. Before(i) \in SUBSET A /\ Before(i) # A
    OBVIOUS
  <2>. HIDE DEF Before
  <2>. QED BY <1>2, <2>1, FS_Subset, FS_CardinalityType
<1>4. \A i \in A : at[i] \in 0..(L - 1)
  <2>. SUFFICES ASSUME NEW i \in A PROVE Cardinality(Before(i)) \in 0..(L - 1)
    OBVIOUS
  <2>1. Cardinality(Before(i)) \in Nat /\ Cardinality(Before(i)) <= L /\ Cardinality(Before(i)) # L
    BY <1>3
  <2>. HIDE DEF Before, L
  <2>. QED BY <1>2, <2>1
<1>5. ASSUME NEW i \in A, NEW j \in A, i < j PROVE at[i] < at[j]
  <2>1. Before(i) \in SUBSET Before(j) /\ i \in Before(j) /\ i \notin Before(i)
    <3>1. i \in Int /\ j \in Int
      BY <1>0
    <3>2. ASSUME NEW x \in Before(i) PROVE x \in Before(j)
      <4>1. x \in A /\ x \in Int /\ x < i
        BY <1>0
      <4>2. x < j
        BY <1>5, <3>1, <4>1
      <4>. QED BY <4>1, <4>2
    <3>3. i \in Before(j)
      BY <1>5
    <3>4. ~(i < i)
      BY <3>1
    <3>5. i \notin Before(i)
      BY <3>4
    <3>. HIDE DEF Before
    <3>. QED BY <3>2, <3>3, <3>5
  <2>2. IsFiniteSet(Before(j)) /\ Cardinality(Before(j)) \in Nat /\ Cardinality(Before(i)) \in Nat
    BY <1>3
  <2>. HIDE DEF Before
  <2>3. Cardinality(Before(i)) <= Cardinality(Before(j)) /\ Cardinality(Before(i)) # Cardinality(Before(j))
    BY <2>1, <2>2, FS_Subset
  <2>. QED BY <2>2, <2>3
<1>6. \A i, j \in A : at[i] = at[j] => i = j
  <2>. SUFFICES ASSUME NEW i \in A, NEW j \in A, at[i] = at[j], i # j PROVE FALSE
    OBVIOUS
  <2>1. i < j \/ j < i
    OBVIOUS
  <2>2. at[i] \in 0..(L - 1) /\ at[j] \in 0..(L - 1)
    BY <1>4
  <2>. HIDE DEF at
  <2>. QED BY <1>5, <2>1, <2>2
<1>7. at \in Surjection(A, 0..(L - 1))
  <2>. DEFINE T == 0..(L - 1)
  <2>1. at \in Injection(A, T)
    BY <1>4, <1>6, Fun_IsInj
  <2>2. IsFiniteSet(T) /\ Cardinality(T) = L
    <3>1. 0 \in Int /\ L - 1 \in Int /\ (0 > L - 1 => L = 0) /\ L - 1 - 0 + 1 = L
      BY <1>2
    <3>. QED BY <3>1, FS_Interval
  <2>. HIDE DEF at, T
  <2>3. at \in Surjection(A, T)
    BY <2>1, <2>2, FS_Injection
  <2>. QED BY <2>3 DEF T
<1>8. ASSUME NEW n \in 1..L PROVE p[n] \in A /\ at[p[n]] = n - 1
  <2>1. n - 1 \in 0..(L - 1)
    BY <1>2
  <2>2. PICK i \in A : at[i] = n - 1
    <3>. HIDE DEF at
    <3>. QED BY <1>7, <2>1 DEF Surjection
  <2>3. Cardinality(Before(i)) = n - 1
    BY <2>2
  <2>. QED BY <2>3
<1>9. p \in [1..L -> A]
  <2>1. \A n \in 1..L : p[n] \in A
    BY <1>8
  <2>2. p = [n \in 1..L |-> p[n]]
    OBVIOUS
  <2>. HIDE DEF p
  <2>. QED BY <2>1, <2>2
<1>10. ASSUME NEW i \in A PROVE \E n \in 1..L : p[n] = i
  <2>1. PICK n \in 1..L : at[i] = n - 1
    <3>1. at[i] \in 0..(L - 1)
      BY <1>4
    <3>. HIDE DEF at, L
    <3>2. at[i] + 1 \in 1..L /\ at[i] = (at[i] + 1) - 1
      BY <1>2, <3>1
    <3>. QED BY <3>2
  <2>2. p[n] \in A /\ at[p[n]] = at[i]
    BY <1>8, <2>1
  <2>. HIDE DEF p, at
  <2>. QED BY <1>6, <2>2
<1>11. ASSUME NEW m \in 1..L, NEW n \in 1..L, m < n PROVE p[m] < p[n]
  <2>1. p[m] \in A /\ p[n] \in A /\ at[p[m]] = m - 1 /\ at[p[n]] = n - 1
    BY <1>8
  <2>. HIDE DEF p, at
  <2>2. p[m] \in Int /\ p[n] \in Int /\ m \in Int /\ n \in Int /\ p[m] # p[n]
    <3>1. m \in Int /\ n \in Int /\ m - 1 # n - 1
      <4>. HIDE DEF L
      <4>. QED BY <1>2, <1>11
    <3>. QED BY <1>0, <2>1, <3>1
  <2>3. ~(p[n] < p[m])
    <3>1. ASSUME p[n] < p[m] PROVE n - 1 < m - 1
      BY <1>5, <2>1, <3>1
    <3>. QED BY <1>11, <2>2, <3>1
  <2>. QED BY <2>2, <2>3
<1>12. Those(s, A) = [n \in 1..L |-> s[p[n]]]
  BY DEF Those
<1>. HIDE DEF p
<1>13. InOrder(p, s, A)
  BY <1>9, <1>10, <1>11, <1>12 DEF InOrder
<1>. QED BY <1>2, <1>13

\* The skills of a list have a tier that has a rank.
TierList(l) ==
    /\ l \in Seq({l[i] : i \in DOMAIN l})
    /\ \A i \in DOMAIN l : l[i].tier \in DOMAIN TierRank

LEMMA Ranks == \A t \in DOMAIN TierRank : TierRank[t] \in Int
  BY DEF TierRank

\* The first of its name in its tier is the first among the higher tiers too, for
\* what it competes with is of its own tier (Resolve groups by tier and name).
LEMMA GroupHigher ==
    ASSUME NEW l, TierList(l), NEW k, NEW slug
    PROVE  Group(Those(l, Higher(l, k)), slug) = {c \in Group(l, slug) : TierRank[c.tier] < k}
<1>. DEFINE A == Higher(l, k)
            L == Cardinality(A)
            h == Those(l, A)
<1>1. Len(l) \in Nat /\ DOMAIN l = 1..Len(l)
  BY LenProperties DEF TierList
<1>2. A \in SUBSET (1..Len(l))
  BY <1>1 DEF Higher
<1>3. L \in Nat
  BY <1>1, <1>2, ThoseInOrder
<1>4. PICK p : InOrder(p, l, A)
  <2>. HIDE DEF A
  <2>. QED BY <1>1, <1>2, ThoseInOrder
<1>5. /\ \A i \in A : i \in DOMAIN l /\ i \in Int /\ TierRank[l[i].tier] < k
      /\ \A i \in DOMAIN l : i \in Int /\ (TierRank[l[i].tier] < k => i \in A)
  BY <1>1 DEF Higher
<1>6. /\ DOMAIN h = 1..L /\ \A n \in 1..L : p[n] \in A /\ h[n] = l[p[n]]
      /\ \A i \in A : \E n \in 1..L : p[n] = i
      /\ \A m, n \in 1..L : m < n => p[m] < p[n]
  BY <1>4 DEF InOrder
<1>. HIDE DEF A, h, L
<1>7. ASSUME NEW n \in 1..L PROVE FirstOfTier(h, n) <=> FirstOfTier(l, p[n])
  <2>0. p[n] \in A /\ p[n] \in Int /\ h[n] = l[p[n]] /\ n \in Int /\ L \in Int
    BY <1>3, <1>5, <1>6
  <2>1. ASSUME FirstOfTier(l, p[n]), NEW j \in 1..n - 1,
               h[j].tier = h[n].tier, h[j].manifest.name = h[n].manifest.name
        PROVE  FALSE
    <3>1. j \in 1..L /\ j < n
      BY <2>0
    <3>2. p[j] < p[n] /\ p[j] \in 1..Len(l) /\ h[j] = l[p[j]]
      BY <1>1, <1>5, <1>6, <3>1
    <3>3. p[j] \in 1..p[n] - 1
      BY <2>0, <3>2, <1>1
    <3>. QED BY <2>0, <2>1, <3>2, <3>3 DEF FirstOfTier
  <2>2. ASSUME FirstOfTier(h, n), NEW i \in 1..p[n] - 1,
               l[i].tier = l[p[n]].tier, l[i].manifest.name = l[p[n]].manifest.name
        PROVE  FALSE
    <3>1. i \in DOMAIN l /\ i < p[n]
      BY <1>1, <1>5, <2>0
    <3>2. i \in A
      BY <1>5, <2>0, <2>2, <3>1
    <3>3. PICK j \in 1..L : p[j] = i
      BY <1>6, <3>2
    <3>4. j < n
      <4>1. j \in Int /\ j # n /\ ~(n < j)
        BY <1>3, <1>5, <1>6, <2>0, <3>1, <3>2, <3>3
      <4>. QED BY <2>0, <4>1
    <3>5. j \in 1..n - 1 /\ h[j] = l[i]
      BY <1>3, <1>6, <2>0, <3>3, <3>4
    <3>. QED BY <2>0, <2>2, <3>5 DEF FirstOfTier
  <2>. QED BY <2>1, <2>2 DEF FirstOfTier
<1>8. ASSUME NEW c \in Group(h, slug) PROVE c \in Group(l, slug) /\ TierRank[c.tier] < k
  <2>1. PICK n \in 1..L : c = h[n] /\ h[n].manifest.name = slug /\ FirstOfTier(h, n)
    BY <1>6, <1>8 DEF Group
  <2>2. p[n] \in DOMAIN l /\ TierRank[l[p[n]].tier] < k /\ h[n] = l[p[n]]
    BY <1>5, <1>6
  <2>. QED BY <1>7, <2>1, <2>2 DEF Group
<1>9. ASSUME NEW c \in Group(l, slug), TierRank[c.tier] < k PROVE c \in Group(h, slug)
  <2>1. PICK i \in DOMAIN l : c = l[i] /\ l[i].manifest.name = slug /\ FirstOfTier(l, i)
    BY DEF Group
  <2>2. i \in A
    BY <1>5, <1>9, <2>1
  <2>3. PICK n \in 1..L : p[n] = i
    BY <1>6, <2>2
  <2>4. h[n] = l[i] /\ FirstOfTier(h, n)
    BY <1>6, <1>7, <2>1, <2>3
  <2>. QED BY <1>6, <2>1, <2>4 DEF Group
<1>10. Group(h, slug) = {c \in Group(l, slug) : TierRank[c.tier] < k}
  BY <1>8, <1>9
<1>. QED BY <1>10 DEF h, A

\* A candidate of a lower tier neither beats one of a higher tier nor keeps it
\* out (pickWithPrecedence).
LEMMA PickHigher ==
    ASSUME NEW l, TierList(l), NEW k \in Int, NEW slug, NEW version
    PROVE  PickWithPrecedence({c \in Group(l, slug) : TierRank[c.tier] < k}, version)
             = {c \in PickWithPrecedence(Group(l, slug), version) : TierRank[c.tier] < k}
<1>1. \A c \in Group(l, slug) : TierRank[c.tier] \in Int
  BY Ranks DEF Group, TierList
<1>. DEFINE G == Group(l, slug)
<1>. HIDE DEF G
<1>2. \A c \in G : TierRank[c.tier] \in Int
  BY <1>1 DEF G
<1>3. PickWithPrecedence({c \in G : TierRank[c.tier] < k}, version)
        = {c \in PickWithPrecedence(G, version) : TierRank[c.tier] < k}
  BY <1>2 DEF PickWithPrecedence
<1>. QED BY <1>3 DEF G

\* Resolve, with or without requests.
LEMMA SelectedHigher ==
    ASSUME NEW l, TierList(l), NEW k \in Int, NEW requested
    PROVE  Selected(Those(l, Higher(l, k)), requested)
             = {s \in Selected(l, requested) : TierRank[s.skill.tier] < k}
<1>. DEFINE h == Those(l, Higher(l, k))
            P(slug, version) == PickWithPrecedence(Group(l, slug), version)
            H(slug, version) == PickWithPrecedence(Group(h, slug), version)
<1>1. \A slug, version : H(slug, version) = {c \in P(slug, version) : TierRank[c.tier] < k}
  BY GroupHigher, PickHigher
<1>2. \A slug, version : H(slug, version) # {} => slug \in {h[i].manifest.name : i \in DOMAIN h}
  BY DEF PickWithPrecedence, Group
<1>3. \A slug, version : P(slug, version) # {} => slug \in {l[i].manifest.name : i \in DOMAIN l}
  BY DEF PickWithPrecedence, Group
<1>4. CASE requested = <<>>
  <2>1. /\ Selected(h, requested) =
              UNION {{[ref |-> 0, skill |-> c] : c \in H(slug, "any")} :
                        slug \in {h[i].manifest.name : i \in DOMAIN h}}
        /\ Selected(l, requested) =
              UNION {{[ref |-> 0, skill |-> c] : c \in P(slug, "any")} :
                        slug \in {l[i].manifest.name : i \in DOMAIN l}}
    BY <1>4 DEF Selected
  <2>. HIDE DEF h, P, H
  <2>2. ASSUME NEW s \in Selected(h, requested)
        PROVE  s \in Selected(l, requested) /\ TierRank[s.skill.tier] < k
    <3>1. PICK slug : \E c \in H(slug, "any") : s = [ref |-> 0, skill |-> c]
      BY <2>1
    <3>2. PICK c \in H(slug, "any") : s = [ref |-> 0, skill |-> c]
      BY <3>1
    <3>3. c \in P(slug, "any") /\ TierRank[c.tier] < k
      BY <1>1
    <3>4. slug \in {l[i].manifest.name : i \in DOMAIN l}
      BY <1>3, <3>3
    <3>. QED BY <2>1, <3>2, <3>3, <3>4
  <2>3. ASSUME NEW s \in Selected(l, requested), TierRank[s.skill.tier] < k
        PROVE  s \in Selected(h, requested)
    <3>1. PICK slug : \E c \in P(slug, "any") : s = [ref |-> 0, skill |-> c]
      BY <2>1
    <3>2. PICK c \in P(slug, "any") : s = [ref |-> 0, skill |-> c]
      BY <3>1
    <3>3. c \in H(slug, "any")
      BY <1>1, <2>3, <3>2
    <3>4. slug \in {h[i].manifest.name : i \in DOMAIN h}
      BY <1>2, <3>3
    <3>. QED BY <2>1, <3>2, <3>3, <3>4
  <2>4. Selected(h, requested) = {s \in Selected(l, requested) : TierRank[s.skill.tier] < k}
    BY <2>2, <2>3
  <2>. QED BY <2>4 DEF h
<1>5. CASE requested # <<>>
  <2>1. /\ Selected(h, requested) =
              UNION {{[ref |-> r, skill |-> c] : c \in H(requested[r].slug, requested[r].version)} :
                        r \in DOMAIN requested}
        /\ Selected(l, requested) =
              UNION {{[ref |-> r, skill |-> c] : c \in P(requested[r].slug, requested[r].version)} :
                        r \in DOMAIN requested}
    BY <1>5 DEF Selected
  <2>. HIDE DEF h, P, H
  <2>2. ASSUME NEW s \in Selected(h, requested)
        PROVE  s \in Selected(l, requested) /\ TierRank[s.skill.tier] < k
    <3>1. PICK r \in DOMAIN requested : \E c \in H(requested[r].slug, requested[r].version) :
                                            s = [ref |-> r, skill |-> c]
      BY <2>1
    <3>2. PICK c \in H(requested[r].slug, requested[r].version) : s = [ref |-> r, skill |-> c]
      BY <3>1
    <3>3. c \in P(requested[r].slug, requested[r].version) /\ TierRank[c.tier] < k
      BY <1>1
    <3>4. s.skill = c
      BY <3>2
    <3>5. s \in {[ref |-> r, skill |-> x] : x \in P(requested[r].slug, requested[r].version)}
      BY <3>2, <3>3
    <3>6. s \in Selected(l, requested)
      BY <2>1, <3>5
    <3>. QED BY <3>3, <3>4, <3>6
  <2>3. ASSUME NEW s \in Selected(l, requested), TierRank[s.skill.tier] < k
        PROVE  s \in Selected(h, requested)
    <3>1. PICK r \in DOMAIN requested : \E c \in P(requested[r].slug, requested[r].version) :
                                            s = [ref |-> r, skill |-> c]
      BY <2>1
    <3>2. PICK c \in P(requested[r].slug, requested[r].version) : s = [ref |-> r, skill |-> c]
      BY <3>1
    <3>3. c \in H(requested[r].slug, requested[r].version)
      BY <1>1, <2>3, <3>2
    <3>. QED BY <2>1, <3>2, <3>3
  <2>4. Selected(h, requested) = {s \in Selected(l, requested) : TierRank[s.skill.tier] < k}
    BY <2>2, <2>3
  <2>. QED BY <2>4 DEF h
<1>. QED BY <1>4, <1>5

\* A list of roots, each with the list of what is in it.
IsList(l) == l \in Seq({l[i] : i \in DOMAIN l})
IsDisk(d) ==
    /\ IsList(d)
    /\ \A i \in DOMAIN d :
          /\ Shaped(d[i], {"tier", "found"}) /\ d[i].tier \in DOMAIN TierRank
          /\ IsList(d[i].found)

\* What a turn has loaded comes of the roots, and what it has selected is what
\* Resolve takes of that.
YieldOK(t) ==
    /\ turn[t].roots \in Nat
    /\ TierList(turn[t].loaded)
    /\ turn[t].pc \notin {"load", "dead"} =>
          turn[t].selected = Selected(turn[t].loaded, Turns[t].requested)

YieldInv == /\ IsDisk(disk)
            /\ \A t \in DOMAIN Turns : YieldOK(t)

LEMMA Listed ==
    ASSUME NEW n \in Nat, NEW l, l = [i \in 1..n |-> l[i]]
    PROVE  l \in Seq({l[i] : i \in DOMAIN l})
<1>. DEFINE S == {l[i] : i \in DOMAIN l}
<1>1. l \in [1..n -> S]
  OBVIOUS
<1>. HIDE DEF S
<1>2. l \in Seq(S)
  BY <1>1, SeqDef
<1>. QED BY <1>2 DEF S

\* loadRoot: the skills of a root have its tier.
LEMMA RootListed ==
    ASSUME NEW root, root.tier \in DOMAIN TierRank,
           root.found \in Seq({root.found[j] : j \in DOMAIN root.found})
    PROVE  TierList(LoadRoot(root))
<1>. DEFINE found == [i \in DOMAIN root.found |-> LoadSkillDir(root.found[i], root.tier)]
            A == {i \in DOMAIN found : ~root.found[i].hidden /\ found[i].manifest.valid}
            L == Cardinality(A)
            l == Those(found, A)
<1>1. Len(root.found) \in Nat /\ DOMAIN root.found = 1..Len(root.found)
  BY LenProperties
<1>2. A \in SUBSET (1..Len(root.found)) /\ A \subseteq DOMAIN root.found
  BY <1>1
<1>3. \A i \in DOMAIN root.found : found[i].tier = root.tier
  BY DEF LoadSkillDir
<1>. HIDE DEF A, found
<1>4. L \in Nat /\ \E p : InOrder(p, found, A)
  BY <1>1, <1>2, ThoseInOrder
<1>5. PICK p : InOrder(p, found, A)
  BY <1>4
<1>6. /\ l = [n \in 1..L |-> l[n]] /\ DOMAIN l = 1..L
      /\ \A n \in 1..L : l[n] = found[p[n]] /\ p[n] \in A
  BY <1>5 DEF InOrder
<1>. HIDE DEF l, L
<1>7. l \in Seq({l[i] : i \in DOMAIN l})
  BY <1>4, <1>6, Listed
<1>8. \A n \in DOMAIN l : l[n].tier \in DOMAIN TierRank
  BY <1>2, <1>3, <1>6
<1>9. TierList(l)
  BY <1>7, <1>8 DEF TierList
<1>. QED BY <1>9 DEF l, A, found, LoadRoot

\* LoadAll puts the skills of a root after those of the roots before it.
LEMMA LoadedListed ==
    ASSUME NEW l, TierList(l), NEW m, TierList(m)
    PROVE  TierList(l \o m)
<1>. DEFINE S == {s \in {l[i] : i \in DOMAIN l} \union {m[i] : i \in DOMAIN m} :
                     s.tier \in DOMAIN TierRank}
            c == l \o m
<1>1. l \in Seq(S) /\ m \in Seq(S)
  <2>1. /\ Len(l) \in Nat /\ l = [i \in 1..Len(l) |-> l[i]] /\ DOMAIN l = 1..Len(l)
        /\ Len(m) \in Nat /\ m = [i \in 1..Len(m) |-> m[i]] /\ DOMAIN m = 1..Len(m)
    BY LenProperties DEF TierList
  <2>2. l \in [1..Len(l) -> S] /\ m \in [1..Len(m) -> S]
    BY <2>1 DEF TierList
  <2>. HIDE DEF S
  <2>. QED BY <2>1, <2>2, SeqDef
<1>2. \A s \in S : s.tier \in DOMAIN TierRank
  OBVIOUS
<1>. HIDE DEF S
<1>3. c \in Seq(S)
  BY <1>1, ConcatProperties
<1>. HIDE DEF c
<1>4. Len(c) \in Nat /\ c = [i \in 1..Len(c) |-> c[i]] /\ \A i \in DOMAIN c : c[i] \in S
  BY <1>3, LenProperties, ElementOfSeq
<1>5. c \in Seq({c[i] : i \in DOMAIN c})
  BY <1>4, Listed
<1>6. TierList(c)
  BY <1>2, <1>4, <1>5 DEF TierList
<1>. QED BY <1>6 DEF c

\* The roots are lists at first, and no turn has loaded any.
LEMMA YieldInitial == SkillTurnInit => YieldInv
<1>. SUFFICES ASSUME SkillTurnInit PROVE YieldInv
  OBVIOUS
<1>1. IsDisk(disk)
  BY SkillAssumption DEF SkillTurnInit, IsDisk, IsList, Shaped
<1>2. TierList(<<>>)
  <2>1. <<>> = [i \in 1..0 |-> <<>>[i]] /\ DOMAIN <<>> = {}
    OBVIOUS
  <2>2. <<>> \in Seq({<<>>[i] : i \in DOMAIN <<>>})
    OBVIOUS
  <2>. QED BY <2>1, <2>2 DEF TierList
<1>3. \A t \in DOMAIN Turns : YieldOK(t)
  BY <1>2 DEF SkillTurnInit, YieldOK
<1>. QED BY <1>1, <1>3 DEF YieldInv

\* An installer writes over a file, and adds or removes none.
LEMMA UpdateListed ==
    ASSUME IsDisk(disk), Update
    PROVE  IsDisk(disk')
<1>1. PICK u \in Updates, i \in DOMAIN disk : \E j \in DOMAIN disk[i].found :
             disk' = [disk EXCEPT ![i].found[j].md = u.md]
  BY DEF Update
<1>2. PICK j \in DOMAIN disk[i].found : disk' = [disk EXCEPT ![i].found[j].md = u.md]
  BY <1>1
<1>. DEFINE f == disk[i].found
            g == [f EXCEPT ![j].md = u.md]
<1>3. /\ Len(disk) \in Nat /\ DOMAIN disk = 1..Len(disk) /\ disk = [k \in 1..Len(disk) |-> disk[k]]
      /\ Len(f) \in Nat /\ f = [k \in 1..Len(f) |-> f[k]]
  BY LenProperties DEF IsDisk, IsList
<1>4. disk' = [disk EXCEPT ![i] = [disk[i] EXCEPT !.found = g]]
  BY <1>2
<1>5. g = [k \in 1..Len(f) |-> g[k]]
  BY <1>3
<1>6. IsList(g)
  <2>. HIDE DEF g, f
  <2>. QED BY <1>3, <1>5, Listed DEF IsList
<1>. HIDE DEF g
<1>7. /\ disk' = [k \in 1..Len(disk) |-> disk'[k]]
      /\ disk'[i] = [disk[i] EXCEPT !.found = g]
      /\ \A k \in DOMAIN disk : k # i => disk'[k] = disk[k]
      /\ DOMAIN disk' = DOMAIN disk
  BY <1>3, <1>4
<1>8. IsList(disk')
  BY <1>3, <1>7, Listed DEF IsList
<1>9. /\ Shaped(disk'[i], {"tier", "found"}) /\ disk'[i].tier = disk[i].tier
      /\ disk'[i].found = g
  BY <1>7 DEF IsDisk, Shaped
<1>10. ASSUME NEW k \in DOMAIN disk'
       PROVE  /\ Shaped(disk'[k], {"tier", "found"}) /\ disk'[k].tier \in DOMAIN TierRank
              /\ IsList(disk'[k].found)
  <2>1. CASE k = i
    BY <1>6, <1>9, <2>1 DEF IsDisk
  <2>2. CASE k # i
    BY <1>7, <2>2 DEF IsDisk
  <2>. QED BY <2>1, <2>2
<1>. QED BY <1>8, <1>10 DEF IsDisk

\* After it has been resolved, nothing changes what a turn has loaded and selected
\* (AgentLoop.Run).
LEMMA SelectionStands ==
    ASSUME PluginInv, NEW t \in DOMAIN Turns, NEW w \in DOMAIN Turns,
           \/ Clear(t) \/ Copy(t) \/ CopyFails(t) \/ Generated(t)
           \/ StartBridge(t) \/ CliEnds(t) \/ Cleanup(t) \/ DaemonDies(t)
    PROVE  /\ turn'[w].roots = turn[w].roots
           /\ turn'[w].loaded = turn[w].loaded
           /\ turn'[w].selected = turn[w].selected
           /\ turn'[w].pc \notin {"load", "dead"} => turn[w].pc \notin {"load", "dead"}
<1>. DEFINE Stands(x, y) == /\ y.roots = x.roots /\ y.loaded = x.loaded
                            /\ y.selected = x.selected
                            /\ y.pc \notin {"load", "dead"} => x.pc \notin {"load", "dead"}
<1>0. /\ turn = [v \in DOMAIN Turns |-> turn[v]]
      /\ \A v \in DOMAIN Turns : Shaped(turn[v], TurnFields)
  BY DEF PluginInv, TurnOK
<1>1. \A f : Stands(turn[w], f[w]) /\ Shaped(f[w], TurnFields)
                 => Stands(turn[w], Disturbing(t, f)[w])
  BY DEF Disturbing, Shaped, TurnFields
<1>2. ASSUME NEW pc, turn[t].pc \notin {"load", "dead"} \/ pc = "dead"
      PROVE  LET f == Go(t, pc) IN Stands(turn[w], f[w]) /\ Shaped(f[w], TurnFields)
  BY <1>0, <1>2 DEF Go, Shaped, TurnFields
<1>3. CASE Clear(t)
  BY <1>1, <1>2, <1>3 DEF Clear
<1>4. CASE Copy(t)
  <2>1. PICK s \in turn[t].todo : turn' = Disturbing(t, [turn EXCEPT ![t].todo = @ \ {s}])
    BY <1>4 DEF Copy
  <2>. DEFINE f == [turn EXCEPT ![t].todo = @ \ {s}]
  <2>2. Stands(turn[w], f[w]) /\ Shaped(f[w], TurnFields)
    BY <1>0 DEF Shaped, TurnFields
  <2>. QED BY <1>1, <2>1, <2>2
<1>5. CASE CopyFails(t) \/ CliEnds(t) \/ DaemonDies(t)
  BY <1>2, <1>5 DEF CopyFails, CliEnds, DaemonDies
<1>6. CASE Generated(t)
  BY <1>0, <1>6 DEF Generated, Shaped, TurnFields
<1>7. CASE StartBridge(t)
  <2>1. PICK up \in BOOLEAN :
           LET f == [turn EXCEPT ![t].bridge = up, ![t].pc = "cli"] IN
           turn' = f \/ turn' = Disturbing(t, f)
    BY <1>7 DEF StartBridge
  <2>. DEFINE f == [turn EXCEPT ![t].bridge = up, ![t].pc = "cli"]
  <2>2. Stands(turn[w], f[w]) /\ Shaped(f[w], TurnFields)
    <3>1. turn[t].pc = "bridge"
      BY <1>7 DEF StartBridge
    <3>2. /\ f[t] = [turn[t] EXCEPT !.bridge = up, !.pc = "cli"]
          /\ w # t => f[w] = turn[w]
      BY <1>0
    <3>. HIDE DEF f
    <3>. QED BY <1>0, <3>1, <3>2 DEF Shaped, TurnFields
  <2>. QED BY <1>1, <2>1, <2>2
<1>8. CASE Cleanup(t)
  BY <1>1, <1>2, <1>8 DEF Cleanup
<1>. QED BY <1>3, <1>4, <1>5, <1>6, <1>7, <1>8

LEMMA YieldKept == PluginInv /\ YieldInv /\ [SkillTurnNext]_skillTurnVars => YieldInv'
<1>. SUFFICES ASSUME PluginInv, YieldInv, [SkillTurnNext]_skillTurnVars PROVE YieldInv'
  OBVIOUS
<1>0. /\ turn = [v \in DOMAIN Turns |-> turn[v]]
      /\ \A v \in DOMAIN Turns : Shaped(turn[v], TurnFields)
  BY DEF PluginInv, TurnOK
<1>1. CASE UNCHANGED skillTurnVars
  BY <1>1 DEF YieldInv, YieldOK, skillTurnVars
<1>2. CASE Update
  <2>1. IsDisk(disk')
    BY <1>2, UpdateListed DEF YieldInv
  <2>2. UNCHANGED turn
    BY <1>2 DEF Update
  <2>. QED BY <2>1, <2>2 DEF YieldInv, YieldOK
<1>3. ASSUME NEW t \in DOMAIN Turns, Load(t) PROVE YieldInv'
  <2>. DEFINE k == turn[t].roots + 1
  <2>1. /\ turn' = [turn EXCEPT ![t].roots = @ + 1, ![t].loaded = @ \o LoadRoot(disk[k])]
        /\ turn[t].pc = "load" /\ turn[t].roots < Len(disk) /\ UNCHANGED disk
    BY <1>3 DEF Load
  <2>2. k \in DOMAIN disk /\ k \in Nat
    <3>1. Len(disk) \in Nat /\ DOMAIN disk = 1..Len(disk) /\ turn[t].roots \in Nat
      BY LenProperties DEF YieldInv, YieldOK, IsDisk, IsList
    <3>. QED BY <2>1, <3>1
  <2>. HIDE DEF k
  <2>3. TierList(LoadRoot(disk[k]))
    BY <2>2, RootListed DEF YieldInv, IsDisk, IsList
  <2>4. TierList(turn[t].loaded \o LoadRoot(disk[k]))
    BY <2>3, LoadedListed DEF YieldInv, YieldOK
  <2>5. /\ turn'[t].roots = k /\ turn'[t].pc = "load"
        /\ turn'[t].loaded = turn[t].loaded \o LoadRoot(disk[k])
        /\ \A w \in DOMAIN Turns : w # t => turn'[w] = turn[w]
    BY <1>0, <2>1 DEF k, Shaped, TurnFields
  <2>6. ASSUME NEW w \in DOMAIN Turns PROVE YieldOK(w)'
    BY <2>2, <2>4, <2>5 DEF YieldInv, YieldOK
  <2>. QED BY <2>1, <2>6 DEF YieldInv
<1>4. ASSUME NEW t \in DOMAIN Turns, Resolve(t) PROVE YieldInv'
  <2>. DEFINE s == Selected(turn[t].loaded, Turns[t].requested)
              u == Unknown(turn[t].loaded, Turns[t].requested)
              pc == IF Turns[t].provider = "claude" /\ s # {} THEN "clear" ELSE "bridge"
  <2>1. turn' = [turn EXCEPT ![t].selected = s, ![t].todo = s, ![t].unknown = u, ![t].pc = pc]
        /\ UNCHANGED disk
    BY <1>4 DEF Resolve
  <2>. HIDE DEF s, u, pc
  <2>2. /\ turn'[t].roots = turn[t].roots /\ turn'[t].loaded = turn[t].loaded
        /\ turn'[t].selected = s
        /\ \A w \in DOMAIN Turns : w # t => turn'[w] = turn[w]
    BY <1>0, <2>1 DEF Shaped, TurnFields
  <2>3. ASSUME NEW w \in DOMAIN Turns PROVE YieldOK(w)'
    BY <2>2 DEF YieldInv, YieldOK, s
  <2>. QED BY <2>1, <2>3 DEF YieldInv
<1>5. ASSUME NEW t \in DOMAIN Turns,
             \/ Clear(t) \/ Copy(t) \/ CopyFails(t) \/ Generated(t)
             \/ StartBridge(t) \/ CliEnds(t) \/ Cleanup(t) \/ DaemonDies(t)
      PROVE  YieldInv'
  <2>1. UNCHANGED disk
    BY <1>5 DEF Clear, Copy, CopyFails, Generated, StartBridge, CliEnds, Cleanup, DaemonDies
  <2>2. ASSUME NEW w \in DOMAIN Turns PROVE YieldOK(w)'
    BY <1>5, SelectionStands DEF YieldInv, YieldOK
  <2>. QED BY <2>1, <2>2 DEF YieldInv
<1>. QED BY <1>1, <1>2, <1>3, <1>4, <1>5 DEF SkillTurnNext

\* resolver.go, Resolve and pickWithPrecedence: of any roots in any order, with
\* any pins and any environment, the skills selected from the tiers above one are
\* those that would be selected without it and the ones below.
THEOREM HigherTiersDecide == SkillTurnSpec => []LowerTiersYield
<1>1. YieldInv => LowerTiersYield
  <2>. SUFFICES ASSUME YieldInv, NEW t \in DOMAIN Turns, turn[t].pc \notin {"load", "dead"},
                       NEW k \in 0..4
                PROVE  Selected(Those(turn[t].loaded, Higher(turn[t].loaded, k)),
                                Turns[t].requested)
                         = {s \in turn[t].selected : TierRank[s.skill.tier] < k}
    BY DEF LowerTiersYield
  <2>1. TierList(turn[t].loaded) /\ k \in Int
        /\ turn[t].selected = Selected(turn[t].loaded, Turns[t].requested)
    BY DEF YieldInv, YieldOK
  <2>. QED BY <2>1, SelectedHigher
<1>. QED BY <1>1, PluginInitial, PluginKept, YieldInitial, YieldKept, PTL DEF SkillTurnSpec

==============================================================================
