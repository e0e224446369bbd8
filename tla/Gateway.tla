------------------------------ MODULE Gateway ------------------------------
(***************************************************************************)
(* The gateway process of cmd/gateway: webhook handlers, the API that      *)
(* manages agents and channels, and the consumer, around the Redis and     *)
(* Postgres servers that outlive it.  A crash loses the process's memory;  *)
(* SIGTERM is no different, for the cancelled context makes the rest of    *)
(* the batch fail without an acknowledgement.                              *)
(***************************************************************************)
EXTENDS AgentRunConsumer

CONSTANT MaxCrashes  \* bound on the crashes

ASSUME GatewayAssumption == MaxCrashes \in Nat

VARIABLE crashes

vars == <<repo, agents, rows, byExt, issued, granted, call,
          claimed, expired, stream, attempts, answers, wpc, wmsg, wroute,
          last, pending, self, cpc, batch, ended, replies, crashes>>

Init ==
    /\ ReposInit
    /\ IngressInit
    /\ ConsumerInit
    /\ crashes = 0

Up == cpc # "down"

Api == Up /\ ApiStep /\ UNCHANGED <<ingressVars, consumerVars, crashes>>

Webhook(r) ==
    /\ Up
    /\ WebhookStep(r)
    /\ UNCHANGED <<repoVars, consumerVars, crashes>>

Platform ==
    \/ /\ Up
       /\ \E r \in Requests, m \in Messages : Deliver(r, m)
       /\ UNCHANGED <<repoVars, consumerVars, crashes>>
    \/ /\ \E m \in Messages : ExpireKey(m)
       /\ UNCHANGED <<repoVars, consumerVars, crashes>>

Consume == ConsumerStep /\ UNCHANGED <<repoVars, ingressVars, crashes>>

Crash ==
    /\ Up
    /\ crashes < MaxCrashes
    /\ crashes' = crashes + 1
    /\ IngressCrash
    /\ ConsumerCrash
    /\ UNCHANGED repoVars

Restart ==
    /\ ConsumerRestart
    /\ ReposRestart
    /\ UNCHANGED <<ingressVars, crashes>>

Next ==
    \/ Api \/ Platform \/ Consume \/ Crash \/ Restart
    \/ \E r \in Requests : Webhook(r)

Spec == Init /\ [][Next]_vars

\* The consumer's goroutine runs, and a dead process is started again.
\* Nothing else is owed: no request, and no end of one.
Fairness == WF_vars(Consume) /\ WF_vars(Restart)

FairSpec == Spec /\ Fairness

-----------------------------------------------------------------------------
TypeOK == ReposTypeOK /\ IngressTypeOK /\ ConsumerTypeOK /\ crashes \in 0..MaxCrashes

\* Claim before enqueue: however deliveries of a message interleave, fail and
\* are repeated, it is enqueued at most once per life of its key.
OneEntryPerWindow ==
    \A m \in Messages : Cardinality(EntriesOf(m)) <= 1 + expired[m]

\* F06: "Duplicate webhook within TTL -> 200 OK both times, exactly 1 stream
\* entry".  A message of a registered channel that was answered 200 has its
\* entry, once no delivery of it is being handled any more.
AnsweredIsQueued ==
    \A m \in Messages :
        /\ "ok" \in answers[m]
        /\ "unregistered" \notin answers[m]
        /\ \A r \in Requests : wmsg[r] # m
        => EntriesOf(m) # {}

\* An entry leaves the group only after its job has ended: a crash at any
\* point leaves every unfinished job pending or undelivered.
NothingLost ==
    \A i \in 1..last : i \in DOMAIN pending \/ i \in ended

\* The jobs of the batch in hand are pending under the consumer's own name and
\* oldest first, and no later entry was handled before an earlier one unless
\* the process crashed: replies keep the order of the messages.
InStreamOrder ==
    /\ \A i \in DOMAIN batch : batch[i] \in DOMAIN pending /\ pending[batch[i]] = self
    /\ \A i, j \in DOMAIN batch : i < j => batch[i] < batch[j]
    /\ crashes = 0 /\ batch # <<>> =>
          \A i \in ended : IF cpc = "ack" THEN i <= Entry ELSE i < Entry

\* A reply is repeated only for a crash between sending it and the XACK.
RepliesBounded ==
    \A i \in DOMAIN replies : replies[i] <= 1 + crashes

\* No registration, re-registration or deletion makes a job run one user's
\* message with another user's agent, unless an administrator registered that
\* very pair.  (An agent deleted since has no owner.)
JobsOfOneTenant ==
    \A i \in DOMAIN stream, r \in Repos :
        \/ agents[r][stream[i].agent] \in {stream[i].user, NoUser}
        \/ <<stream[i].user, stream[i].agent>> \in granted

\* consumer.go: processPending re-delivers "any messages that were delivered
\* to crashed consumers but never acknowledged".  Every entry is handled.
EveryEntryEnds ==
    \A k \in 1..(Cardinality(Messages) * (1 + MaxExpiries)) :
        k \in DOMAIN stream ~> k \in ended
=============================================================================
