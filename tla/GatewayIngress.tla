--------------------------- MODULE GatewayIngress ---------------------------
(***************************************************************************)
(* The webhook endpoint of the gateway (routes/webhooks.go) with the       *)
(* idempotency cache (idempotency.go) and the producer side of the         *)
(* agent:runs stream (queue.go).                                           *)
(*                                                                         *)
(* A channel platform posts a message until it gets a 2xx answer, and may  *)
(* post it again although it did.  Each delivery is handled by a goroutine *)
(* in three calls: SET NX of the message's key, the routing lookup, XADD.  *)
(* Faults names the calls that may fail: "claim", "route" and "enqueue".   *)
(* A failed claim or XADD may still have taken effect in Redis.            *)
(***************************************************************************)
EXTENDS GatewayRepos, Sequences

CONSTANTS
    Messages, NoMessage,
    Origin,       \* the external id each message was sent to
    Requests,     \* webhook deliveries handled at a time
    Faults,
    MaxAttempts,  \* bound on the deliveries of a message
    MaxExpiries   \* bound on the expirations of a key

ASSUME IngressAssumption ==
    /\ NoMessage \notin Messages
    /\ Origin \in [Messages -> Exts]
    /\ MaxAttempts \in Nat /\ MaxExpiries \in Nat

VARIABLES
    claimed,   \* messages whose key is in Redis
    expired,   \* times the key of each message expired
    stream,    \* the entries of agent:runs, oldest first
    attempts,  \* deliveries of each message
    answers,   \* what the platform was told of each message, but errors
    wpc,       \* step of each webhook request
    wmsg,      \* its message
    wroute     \* its routing

redisKeyVars == <<claimed, expired>>
webhookVars  == <<wpc, wmsg, wroute>>
ingressVars  == <<claimed, expired, stream, attempts, answers, wpc, wmsg, wroute>>

Answers == {"ok", "unregistered", "error"}

IngressTypeOK ==
    /\ claimed \subseteq Messages
    /\ expired \in [Messages -> 0..MaxExpiries]
    /\ stream \in Seq([msg : Messages, user : Users, agent : Agents, channel : Channels])
    /\ attempts \in [Messages -> 0..MaxAttempts]
    /\ answers \in [Messages -> SUBSET {"ok", "unregistered"}]
    /\ wpc \in [Requests -> {"idle", "claim", "route", "enqueue"}]
    /\ wmsg \in [Requests -> Messages \cup {NoMessage}]
    /\ wroute \in [Requests -> [channel : Channels \cup {NoChannel}, user : Users \cup {NoUser},
                                agent : Agents \cup {NoAgent}]]

IngressInit ==
    /\ claimed = {}
    /\ expired = [m \in Messages |-> 0]
    /\ stream = <<>>
    /\ attempts = [m \in Messages |-> 0]
    /\ answers = [m \in Messages |-> {}]
    /\ wpc = [r \in Requests |-> "idle"]
    /\ wmsg = [r \in Requests |-> NoMessage]
    /\ wroute = [r \in Requests |-> NoLookup]

-----------------------------------------------------------------------------
\* The platform posts message m; signature and body are in order.
Deliver(r, m) ==
    /\ wpc[r] = "idle"
    /\ attempts[m] < MaxAttempts
    /\ attempts' = [attempts EXCEPT ![m] = @ + 1]
    /\ wpc' = [wpc EXCEPT ![r] = "claim"]
    /\ wmsg' = [wmsg EXCEPT ![r] = m]
    /\ UNCHANGED <<wroute, redisKeyVars, stream, answers>>

\* The handler ends: the platform gets the answer, 200 or 404; on an error it
\* is as if it had none, and posts again.
Answer(r, what) ==
    /\ answers' = [answers EXCEPT ![wmsg[r]] = @ \cup ({what} \ {"error"})]
    /\ wpc' = [wpc EXCEPT ![r] = "idle"]
    /\ wmsg' = [wmsg EXCEPT ![r] = NoMessage]
    /\ wroute' = [wroute EXCEPT ![r] = NoLookup]

\* Mutant: the key is read first and written when the message is enqueued.
Claim_ReadOnly(r) ==
    /\ wpc[r] = "claim"
    /\ wmsg[r] \notin claimed
    /\ wpc' = [wpc EXCEPT ![r] = "route"]
    /\ UNCHANGED <<wmsg, wroute, answers, claimed, expired, stream, attempts>>

\* IdempotencyCache.Claim: SET NX with a time to live.
Claim(r) ==
    /\ wpc[r] = "claim"
    /\ \/ /\ wmsg[r] \notin claimed
          /\ claimed' = claimed \cup {wmsg[r]}
          /\ wpc' = [wpc EXCEPT ![r] = "route"]
          /\ UNCHANGED <<wmsg, wroute, answers>>
       \/ /\ wmsg[r] \in claimed
          /\ Answer(r, "ok")
          /\ UNCHANGED claimed
       \/ /\ "claim" \in Faults
          /\ claimed' \in {claimed, claimed \cup {wmsg[r]}}
          /\ Answer(r, "error")
    /\ UNCHANGED <<expired, stream, attempts>>

\* The routing lookup; 404 when the channel is not registered.
Route(r) ==
    /\ wpc[r] = "route"
    /\ LET found == LookupRouting(Origin[wmsg[r]]) IN
       \/ /\ found # NoLookup
          /\ wroute' = [wroute EXCEPT ![r] = found]
          /\ wpc' = [wpc EXCEPT ![r] = "enqueue"]
          /\ UNCHANGED <<wmsg, answers>>
       \/ found = NoLookup /\ Answer(r, "unregistered")
       \/ "route" \in Faults /\ Answer(r, "error")
    /\ UNCHANGED <<redisKeyVars, stream, attempts>>

\* The AgentRunJob of a message.
Job(m, route) ==
    [msg |-> m, user |-> route.user, agent |-> route.agent, channel |-> route.channel]

\* AgentRunQueue.Enqueue: XADD of the AgentRunJob.
Enqueue(r) ==
    /\ wpc[r] = "enqueue"
    /\ \/ /\ stream' = Append(stream, Job(wmsg[r], wroute[r]))
          /\ Answer(r, "ok")
       \/ /\ "enqueue" \in Faults
          /\ stream' \in {stream, Append(stream, Job(wmsg[r], wroute[r]))}
          /\ Answer(r, "error")
    /\ UNCHANGED <<redisKeyVars, attempts>>

\* The time to live of a key is over.
ExpireKey(m) ==
    /\ m \in claimed
    /\ expired[m] < MaxExpiries
    /\ claimed' = claimed \ {m}
    /\ expired' = [expired EXCEPT ![m] = @ + 1]
    /\ UNCHANGED <<stream, attempts, answers, webhookVars>>

WebhookStep(r) == Claim(r) \/ Route(r) \/ Enqueue(r)

\* The process dies: the platform gets no answer to what it was handling.
IngressCrash ==
    /\ wpc' = [r \in Requests |-> "idle"]
    /\ wmsg' = [r \in Requests |-> NoMessage]
    /\ wroute' = [r \in Requests |-> NoLookup]
    /\ UNCHANGED <<claimed, expired, stream, attempts, answers>>

-----------------------------------------------------------------------------
EntriesOf(m) == {i \in DOMAIN stream : stream[i].msg = m}
=============================================================================
