-------------------------- MODULE AgentRunConsumer --------------------------
(***************************************************************************)
(* The consumer of the agent:runs stream (consumer.go) and the Redis       *)
(* consumer group it reads through.  Its goroutine takes a batch, and for  *)
(* every entry looks the channel up, runs the runtime daemon, sends the    *)
(* reply and acknowledges the entry, whether the job succeeded or not.     *)
(*                                                                         *)
(* The consumer's name in the group is its process id: after a restart it  *)
(* may be the same (a container) or another one.  Entries delivered under  *)
(* a name stay pending under it until they are acknowledged.               *)
(*                                                                         *)
(* Faults, besides those of GatewayIngress: "read" (the reply of           *)
(* XREADGROUP is lost), "lookup" (a query fails), "daemon" (the run        *)
(* fails), "send" (SendOutgoing fails, the reply may be out), "ack".       *)
(***************************************************************************)
EXTENDS GatewayIngress

CONSTANTS
    Pids,       \* process ids a start can get
    NoPid,
    BatchSize   \* readBatchSize

ASSUME ConsumerAssumption == NoPid \notin Pids /\ BatchSize \in Nat \ {0}

VARIABLES
    last,     \* number of entries the group has delivered
    pending,  \* consumer each delivered and unacknowledged entry belongs to
    self,     \* the consumer's name
    cpc,      \* its step
    batch,    \* the entries it has in hand, as positions in the stream
    ended,    \* entries for which processJob has returned
    replies   \* replies sent for each entry

groupVars    == <<last, pending>>
consumerVars == <<last, pending, self, cpc, batch, ended, replies>>

ConsumerTypeOK ==
    /\ last \in 0..Len(stream)
    /\ DOMAIN pending \subseteq 1..last
    /\ \A i \in DOMAIN pending : pending[i] \in Pids
    /\ self \in IF cpc = "down" THEN {NoPid} ELSE Pids
    /\ cpc \in {"down", "pending", "read", "job", "run", "reply", "ack"}
    /\ DOMAIN replies = 1..last
    /\ \A i \in DOMAIN replies : replies[i] \in Nat

ConsumerInit ==
    /\ last = 0
    /\ pending = <<>>
    /\ self \in Pids
    /\ cpc = "pending"
    /\ batch = <<>>
    /\ ended = {}
    /\ replies = <<>>

\* The entries of a set, oldest first: the one increasing sequence of them.
InOrder(S) ==
    {b \in [1..Cardinality(S) -> S] : \A j, k \in DOMAIN b : j < k => b[j] < b[k]}

\* Where the consumer goes on with batch b in hand.
NextStep(b) == IF b = <<>> THEN "read" ELSE "job"

-----------------------------------------------------------------------------
\* processPending: XREADGROUP from id 0 returns what is pending for this name.
ProcessPending ==
    /\ cpc = "pending"
    /\ \/ batch' \in InOrder({i \in DOMAIN pending : pending[i] = self})
       \/ /\ "read" \in Faults
          /\ batch' = <<>>
    /\ cpc' = NextStep(batch')
    /\ UNCHANGED <<groupVars, self, ended, replies>>

\* XREADGROUP of new entries.  They are pending even if the reply is lost.
ReadGroup ==
    /\ cpc = "read"
    /\ last < Len(stream)
    /\ LET upto == IF Len(stream) - last < BatchSize THEN Len(stream) ELSE last + BatchSize
           new  == (last + 1)..upto
       IN /\ last' = upto
          /\ pending' = [i \in DOMAIN pending \cup new |->
                            IF i \in new THEN self ELSE pending[i]]
          /\ replies' = [i \in 1..upto |-> IF i \in new THEN 0 ELSE replies[i]]
          /\ \/ batch' \in InOrder(new)
             \/ /\ "read" \in Faults
                /\ batch' = <<>>
    /\ cpc' = NextStep(batch')
    /\ UNCHANGED <<self, ended>>

\* Mutant: the batch is walked from its end.
Entry_Newest == batch[Len(batch)]

\* The entry in hand.
Entry == Head(batch)

\* processJob returns for the entry in hand.
EndJob ==
    /\ ended' = ended \cup {Entry}
    /\ cpc' = "ack"

\* Mutant: the entry is acknowledged when its job is taken up.
LookupChannel_AckFirst ==
    /\ cpc = "job"
    /\ cpc' = "run"
    /\ pending' = [i \in DOMAIN pending \ {Entry} |-> pending[i]]
    /\ UNCHANGED <<last, self, batch, replies, ended>>

\* The channel of the job is looked up again, for its type.
LookupChannel ==
    /\ cpc = "job"
    /\ \/ ChannelExists(stream[Entry].channel) /\ cpc' = "run" /\ UNCHANGED ended
       \/ ~ChannelExists(stream[Entry].channel) /\ EndJob
       \/ "lookup" \in Faults /\ EndJob
    /\ UNCHANGED <<groupVars, self, batch, replies>>

\* spawnDaemon, after the agent's configuration is fetched.
SpawnDaemon ==
    /\ cpc = "run"
    /\ \/ AgentExists(stream[Entry].agent) /\ cpc' = "reply" /\ UNCHANGED ended
       \/ ~AgentExists(stream[Entry].agent) /\ EndJob
       \/ ("lookup" \in Faults \/ "daemon" \in Faults) /\ EndJob
    /\ UNCHANGED <<groupVars, self, batch, replies>>

\* sendReply.
SendReply ==
    /\ cpc = "reply"
    /\ \/ replies' = [replies EXCEPT ![Entry] = @ + 1]
       \/ "send" \in Faults /\ UNCHANGED replies
    /\ EndJob
    /\ UNCHANGED <<groupVars, self, batch>>

\* Mutant: an entry whose XACK failed is handled again at once.
Ack_Retry ==
    /\ cpc = "ack"
    /\ \/ /\ pending' = [i \in DOMAIN pending \ {Entry} |-> pending[i]]
          /\ batch' = Tail(batch)
       \/ /\ "ack" \in Faults
          /\ UNCHANGED <<pending, batch>>
    /\ cpc' = NextStep(batch')
    /\ UNCHANGED <<last, self, ended, replies>>

\* XACK.  If it fails the entry stays pending.
Ack ==
    /\ cpc = "ack"
    /\ \/ pending' = [i \in DOMAIN pending \ {Entry} |-> pending[i]]
       \/ "ack" \in Faults /\ UNCHANGED pending
    /\ batch' = Tail(batch)
    /\ cpc' = NextStep(batch')
    /\ UNCHANGED <<last, self, ended, replies>>

ConsumerStep ==
    \/ ProcessPending \/ ReadGroup \/ LookupChannel \/ SpawnDaemon
    \/ SendReply \/ Ack

ConsumerCrash ==
    /\ cpc' = "down"
    /\ batch' = <<>>
    /\ self' = NoPid
    /\ UNCHANGED <<groupVars, ended, replies>>

\* Mutant: a start goes straight to the new entries.
ConsumerRestart_SkipPending ==
    /\ cpc = "down"
    /\ self' \in Pids
    /\ cpc' = "read"
    /\ UNCHANGED <<groupVars, batch, ended, replies>>

ConsumerRestart ==
    /\ cpc = "down"
    /\ self' \in Pids
    /\ cpc' = "pending"
    /\ UNCHANGED <<groupVars, batch, ended, replies>>
=============================================================================
