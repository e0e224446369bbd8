---------------------------- MODULE GatewayProofs ---------------------------
(***************************************************************************)
(* Proofs about Gateway: its types; that no job runs a user's message with *)
(* another user's agent (JobsOfOneTenant); that no entry leaves the        *)
(* consumer group before its job has ended (NothingLost); that a message   *)
(* is enqueued once per life of its key (OneEntryPerWindow); that jobs     *)
(* are handled in stream order (InStreamOrder); and that a reply is        *)
(* repeated only for a crash (RepliesBounded).                             *)
(*                                                                         *)
(* The agent a job will run is copied from the API request to the channel  *)
(* row or the routing index, from there to the webhook handler and to the  *)
(* stream.  The invariant says of every copy that the agent's id has been  *)
(* issued, never to be issued again, and that the user beside it owns the  *)
(* agent in each repository that still has it, or was given it by an       *)
(* administrator.  It is false of the in-memory channel rows, which a      *)
(* re-registration leaves with the first user and the second one's agent;  *)
(* routing reads the index instead.                                        *)
(***************************************************************************)
EXTENDS Gateway, SequenceTheorems, FiniteSetTheorems, TLAPS

Owner(u, a) == /\ a \in issued
               /\ \/ \A r \in Repos : agents[r][a] \in {u, NoUser}
                  \/ <<u, a>> \in granted
Held(x)     == x.user \in Users /\ x.agent \in Agents /\ Owner(x.user, x.agent)
Routed(x)   == Held(x) /\ x.channel \in Channels

AgentsOwned == \A r \in Repos, a \in Agents :
                  agents[r][a] # NoUser => Owner(agents[r][a], a)
CallsOwned  == \A k \in Callers : call[k].op = "register" => Held(call[k])
RowsOwned   == \A r \in Repos \ {"memory"}, c \in Channels :
                  rows[r][c].ext # NoExt => Held(rows[r][c])
IndexOwned  == \A e \in Exts : byExt[e] # NoLookup => Routed(byExt[e])
RoutesOwned == \A q \in Requests : wpc[q] = "enqueue" => Routed(wroute[q])
StreamOwned == \A i \in DOMAIN stream : Held(stream[i])
AtWork      == \A q \in Requests : wpc[q] # "idle" => wmsg[q] \in Messages

CallSet == [op : {"none", "register", "channel", "agent"},
            user : Users \cup {NoUser}, agent : Agents \cup {NoAgent},
            channel : Channels \cup {NoChannel}, ext : Exts \cup {NoExt}]

TenantInv ==
    /\ ReposTypeOK /\ IngressTypeOK /\ AtWork
    /\ AgentsOwned /\ CallsOwned /\ RowsOwned /\ IndexOwned /\ RoutesOwned /\ StreamOwned

-----------------------------------------------------------------------------
LEMMA TenantInitial == Init => TenantInv
<1> SUFFICES ASSUME Init PROVE TenantInv
  OBVIOUS
<1>1. ReposTypeOK
  BY DEF Init, ReposInit, ReposTypeOK, NoRow, NoLookup, NoCall
<1>2. IngressTypeOK /\ AtWork
  BY IngressAssumption DEF Init, IngressInit, IngressTypeOK, AtWork, NoLookup, Answers
<1>3. AgentsOwned /\ CallsOwned /\ RowsOwned /\ IndexOwned
  BY DEF Init, ReposInit, AgentsOwned, CallsOwned, RowsOwned, IndexOwned, NoRow, NoCall
<1>4. RoutesOwned /\ StreamOwned
  BY DEF Init, IngressInit, RoutesOwned, StreamOwned
<1> QED
  BY <1>1, <1>2, <1>3, <1>4 DEF TenantInv

\* An id is not issued twice, an agent is never handed to another user, and what
\* an administrator did is not undone, so what was owned stays so (CreateAgent,
\* Delete).
LEMMA OwnerKept ==
    ASSUME issued \subseteq issued', granted \subseteq granted',
           \A r \in Repos, a \in Agents :
              a \in issued => agents'[r][a] \in {agents[r][a], NoUser}
    PROVE  \A u, a : a \in Agents /\ Owner(u, a) => Owner(u, a)'
  BY DEF Owner

\* What routing finds is held (LookupByExternalID).
LEMMA FoundIsHeld ==
    ASSUME TenantInv, NEW e \in Exts, LookupRouting(e) # NoLookup
    PROVE  Routed(LookupRouting(e))
<1>1. CASE repo = "memory"
  BY <1>1 DEF TenantInv, IndexOwned, LookupRouting
<1>2. CASE repo # "memory"
  <2>1. \E b \in Channels : rows[repo][b].ext = e
    BY <1>2 DEF LookupRouting
  <2> DEFINE d == CHOOSE c \in Channels : rows[repo][c].ext = e
  <2>2. d \in Channels /\ rows[repo][d].ext = e
    BY <2>1
  <2>3. LookupRouting(e) = [channel |-> d, user |-> rows[repo][d].user,
                            agent |-> rows[repo][d].agent]
    BY <1>2, <2>1 DEF LookupRouting
  <2>4. repo \in Repos \ {"memory"} /\ e # NoExt
    BY <1>2, ReposAssumption DEF TenantInv, ReposTypeOK
  <2>5. Held(rows[repo][d])
    BY <2>2, <2>4 DEF TenantInv, RowsOwned
  <2> HIDE DEF d
  <2> QED
    BY <2>2, <2>3, <2>5 DEF Held, Routed
<1> QED
  BY <1>1, <1>2

\* The lookup gives a routing, or NoLookup.
LEMMA FoundType ==
    ASSUME ReposTypeOK, NEW e \in Exts
    PROVE  LookupRouting(e) \in [channel : Channels \cup {NoChannel}, user : Users \cup {NoUser},
                                 agent : Agents \cup {NoAgent}]
<1>1. CASE repo = "memory"
  BY <1>1 DEF ReposTypeOK, LookupRouting
<1>2. CASE repo # "memory" /\ \E c \in Channels : rows[repo][c].ext = e
  <2> DEFINE d == CHOOSE c \in Channels : rows[repo][c].ext = e
  <2>1. d \in Channels
    BY <1>2
  <2>2. LookupRouting(e) = [channel |-> d, user |-> rows[repo][d].user,
                            agent |-> rows[repo][d].agent]
    BY <1>2 DEF LookupRouting
  <2>3. rows[repo][d] \in [ext : Exts \cup {NoExt}, user : Users \cup {NoUser},
                           agent : Agents \cup {NoAgent}]
    BY <2>1 DEF ReposTypeOK
  <2> HIDE DEF d
  <2> QED
    BY <2>1, <2>2, <2>3
<1>3. CASE repo # "memory" /\ ~\E c \in Channels : rows[repo][c].ext = e
  BY <1>3 DEF LookupRouting, NoLookup
<1> QED
  BY <1>1, <1>2, <1>3

-----------------------------------------------------------------------------
(***************************************************************************)
(* The steps of the API: what agents, channels and the index hold.         *)
(***************************************************************************)
\* What is not the repositories' stays as it was, and so does who owns what.
LEMMA StreamKept ==
    ASSUME TenantInv, UNCHANGED <<wpc, wmsg, wroute, stream>>,
           issued \subseteq issued', granted \subseteq granted',
           \A r \in Repos, a \in Agents :
              a \in issued => agents'[r][a] \in {agents[r][a], NoUser}
    PROVE  RoutesOwned' /\ StreamOwned' /\ AtWork'
<1>1. \A u, a : a \in Agents /\ Owner(u, a) => Owner(u, a)'
  BY OwnerKept
<1> QED
  BY <1>1 DEF TenantInv, RoutesOwned, StreamOwned, AtWork, Held, Routed, Owner

LEMMA CreateKeeps ==
    ASSUME TenantInv, NEW u \in Users, CreateAgent(u), UNCHANGED <<wpc, wmsg, wroute, stream>>
    PROVE  /\ ReposTypeOK' /\ AgentsOwned' /\ CallsOwned' /\ RowsOwned' /\ IndexOwned'
           /\ RoutesOwned' /\ StreamOwned' /\ AtWork'
<1>1. PICK a \in Agents \ issued : agents' = [agents EXCEPT ![repo][a] = u]
                                   /\ issued' = issued \cup {a}
  BY DEF CreateAgent
<1>2. UNCHANGED <<repo, rows, byExt, granted, call>>
  BY DEF CreateAgent
<1>3. ReposTypeOK'
  BY <1>1, <1>2 DEF TenantInv, ReposTypeOK
<1>4. \A r \in Repos, b \in Agents :
         agents'[r][b] = IF r = repo /\ b = a THEN u ELSE agents[r][b]
  BY <1>1 DEF TenantInv, ReposTypeOK
<1>5. \A v, b : b \in Agents /\ Owner(v, b) => Owner(v, b)'
  BY <1>1, <1>2, <1>4, OwnerKept
<1>6. a \in issued' /\ \A r \in Repos : agents'[r][a] \in {u, NoUser}
  <2>1. \A r \in Repos : agents[r][a] = NoUser
    BY DEF TenantInv, AgentsOwned, Owner
  <2> QED
    BY <1>1, <1>4, <2>1
<1>7. AgentsOwned'
  BY <1>4, <1>5, <1>6 DEF TenantInv, AgentsOwned, Owner
<1>8. CallsOwned' /\ RowsOwned' /\ IndexOwned'
  BY <1>2, <1>5 DEF TenantInv, CallsOwned, RowsOwned, IndexOwned, Held, Routed, Owner
<1>9. RoutesOwned' /\ StreamOwned' /\ AtWork'
  BY <1>1, <1>2, <1>4, StreamKept
<1> QED
  BY <1>3, <1>7, <1>8, <1>9

\* A first check reads the rows and fills the call in.
LEMMA CheckKeeps ==
    ASSUME TenantInv, NEW k \in Callers, NEW u \in Users, UNCHANGED <<wpc, wmsg, wroute, stream>>,
           \/ \E e \in Exts, a \in Agents : RegisterCheck(k, u, e, a)
           \/ \E c \in Channels : DeleteChannelCheck(k, u, c)
           \/ \E a \in Agents : DeleteAgentCheck(k, u, a)
    PROVE  /\ ReposTypeOK' /\ AgentsOwned' /\ CallsOwned' /\ RowsOwned' /\ IndexOwned'
           /\ RoutesOwned' /\ StreamOwned' /\ AtWork'
<1>1. UNCHANGED <<repo, agents, rows, byExt, issued, granted>>
  BY DEF RegisterCheck, DeleteChannelCheck, DeleteAgentCheck
<1>2. \E x \in CallSet : call' = [call EXCEPT ![k] = x] /\ (x.op = "register" => Held(x))
  <2>1. ASSUME NEW e \in Exts, NEW a \in Agents, RegisterCheck(k, u, e, a)
        PROVE  \E x \in CallSet : call' = [call EXCEPT ![k] = x] /\ (x.op = "register" => Held(x))
    <3> DEFINE x == [op |-> "register", user |-> u, agent |-> a, channel |-> NoChannel, ext |-> e]
    <3>1. call' = [call EXCEPT ![k] = x]
      BY <2>1 DEF RegisterCheck
    <3>2. x \in CallSet
      BY DEF CallSet
    <3>3. Owner(u, a)
      BY <2>1, ReposAssumption DEF TenantInv, ReposTypeOK, AgentsOwned, RegisterCheck
    <3> QED
      BY <3>1, <3>2, <3>3 DEF Held, Routed
  <2>2. ASSUME NEW c \in Channels, DeleteChannelCheck(k, u, c)
        PROVE  \E x \in CallSet : call' = [call EXCEPT ![k] = x] /\ (x.op = "register" => Held(x))
    <3> DEFINE x == [op |-> "channel", user |-> NoUser, agent |-> NoAgent, channel |-> c, ext |-> NoExt]
    <3>1. call' = [call EXCEPT ![k] = x]
      BY <2>2 DEF DeleteChannelCheck
    <3>2. x \in CallSet /\ x.op # "register"
      BY DEF CallSet
    <3> QED
      BY <3>1, <3>2
  <2>3. ASSUME NEW a \in Agents, DeleteAgentCheck(k, u, a)
        PROVE  \E x \in CallSet : call' = [call EXCEPT ![k] = x] /\ (x.op = "register" => Held(x))
    <3> DEFINE x == [op |-> "agent", user |-> NoUser, agent |-> a, channel |-> NoChannel, ext |-> NoExt]
    <3>1. call' = [call EXCEPT ![k] = x]
      BY <2>3 DEF DeleteAgentCheck
    <3>2. x \in CallSet /\ x.op # "register"
      BY DEF CallSet
    <3> QED
      BY <3>1, <3>2
  <2> QED
    BY <2>1, <2>2, <2>3
<1>3. ReposTypeOK' /\ CallsOwned'
  <2>1. PICK x \in CallSet : call' = [call EXCEPT ![k] = x] /\ (x.op = "register" => Held(x))
    BY <1>2
  <2>2. call \in [Callers -> CallSet]
    BY DEF TenantInv, ReposTypeOK, CallSet
  <2>3. call' \in [Callers -> CallSet] /\ \A j \in Callers : call'[j] = IF j = k THEN x ELSE call[j]
    BY <2>1, <2>2
  <2>4. ReposTypeOK'
    BY <1>1, <2>3 DEF TenantInv, ReposTypeOK, CallSet
  <2>5. CallsOwned'
    BY <1>1, <2>1, <2>3 DEF TenantInv, CallsOwned, Held, Owner
  <2> QED
    BY <2>4, <2>5
<1>4. AgentsOwned' /\ RowsOwned' /\ IndexOwned'
  BY <1>1 DEF TenantInv, AgentsOwned, RowsOwned, IndexOwned, Held, Routed, Owner
<1>5. RoutesOwned' /\ StreamOwned' /\ AtWork'
  BY <1>1 DEF TenantInv, RoutesOwned, StreamOwned, AtWork, Held, Routed, Owner
<1> QED
  BY <1>3, <1>4, <1>5

\* What Postgres or the index is given on a registration is what was asked for.
LEMMA RegisterKeeps ==
    ASSUME TenantInv, NEW u \in Users, NEW e \in Exts \cup {NoExt}, NEW a \in Agents,
           Register(u, e, a), UNCHANGED <<repo, agents>>, call' \in [Callers -> CallSet],
           \A k \in Callers : call'[k] = call[k] \/ call'[k].op # "register",
           granted \subseteq granted', granted' \subseteq AdminPairs, a \in issued,
           \/ \A r \in Repos : agents[r][a] \in {u, NoUser}
           \/ <<u, a>> \in granted',
           UNCHANGED <<wpc, wmsg, wroute, stream>>
    PROVE  /\ ReposTypeOK' /\ AgentsOwned' /\ CallsOwned' /\ RowsOwned' /\ IndexOwned'
           /\ RoutesOwned' /\ StreamOwned' /\ AtWork'
<1>0. issued \subseteq issued'
  BY DEF Register, InsertChannel, Reregister
<1>1. Owner(u, a)'
  BY <1>0 DEF Owner
<1>2. \A v, b : b \in Agents /\ Owner(v, b) => Owner(v, b)'
  BY <1>0, OwnerKept
<1>3. AgentsOwned' /\ CallsOwned' /\ RoutesOwned' /\ StreamOwned' /\ AtWork'
  <2>1. RoutesOwned' /\ StreamOwned' /\ AtWork'
    BY <1>0, StreamKept
  <2>2. AgentsOwned' /\ CallsOwned'
    BY <1>2 DEF TenantInv, AgentsOwned, CallsOwned, Held, Owner
  <2> QED
    BY <2>1, <2>2
<1> DEFINE row == [ext |-> e, user |-> u, agent |-> a]
<1>4. CASE LookupRouting(e) = NoLookup
  <2>1. PICK c \in Channels \ issued :
           /\ issued' = issued \cup {c}
           /\ rows' = [rows EXCEPT ![repo][c] = row]
           /\ byExt' = IF repo = "memory"
                       THEN [byExt EXCEPT ![e] = [channel |-> c, user |-> u, agent |-> a]]
                       ELSE byExt
    BY <1>4 DEF Register, InsertChannel
  <2>2. ReposTypeOK'
    BY <2>1 DEF TenantInv, ReposTypeOK, CallSet
  <2>3. RowsOwned' /\ IndexOwned'
    <3>1. /\ \A r \in Repos \ {"memory"}, d \in Channels : rows'[r][d] \in {rows[r][d], row}
          /\ \A f \in Exts : byExt'[f] \in {byExt[f], [channel |-> c, user |-> u, agent |-> a]}
      BY <2>1 DEF TenantInv, ReposTypeOK
    <3>2. RowsOwned'
      <4>1. SUFFICES ASSUME NEW r \in Repos \ {"memory"}, NEW d \in Channels, rows'[r][d].ext # NoExt
                     PROVE  Held(rows[r][d])'
        BY DEF RowsOwned
      <4>2. CASE rows'[r][d] = rows[r][d]
        BY <1>2, <4>1, <4>2 DEF TenantInv, RowsOwned, Held, Owner
      <4>3. CASE rows'[r][d] = row
        BY <1>1, <4>3 DEF Held, Owner
      <4> QED
        BY <3>1, <4>2, <4>3
    <3>3. IndexOwned'
      <4>1. SUFFICES ASSUME NEW f \in Exts, byExt'[f] # NoLookup
                     PROVE  Routed(byExt[f])'
        BY DEF IndexOwned, NoLookup
      <4>2. CASE byExt'[f] = byExt[f]
        BY <1>2, <4>1, <4>2 DEF TenantInv, IndexOwned, Routed, Held, Owner
      <4>3. CASE byExt'[f] = [channel |-> c, user |-> u, agent |-> a]
        BY <1>1, <4>3 DEF Routed, Held, Owner
      <4> QED
        BY <3>1, <4>2, <4>3
    <3> QED
      BY <3>2, <3>3
  <2> QED
    BY <1>3, <2>2, <2>3
<1>5. CASE LookupRouting(e) # NoLookup
  <2> DEFINE c == LookupRouting(e).channel
  <2>1. /\ UNCHANGED <<byExt, issued>>
        /\ rows' = IF repo = "memory" THEN [rows EXCEPT ![repo][c].agent = a]
                                      ELSE [rows EXCEPT ![repo][c] = row]
    BY <1>5 DEF Register, Reregister
  <2> HIDE DEF c
  <2>2. rows' \in [Repos -> [Channels -> [ext : Exts \cup {NoExt}, user : Users \cup {NoUser},
                                          agent : Agents \cup {NoAgent}]]]
    <3>1. CASE repo = "memory"
      <4>1. rows' = [rows EXCEPT ![repo] = [rows[repo] EXCEPT ![c] = [rows[repo][c] EXCEPT !.agent = a]]]
        BY <2>1, <3>1
      <4>2. rows[repo] \in [Channels -> [ext : Exts \cup {NoExt}, user : Users \cup {NoUser},
                                         agent : Agents \cup {NoAgent}]]
        BY DEF TenantInv, ReposTypeOK
      <4>3. [rows[repo] EXCEPT ![c] = [rows[repo][c] EXCEPT !.agent = a]]
               \in [Channels -> [ext : Exts \cup {NoExt}, user : Users \cup {NoUser},
                                 agent : Agents \cup {NoAgent}]]
        <5>1. CASE c \in Channels
          BY <4>2, <5>1
        <5>2. CASE c \notin Channels
          BY <4>2, <5>2
        <5> QED
          BY <5>1, <5>2
      <4> QED
        BY <4>1, <4>3 DEF TenantInv, ReposTypeOK
    <3>2. CASE repo # "memory"
      BY <2>1, <3>2 DEF TenantInv, ReposTypeOK
    <3> QED
      BY <3>1, <3>2
  <2>3. ReposTypeOK'
    BY <2>1, <2>2 DEF TenantInv, ReposTypeOK, CallSet
  <2>4. RowsOwned' /\ IndexOwned'
    <3>1. \A r \in Repos \ {"memory"}, d \in Channels : rows'[r][d] \in {rows[r][d], row}
      <4>1. CASE repo = "memory"
        BY <2>1, <4>1 DEF TenantInv, ReposTypeOK
      <4>2. CASE repo # "memory"
        BY <2>1, <4>2 DEF TenantInv, ReposTypeOK
      <4> QED
        BY <4>1, <4>2
    <3>2. RowsOwned'
      BY <1>1, <1>2, <3>1 DEF TenantInv, RowsOwned, Held
    <3>3. IndexOwned'
      BY <1>2, <2>1 DEF TenantInv, IndexOwned, Routed, Held
    <3> QED
      BY <3>2, <3>3
  <2> QED
    BY <1>3, <2>3, <2>4
<1> QED
  BY <1>4, <1>5

\* Users register their own agents, an administrator what it wants (POST
\* /channels, POST /admin/channels).
LEMMA RegistrationsKeep ==
    ASSUME TenantInv, UNCHANGED <<wpc, wmsg, wroute, stream>>,
           \/ \E k \in Callers : RegisterWrite(k)
           \/ \E u \in Users, e \in Exts, a \in Agents : AdminRegister(u, e, a)
    PROVE  /\ ReposTypeOK' /\ AgentsOwned' /\ CallsOwned' /\ RowsOwned' /\ IndexOwned'
           /\ RoutesOwned' /\ StreamOwned' /\ AtWork'
<1>1. call \in [Callers -> CallSet] /\ granted \subseteq AdminPairs
  BY DEF TenantInv, ReposTypeOK, CallSet
<1>2. ASSUME NEW k \in Callers, RegisterWrite(k)
      PROVE  /\ ReposTypeOK' /\ AgentsOwned' /\ CallsOwned' /\ RowsOwned' /\ IndexOwned'
             /\ RoutesOwned' /\ StreamOwned' /\ AtWork'
  <2> DEFINE u == call[k].user
             e == call[k].ext
             a == call[k].agent
  <2>1. /\ UNCHANGED <<repo, agents, granted>> /\ Register(u, e, a)
        /\ call' = [call EXCEPT ![k] = NoCall]
    BY <1>2 DEF RegisterWrite
  <2>2. a \in Agents /\ Owner(u, a) /\ u \in Users /\ e \in Exts \cup {NoExt}
    BY <1>2 DEF TenantInv, ReposTypeOK, CallsOwned, RegisterWrite, Held
  <2>3. NoCall \in CallSet /\ NoCall.op # "register"
    BY DEF CallSet, NoCall
  <2>4. call' \in [Callers -> CallSet] /\ \A j \in Callers : call'[j] = call[j] \/ call'[j].op # "register"
    BY <1>1, <2>1, <2>3
  <2> HIDE DEF u, e, a
  <2> QED
    BY <1>1, <2>1, <2>2, <2>4, RegisterKeeps DEF Owner
<1>3. ASSUME NEW u \in Users, NEW e \in Exts, NEW a \in Agents, AdminRegister(u, e, a)
      PROVE  /\ ReposTypeOK' /\ AgentsOwned' /\ CallsOwned' /\ RowsOwned' /\ IndexOwned'
             /\ RoutesOwned' /\ StreamOwned' /\ AtWork'
  <2>1. /\ UNCHANGED <<repo, agents, call>> /\ Register(u, e, a) /\ a \in issued
        /\ granted \subseteq granted' /\ granted' \subseteq AdminPairs
        /\ (\A r \in Repos : agents[r][a] \in {u, NoUser}) \/ <<u, a>> \in granted'
    BY <1>1, <1>3 DEF AdminRegister, Mixed
  <2> QED
    BY <1>1, <2>1, RegisterKeeps
<1> QED
  BY <1>2, <1>3

\* A delete only takes away: an agent's owner, a row, an entry of the index.
LEMMA DeleteKeeps ==
    ASSUME TenantInv, NEW k \in Callers, DeleteChannelWrite(k) \/ DeleteAgentWrite(k),
           UNCHANGED <<wpc, wmsg, wroute, stream>>
    PROVE  /\ ReposTypeOK' /\ AgentsOwned' /\ CallsOwned' /\ RowsOwned' /\ IndexOwned'
           /\ RoutesOwned' /\ StreamOwned' /\ AtWork'
<1>1. /\ call' = [call EXCEPT ![k] = NoCall] /\ UNCHANGED <<repo, issued, granted>>
      /\ call \in [Callers -> CallSet] /\ NoCall \in CallSet /\ NoCall.op # "register"
  BY DEF DeleteChannelWrite, DeleteAgentWrite, DeleteRow, TenantInv, ReposTypeOK, CallSet, NoCall
<1>2. /\ call' \in [Callers -> CallSet]
      /\ \A j \in Callers : call'[j] = IF j = k THEN NoCall ELSE call[j]
  BY <1>1
<1>3. /\ agents' \in [Repos -> [Agents -> Users \cup {NoUser}]]
      /\ \A r \in Repos, a \in Agents : agents'[r][a] \in {agents[r][a], NoUser}
  <2>1. CASE DeleteChannelWrite(k)
    BY <2>1 DEF DeleteChannelWrite, TenantInv, ReposTypeOK
  <2>2. CASE DeleteAgentWrite(k)
    <3>1. agents' = [agents EXCEPT ![repo][call[k].agent] = NoUser]
      BY <2>2 DEF DeleteAgentWrite
    <3> QED
      BY <3>1 DEF TenantInv, ReposTypeOK
  <2> QED
    BY <2>1, <2>2
<1>4. /\ rows' \in [Repos -> [Channels -> [ext : Exts \cup {NoExt}, user : Users \cup {NoUser},
                                           agent : Agents \cup {NoAgent}]]]
      /\ \A r \in Repos, c \in Channels : rows'[r][c] \in {rows[r][c], NoRow}
  <2>1. CASE rows' = rows
    BY <2>1 DEF TenantInv, ReposTypeOK
  <2>2. CASE rows' = [rows EXCEPT ![repo][call[k].channel] = NoRow]
    BY <2>2 DEF TenantInv, ReposTypeOK, NoRow
  <2> QED
    BY <2>1, <2>2 DEF DeleteChannelWrite, DeleteAgentWrite, DeleteRow
<1>5. /\ byExt' \in [Exts -> [channel : Channels \cup {NoChannel}, user : Users \cup {NoUser},
                              agent : Agents \cup {NoAgent}]]
      /\ \A e \in Exts : byExt'[e] \in {byExt[e], NoLookup}
  <2>1. CASE byExt' = byExt
    BY <2>1 DEF TenantInv, ReposTypeOK
  <2>2. CASE byExt' = [byExt EXCEPT ![rows[repo][call[k].channel].ext] = NoLookup]
    BY <2>2 DEF TenantInv, ReposTypeOK, NoLookup
  <2> QED
    BY <2>1, <2>2 DEF DeleteChannelWrite, DeleteAgentWrite, DeleteRow
<1>6. ReposTypeOK'
  BY <1>1, <1>2, <1>3, <1>4, <1>5 DEF TenantInv, ReposTypeOK, CallSet
<1>7. \A u, a : a \in Agents /\ Owner(u, a) => Owner(u, a)'
  BY <1>1, <1>3, OwnerKept
<1>8. AgentsOwned'
  BY <1>3, <1>7 DEF TenantInv, AgentsOwned, Owner
<1>9. CallsOwned'
  BY <1>1, <1>2, <1>7 DEF TenantInv, CallsOwned, Held, Owner
<1>10. RowsOwned'
  <2>1. \A r \in Repos, c \in Channels : rows'[r][c].ext # NoExt => rows'[r][c] = rows[r][c]
    BY <1>4 DEF NoRow
  <2>2. SUFFICES ASSUME NEW r \in Repos \ {"memory"}, NEW c \in Channels, rows'[r][c].ext # NoExt
                 PROVE  Held(rows[r][c])'
    BY DEF RowsOwned
  <2>3. rows'[r][c] = rows[r][c] /\ Held(rows[r][c])
    BY <2>1, <2>2 DEF TenantInv, RowsOwned
  <2> QED
    BY <1>7, <2>3 DEF Held, Owner
<1>11. IndexOwned'
  BY <1>5, <1>7 DEF TenantInv, IndexOwned, Held, Routed, Owner
<1>12. RoutesOwned' /\ StreamOwned' /\ AtWork'
  BY <1>1, <1>3, StreamKept
<1> QED
  BY <1>6, <1>8, <1>9, <1>10, <1>11, <1>12

LEMMA ApiKeeps ==
    ASSUME TenantInv, ApiStep, UNCHANGED ingressVars
    PROVE  TenantInv'
<1>1. UNCHANGED <<wpc, wmsg, wroute, stream>> /\ UNCHANGED <<claimed, expired, attempts, answers>>
  BY DEF ingressVars
<1>2. /\ ReposTypeOK' /\ AgentsOwned' /\ CallsOwned' /\ RowsOwned' /\ IndexOwned'
      /\ RoutesOwned' /\ StreamOwned' /\ AtWork'
  <2>1. CASE \E u \in Users : CreateAgent(u)
    BY <1>1, <2>1, CreateKeeps
  <2>2. ASSUME NEW k \in Callers, NEW u \in Users,
               \/ \E e \in Exts, a \in Agents : RegisterCheck(k, u, e, a)
               \/ \E c \in Channels : DeleteChannelCheck(k, u, c)
               \/ \E a \in Agents : DeleteAgentCheck(k, u, a)
        PROVE  /\ ReposTypeOK' /\ AgentsOwned' /\ CallsOwned' /\ RowsOwned' /\ IndexOwned'
               /\ RoutesOwned' /\ StreamOwned' /\ AtWork'
    BY <1>1, <2>2, CheckKeeps
  <2>3. CASE \/ \E k \in Callers : RegisterWrite(k)
             \/ \E u \in Users, e \in Exts, a \in Agents : AdminRegister(u, e, a)
    BY <1>1, <2>3, RegistrationsKeep
  <2>4. CASE \E k \in Callers : DeleteChannelWrite(k) \/ DeleteAgentWrite(k)
    BY <1>1, <2>4, DeleteKeeps
  <2> QED
    BY <2>1, <2>2, <2>3, <2>4 DEF ApiStep
<1>3. IngressTypeOK'
  BY <1>1 DEF TenantInv, IngressTypeOK
<1> QED
  BY <1>2, <1>3 DEF TenantInv

-----------------------------------------------------------------------------
(***************************************************************************)
(* The webhook handlers, the restart and the theorem.                      *)
(***************************************************************************)
\* A handler that answers forgets its message and its routing.
LEMMA AnswerKeeps ==
    ASSUME IngressTypeOK, NEW q \in Requests, NEW what \in Answers, wmsg[q] \in Messages,
           Answer(q, what)
    PROVE  /\ answers' \in [Messages -> SUBSET {"ok", "unregistered"}]
           /\ wpc' \in [Requests -> {"idle", "claim", "route", "enqueue"}]
           /\ wmsg' \in [Requests -> Messages \cup {NoMessage}]
           /\ wroute' \in [Requests -> [channel : Channels \cup {NoChannel},
                                        user : Users \cup {NoUser}, agent : Agents \cup {NoAgent}]]
           /\ wpc'[q] = "idle"
           /\ \A o \in Requests : o # q => /\ wpc'[o] = wpc[o] /\ wmsg'[o] = wmsg[o]
                                           /\ wroute'[o] = wroute[o]
<1>1. answers' \in [Messages -> SUBSET {"ok", "unregistered"}]
  BY DEF Answer, Answers, IngressTypeOK
<1>2. /\ wpc' \in [Requests -> {"idle", "claim", "route", "enqueue"}]
      /\ wmsg' \in [Requests -> Messages \cup {NoMessage}]
  BY DEF Answer, IngressTypeOK
<1>3. NoLookup \in [channel : Channels \cup {NoChannel}, user : Users \cup {NoUser},
                    agent : Agents \cup {NoAgent}]
  BY DEF NoLookup
<1>4. wroute' \in [Requests -> [channel : Channels \cup {NoChannel}, user : Users \cup {NoUser},
                                agent : Agents \cup {NoAgent}]]
  BY <1>3 DEF Answer, IngressTypeOK
<1>5. /\ wpc'[q] = "idle"
      /\ \A o \in Requests : o # q => /\ wpc'[o] = wpc[o] /\ wmsg'[o] = wmsg[o]
                                      /\ wroute'[o] = wroute[o]
  BY DEF Answer, IngressTypeOK
<1> QED
  BY <1>1, <1>2, <1>4, <1>5

\* What a handler does between the lookup and the stream copies what it holds.
LEMMA WebhookKeeps ==
    ASSUME TenantInv, NEW q \in Requests, WebhookStep(q), UNCHANGED repoVars
    PROVE  TenantInv'
<1>0. UNCHANGED <<repo, agents, rows, byExt, issued, granted, call>>
  BY DEF repoVars
<1>1. ReposTypeOK' /\ AgentsOwned' /\ CallsOwned' /\ RowsOwned' /\ IndexOwned'
  BY <1>0 DEF TenantInv, ReposTypeOK, AgentsOwned, CallsOwned, RowsOwned, IndexOwned, Held, Routed, Owner
<1>2. wpc[q] # "idle" /\ wmsg[q] \in Messages /\ IngressTypeOK
  BY DEF TenantInv, AtWork, WebhookStep, Claim, Route, Enqueue
<1>3. {"ok", "unregistered", "error"} = Answers
  BY DEF Answers
<1>4. CASE Claim(q)
  <2>1. UNCHANGED <<expired, stream, attempts>> /\ claimed' \subseteq Messages
    BY <1>2, <1>4 DEF Claim, IngressTypeOK
  <2>2. CASE \E what \in Answers : Answer(q, what)
    <3>1. IngressTypeOK'
      BY <1>2, <2>1, <2>2, AnswerKeeps DEF IngressTypeOK
    <3>2. AtWork' /\ RoutesOwned' /\ StreamOwned'
      BY <1>0, <1>2, <2>1, <2>2, AnswerKeeps
         DEF TenantInv, AtWork, RoutesOwned, StreamOwned, Held, Routed, Owner
    <3> QED
      BY <1>1, <3>1, <3>2 DEF TenantInv
  <2>3. CASE wpc' = [wpc EXCEPT ![q] = "route"] /\ UNCHANGED <<wmsg, wroute, answers>>
    <3>1. IngressTypeOK'
      BY <1>2, <2>1, <2>3 DEF IngressTypeOK
    <3>2. AtWork' /\ RoutesOwned' /\ StreamOwned'
      BY <1>0, <1>2, <2>1, <2>3
         DEF TenantInv, IngressTypeOK, AtWork, RoutesOwned, StreamOwned, Held, Routed, Owner
    <3> QED
      BY <1>1, <3>1, <3>2 DEF TenantInv
  <2> QED
    BY <1>3, <1>4, <2>2, <2>3 DEF Claim
<1>5. CASE Route(q)
  <2> DEFINE found == LookupRouting(Origin[wmsg[q]])
  <2>0. Origin[wmsg[q]] \in Exts
    BY <1>2, IngressAssumption
  <2>1. UNCHANGED <<claimed, expired, stream, attempts>>
    BY <1>5 DEF Route, redisKeyVars
  <2>2. CASE \E what \in Answers : Answer(q, what)
    <3>1. IngressTypeOK'
      BY <1>2, <2>1, <2>2, AnswerKeeps DEF IngressTypeOK
    <3>2. AtWork' /\ RoutesOwned' /\ StreamOwned'
      BY <1>0, <1>2, <2>1, <2>2, AnswerKeeps
         DEF TenantInv, AtWork, RoutesOwned, StreamOwned, Held, Routed, Owner
    <3> QED
      BY <1>1, <3>1, <3>2 DEF TenantInv
  <2>3. CASE /\ found # NoLookup /\ UNCHANGED <<wmsg, answers>>
             /\ wroute' = [wroute EXCEPT ![q] = found] /\ wpc' = [wpc EXCEPT ![q] = "enqueue"]
    <3>1. Routed(found)
      BY <2>0, <2>3, FoundIsHeld
    <3>2. found \in [channel : Channels \cup {NoChannel}, user : Users \cup {NoUser},
                     agent : Agents \cup {NoAgent}]
      BY <2>0, FoundType DEF TenantInv
    <3> HIDE DEF found
    <3>3. IngressTypeOK'
      BY <1>2, <2>1, <2>3, <3>2 DEF IngressTypeOK
    <3>4. AtWork' /\ RoutesOwned' /\ StreamOwned'
      BY <1>0, <1>2, <2>1, <2>3, <3>1
         DEF TenantInv, IngressTypeOK, AtWork, RoutesOwned, StreamOwned, Held, Routed, Owner
    <3> QED
      BY <1>1, <3>3, <3>4 DEF TenantInv
  <2> QED
    BY <1>3, <1>5, <2>2, <2>3 DEF Route
<1>6. CASE Enqueue(q)
  <2> DEFINE job == Job(wmsg[q], wroute[q])
  <2>1. /\ UNCHANGED <<claimed, expired, attempts>>
        /\ \E what \in Answers : Answer(q, what)
        /\ stream' = stream \/ stream' = Append(stream, job)
    BY <1>3, <1>6 DEF Enqueue, redisKeyVars
  <2>2. Routed(wroute[q])
    BY <1>6 DEF TenantInv, RoutesOwned, Enqueue
  <2>3. job.user = wroute[q].user /\ job.agent = wroute[q].agent
    BY DEF Job
  <2>4. job \in [msg : Messages, user : Users, agent : Agents, channel : Channels]
    BY <1>2, <2>2 DEF Job, Routed, Held
  <2> HIDE DEF job
  <2>5. /\ stream' \in Seq([msg : Messages, user : Users, agent : Agents, channel : Channels])
        /\ \A i \in DOMAIN stream' : stream'[i] = job \/ (i \in DOMAIN stream /\ stream'[i] = stream[i])
    <3>1. CASE stream' = stream
      BY <1>2, <3>1 DEF IngressTypeOK
    <3>2. CASE stream' = Append(stream, job)
      BY <1>2, <2>4, <3>2 DEF IngressTypeOK
    <3> QED
      BY <2>1, <3>1, <3>2
  <2>6. IngressTypeOK'
    BY <1>2, <2>1, <2>5, AnswerKeeps DEF IngressTypeOK
  <2>7. AtWork' /\ RoutesOwned'
    BY <1>0, <1>2, <2>1, AnswerKeeps DEF TenantInv, AtWork, RoutesOwned, Routed, Held, Owner
  <2>8. StreamOwned'
    BY <1>0, <2>2, <2>3, <2>5 DEF TenantInv, StreamOwned, Routed, Held, Owner
  <2> QED
    BY <1>1, <2>6, <2>7, <2>8 DEF TenantInv
<1> QED
  BY <1>4, <1>5, <1>6 DEF WebhookStep

\* A start empties the process's memory and keeps what Postgres has.
LEMMA RestartKeeps ==
    ASSUME TenantInv, ReposRestart, UNCHANGED ingressVars
    PROVE  TenantInv'
<1>1. UNCHANGED <<claimed, expired, stream, attempts, answers, wpc, wmsg, wroute, issued,
               granted>>
  BY DEF ingressVars, ReposRestart
<1>2. /\ agents' \in [Repos -> [Agents -> Users \cup {NoUser}]]
      /\ \A r \in Repos, a \in Agents : agents'[r][a] \in {agents[r][a], NoUser}
  BY DEF ReposRestart, TenantInv, ReposTypeOK
<1>3. /\ rows' \in [Repos -> [Channels -> [ext : Exts \cup {NoExt}, user : Users \cup {NoUser},
                                           agent : Agents \cup {NoAgent}]]]
      /\ \A r \in Repos \ {"memory"} : rows'[r] = rows[r]
  <2>1. NoRow \in [ext : Exts \cup {NoExt}, user : Users \cup {NoUser}, agent : Agents \cup {NoAgent}]
    BY DEF NoRow
  <2> QED
    BY <2>1 DEF ReposRestart, TenantInv, ReposTypeOK
<1>4. NoLookup \in [channel : Channels \cup {NoChannel}, user : Users \cup {NoUser},
                    agent : Agents \cup {NoAgent}]
  BY DEF NoLookup
<1>5. call' \in [Callers -> CallSet] /\ \A k \in Callers : call'[k].op = "none"
  BY DEF ReposRestart, NoCall, CallSet
<1>6. ReposTypeOK'
  BY <1>1, <1>2, <1>3, <1>4, <1>5 DEF ReposRestart, TenantInv, ReposTypeOK, CallSet
<1>7. IngressTypeOK' /\ AtWork'
  BY <1>1 DEF TenantInv, IngressTypeOK, AtWork
<1>8. \A u, a : a \in Agents /\ Owner(u, a) => Owner(u, a)'
  BY <1>1, <1>2, OwnerKept
<1>9. AgentsOwned'
  BY <1>2, <1>8 DEF TenantInv, AgentsOwned, Owner
<1>10. CallsOwned' /\ IndexOwned'
  BY <1>5 DEF ReposRestart, CallsOwned, IndexOwned
<1>11. RowsOwned'
  BY <1>3, <1>8 DEF TenantInv, RowsOwned, Held, Owner
<1>12. RoutesOwned' /\ StreamOwned'
  BY <1>1, <1>8 DEF TenantInv, RoutesOwned, StreamOwned, Routed, Held, Owner
<1> QED
  BY <1>6, <1>7, <1>9, <1>10, <1>11, <1>12 DEF TenantInv

\* The platform's deliveries and the end of a key's life, and a crash.
LEMMA PlatformKeeps ==
    ASSUME TenantInv, UNCHANGED repoVars,
           \/ \E q \in Requests, m \in Messages : Deliver(q, m)
           \/ \E m \in Messages : ExpireKey(m)
           \/ IngressCrash
    PROVE  TenantInv'
<1>0. UNCHANGED <<repo, agents, rows, byExt, issued, granted, call>>
  BY DEF repoVars
<1>1. ReposTypeOK' /\ AgentsOwned' /\ CallsOwned' /\ RowsOwned' /\ IndexOwned'
  BY <1>0 DEF TenantInv, ReposTypeOK, AgentsOwned, CallsOwned, RowsOwned, IndexOwned,
              Routed, Held, Owner
<1>2. stream' = stream
  BY DEF Deliver, ExpireKey, IngressCrash
<1>3. StreamOwned'
  BY <1>0, <1>2 DEF TenantInv, StreamOwned, Held, Owner
<1>4. CASE \E q \in Requests, m \in Messages : Deliver(q, m)
  <2>1. IngressTypeOK'
    BY <1>4, IngressAssumption DEF TenantInv, IngressTypeOK, Deliver, redisKeyVars
  <2>2. AtWork' /\ RoutesOwned'
    BY <1>0, <1>4 DEF TenantInv, IngressTypeOK, AtWork, RoutesOwned, Deliver, Routed, Held, Owner
  <2> QED
    BY <1>1, <1>3, <2>1, <2>2 DEF TenantInv
<1>5. CASE \E m \in Messages : ExpireKey(m)
  <2>1. IngressTypeOK'
    BY <1>5, IngressAssumption DEF TenantInv, IngressTypeOK, ExpireKey, webhookVars
  <2>2. AtWork' /\ RoutesOwned'
    BY <1>0, <1>5 DEF TenantInv, AtWork, RoutesOwned, ExpireKey, webhookVars, Routed, Held, Owner
  <2> QED
    BY <1>1, <1>3, <2>1, <2>2 DEF TenantInv
<1>6. CASE IngressCrash
  <2>1. IngressTypeOK'
    BY <1>6 DEF TenantInv, IngressTypeOK, IngressCrash, NoLookup
  <2>2. AtWork' /\ RoutesOwned'
    BY <1>6 DEF AtWork, RoutesOwned, IngressCrash
  <2> QED
    BY <1>1, <1>3, <2>1, <2>2 DEF TenantInv
<1> QED
  BY <1>4, <1>5, <1>6

LEMMA TenantStep == TenantInv /\ [Next]_vars => TenantInv'
<1> SUFFICES ASSUME TenantInv, [Next]_vars PROVE TenantInv'
  OBVIOUS
<1>1. CASE Api
  BY <1>1, ApiKeeps DEF Api
<1>2. CASE \E q \in Requests : Webhook(q)
  BY <1>2, WebhookKeeps DEF Webhook
<1>3. CASE Platform \/ Crash
  BY <1>3, PlatformKeeps DEF Platform, Crash
<1>4. CASE Restart
  BY <1>4, RestartKeeps DEF Restart
<1>5. CASE UNCHANGED repoVars /\ UNCHANGED ingressVars
  BY <1>5 DEF repoVars, ingressVars, TenantInv, ReposTypeOK, IngressTypeOK, AtWork, AgentsOwned,
              CallsOwned, RowsOwned, IndexOwned, RoutesOwned, StreamOwned, Routed, Held, Owner
<1>6. Consume \/ UNCHANGED vars => UNCHANGED repoVars /\ UNCHANGED ingressVars
  BY DEF Consume, vars, repoVars, ingressVars
<1> QED
  BY <1>1, <1>2, <1>3, <1>4, <1>5, <1>6 DEF Next

\* The repositories and the webhook handlers keep their types, and every copy
\* of an agent's owner is true (the handlers of routes and cmd/gateway).
THEOREM TenantInvariance == Spec => []TenantInv
  BY TenantInitial, TenantStep, PTL DEF Spec

\* For any number of users, agents, channels, concurrent requests, crashes and
\* either repository: no job runs a user's message with the agent of another,
\* unless an administrator registered just that.
THEOREM NoForeignAgent == Spec => []JobsOfOneTenant
<1>1. TenantInv => JobsOfOneTenant
  BY DEF TenantInv, StreamOwned, Held, Owner, JobsOfOneTenant
<1> QED
  BY <1>1, TenantInvariance, PTL

-----------------------------------------------------------------------------
(***************************************************************************)
(* The consumer group.  NothingLost is inductive once one knows that the   *)
(* entry about to be acknowledged is one whose job has ended.              *)
(***************************************************************************)
AckedHasEnded == cpc = "ack" => Entry \in ended
QueueInv == ConsumerTypeOK /\ NothingLost /\ AckedHasEnded

LEMMA QueueInitial == Init => QueueInv
<1> SUFFICES ASSUME Init PROVE QueueInv
  OBVIOUS
<1>1. ConsumerTypeOK
  BY DEF Init, IngressInit, ConsumerInit, ConsumerTypeOK
<1>2. NothingLost /\ AckedHasEnded
  BY DEF Init, ConsumerInit, NothingLost, AckedHasEnded
<1> QED
  BY <1>1, <1>2 DEF QueueInv

\* New entries become pending, whether or not their delivery is lost
\* (XREADGROUP).
LEMMA ReadKeeps ==
    ASSUME TenantInv, QueueInv, ReadGroup, UNCHANGED stream
    PROVE  QueueInv'
<1> DEFINE upto == IF Len(stream) - last < BatchSize THEN Len(stream) ELSE last + BatchSize
           new  == (last + 1)..upto
<1>1. /\ last \in 0..Len(stream) /\ Len(stream) \in Nat /\ BatchSize \in Nat \ {0}
      /\ cpc = "read" /\ self \in Pids
  BY ConsumerAssumption DEF TenantInv, IngressTypeOK, QueueInv, ConsumerTypeOK, ReadGroup
<1>2. upto \in last..Len(stream)
  BY <1>1
<1>3. /\ last' = upto /\ UNCHANGED <<self, ended>>
      /\ pending' = [i \in DOMAIN pending \cup new |-> IF i \in new THEN self ELSE pending[i]]
      /\ replies' = [i \in 1..upto |-> IF i \in new THEN 0 ELSE replies[i]]
      /\ cpc' \in {"read", "job"}
  BY DEF ReadGroup, NextStep
<1> HIDE DEF upto
<1>4. \A i : i \in 1..upto <=> i \in 1..last \/ i \in new
  BY <1>1, <1>2
<1>5. ConsumerTypeOK'
  <2>1. last' \in 0..Len(stream)' /\ DOMAIN pending' \subseteq 1..last'
    BY <1>1, <1>2, <1>3, <1>4 DEF QueueInv, ConsumerTypeOK
  <2>2. \A i \in DOMAIN pending' : pending'[i] \in Pids
    BY <1>1, <1>3 DEF QueueInv, ConsumerTypeOK
  <2>3. DOMAIN replies' = 1..last' /\ \A i \in DOMAIN replies' : replies'[i] \in Nat
    BY <1>3, <1>4 DEF QueueInv, ConsumerTypeOK
  <2> QED
    BY <1>1, <1>3, <2>1, <2>2, <2>3 DEF ConsumerTypeOK
<1>6. NothingLost' /\ AckedHasEnded'
  BY <1>3, <1>4 DEF QueueInv, NothingLost, AckedHasEnded
<1> QED
  BY <1>5, <1>6 DEF QueueInv

\* Only XACK takes an entry off the group, and only after processJob.
LEMMA ConsumeKeeps ==
    ASSUME TenantInv, QueueInv, ConsumerStep, UNCHANGED stream
    PROVE  QueueInv'
<1>1. CASE ReadGroup
  BY <1>1, ReadKeeps
<1>2. CASE ProcessPending \/ LookupChannel \/ SpawnDaemon
  <2>1. UNCHANGED <<last, pending, self, replies>> /\ cpc # "down" /\ cpc' # "down"
        /\ cpc' \in {"pending", "read", "job", "run", "reply", "ack"}
    BY <1>2 DEF ProcessPending, LookupChannel, SpawnDaemon, EndJob, NextStep, groupVars
  <2>2. ConsumerTypeOK'
    BY <2>1 DEF QueueInv, ConsumerTypeOK
  <2>3. ended \subseteq ended' /\ (cpc' = "ack" => Entry' \in ended')
    BY <1>2 DEF ProcessPending, LookupChannel, SpawnDaemon, EndJob, NextStep, Entry
  <2> QED
    BY <2>1, <2>2, <2>3 DEF QueueInv, NothingLost, AckedHasEnded
<1>3. CASE SendReply
  <2>1. /\ UNCHANGED <<last, pending, self, batch>> /\ cpc = "reply" /\ cpc' = "ack"
        /\ ended' = ended \cup {Entry}
    BY <1>3 DEF SendReply, EndJob, groupVars
  <2>2. DOMAIN replies' = DOMAIN replies /\ \A i \in DOMAIN replies : replies'[i] \in Nat
    BY <1>3 DEF SendReply, QueueInv, ConsumerTypeOK
  <2>3. ConsumerTypeOK'
    BY <2>1, <2>2 DEF QueueInv, ConsumerTypeOK
  <2> QED
    BY <2>1, <2>3 DEF QueueInv, NothingLost, AckedHasEnded, Entry
<1>4. CASE Ack
  <2>1. /\ UNCHANGED <<last, self, ended, replies>> /\ cpc = "ack" /\ cpc' \in {"read", "job"}
        /\ \/ pending' = [i \in DOMAIN pending \ {Entry} |-> pending[i]]
           \/ pending' = pending
    BY <1>4 DEF Ack, NextStep
  <2>2. /\ DOMAIN pending' \subseteq DOMAIN pending
        /\ \A i \in DOMAIN pending' : pending'[i] = pending[i]
        /\ \A i \in DOMAIN pending : i \in DOMAIN pending' \/ i = Entry
    BY <2>1
  <2>3. ConsumerTypeOK'
    BY <2>1, <2>2 DEF QueueInv, ConsumerTypeOK
  <2>4. NothingLost'
    BY <2>1, <2>2 DEF QueueInv, NothingLost, AckedHasEnded
  <2> QED
    BY <2>1, <2>3, <2>4 DEF QueueInv, AckedHasEnded
<1> QED
  BY <1>1, <1>2, <1>3, <1>4 DEF ConsumerStep

LEMMA QueueStep == TenantInv /\ QueueInv /\ [Next]_vars => QueueInv'
<1> SUFFICES ASSUME TenantInv, QueueInv, [Next]_vars PROVE QueueInv'
  OBVIOUS
<1>1. CASE Consume
  BY <1>1, ConsumeKeeps DEF Consume, ingressVars
<1>2. ASSUME UNCHANGED consumerVars, Len(stream') \in Nat, Len(stream) <= Len(stream')
      PROVE  QueueInv'
  <2>1. UNCHANGED <<last, pending, self, cpc, batch, ended, replies>>
    BY <1>2 DEF consumerVars
  <2>2. last \in 0..Len(stream')
    BY <1>2 DEF TenantInv, IngressTypeOK, QueueInv, ConsumerTypeOK
  <2>3. ConsumerTypeOK'
    BY <2>1, <2>2 DEF QueueInv, ConsumerTypeOK
  <2> QED
    BY <2>1, <2>3 DEF QueueInv, NothingLost, AckedHasEnded, Entry
<1>3. Len(stream) \in Nat
  BY DEF TenantInv, IngressTypeOK
<1>4. CASE Api \/ Platform \/ UNCHANGED vars
  <2>1. UNCHANGED consumerVars /\ UNCHANGED stream
    BY <1>4 DEF Api, Platform, vars, consumerVars, ingressVars, Deliver, ExpireKey
  <2> QED
    BY <1>2, <1>3, <2>1
<1>5. CASE \E q \in Requests : Webhook(q)
  <2>1. PICK q \in Requests : Webhook(q)
    BY <1>5
  <2>2. /\ UNCHANGED consumerVars
        /\ stream' = stream \/ \E job : stream' = Append(stream, job)
    BY <2>1 DEF Webhook, WebhookStep, Claim, Route, Enqueue
  <2>3. Len(stream') \in Nat /\ Len(stream) <= Len(stream')
    <3>1. stream' = stream \/ Len(stream') = Len(stream) + 1
      BY <2>2 DEF TenantInv, IngressTypeOK
    <3> QED
      BY <1>3, <3>1
  <2> QED
    BY <1>2, <2>2, <2>3
<1>6. CASE Crash
  <2>1. /\ UNCHANGED <<last, pending, ended, replies, stream>>
        /\ cpc' = "down" /\ self' = NoPid
    BY <1>6 DEF Crash, ConsumerCrash, IngressCrash, groupVars
  <2>2. ConsumerTypeOK'
    BY <2>1 DEF QueueInv, ConsumerTypeOK
  <2> QED
    BY <2>1, <2>2 DEF QueueInv, NothingLost, AckedHasEnded
<1>7. CASE Restart
  <2>1. /\ UNCHANGED <<last, pending, ended, replies, stream>>
        /\ cpc' = "pending" /\ self' \in Pids
    BY <1>7 DEF Restart, ConsumerRestart, ingressVars, groupVars
  <2>2. ConsumerTypeOK'
    BY <2>1 DEF QueueInv, ConsumerTypeOK
  <2> QED
    BY <2>1, <2>2 DEF QueueInv, NothingLost, AckedHasEnded
<1> QED
  BY <1>1, <1>4, <1>5, <1>6, <1>7 DEF Next

\* For any number of messages, consumer names, crashes and any batch size and
\* faults: an entry the group has delivered is pending until its job has ended
\* (processPending, processBatch, ack).
THEOREM NoEntryLost == Spec => []NothingLost
<1>1. TenantInv /\ QueueInv /\ [Next]_vars => QueueInv'
  BY QueueStep
<1>2. QueueInv => NothingLost
  BY DEF QueueInv
<1> QED
  BY <1>1, <1>2, QueueInitial, TenantInvariance, PTL DEF Spec

\* Every variable of the gateway keeps its type (cmd/gateway).
THEOREM GatewayTypes == Spec => []TypeOK
<1>1. Init => crashes \in 0..MaxCrashes
  BY GatewayAssumption DEF Init
<1>2. crashes \in 0..MaxCrashes /\ [Next]_vars => (crashes \in 0..MaxCrashes)'
  BY GatewayAssumption
     DEF Next, vars, Api, Platform, Consume, Crash, Restart, Webhook
<1>3. TenantInv /\ QueueInv /\ crashes \in 0..MaxCrashes => TypeOK
  BY DEF TenantInv, QueueInv, TypeOK
<1> QED
  BY <1>1, <1>2, <1>3, QueueInitial, QueueStep, TenantInvariance, PTL DEF Spec

-----------------------------------------------------------------------------
(***************************************************************************)
(* The key.  A life of a message's key pays for one entry: it is spent by  *)
(* the handler that has claimed the key, and by the entry it enqueues.     *)
(***************************************************************************)
Handling(m) == {q \in Requests : wpc[q] \in {"route", "enqueue"} /\ wmsg[q] = m}
Lives(m)    == IF m \in claimed THEN expired[m] + 1 ELSE expired[m]
Spent(m)    == Cardinality(EntriesOf(m)) + Cardinality(Handling(m))
KeyInv == \A m \in Messages :
    IsFiniteSet(EntriesOf(m)) /\ IsFiniteSet(Handling(m)) /\ Spent(m) <= Lives(m)

LEMMA KeyInitial == Init => KeyInv
<1> SUFFICES ASSUME Init, NEW m \in Messages
             PROVE  IsFiniteSet(EntriesOf(m)) /\ IsFiniteSet(Handling(m)) /\ Spent(m) <= Lives(m)
  BY DEF KeyInv
<1>1. EntriesOf(m) = {} /\ Handling(m) = {} /\ Lives(m) = 0
  BY DEF Init, IngressInit, EntriesOf, Handling, Lives
<1>2. IsFiniteSet({}) /\ Cardinality({}) = 0
  BY FS_EmptySet
<1>3. Spent(m) = 0
  BY <1>1, <1>2 DEF Spent
<1> QED
  BY <1>1, <1>2, <1>3

\* A handler that ends, and a crash that ends all of them, spend nothing.
LEMMA NothingSpent ==
    ASSUME KeyInv, TenantInv, NEW m \in Messages, Handling(m)' \subseteq Handling(m),
           EntriesOf(m)' = EntriesOf(m), Lives(m)' \in Nat, Lives(m) <= Lives(m)'
    PROVE  IsFiniteSet(EntriesOf(m)') /\ IsFiniteSet(Handling(m)') /\ Spent(m)' <= Lives(m)'
<1>1. IsFiniteSet(EntriesOf(m)) /\ IsFiniteSet(Handling(m)) /\ Spent(m) <= Lives(m)
  BY DEF KeyInv
<1>2. /\ IsFiniteSet(Handling(m)') /\ Cardinality(Handling(m)') <= Cardinality(Handling(m))
      /\ Cardinality(Handling(m)') \in Nat /\ Cardinality(Handling(m)) \in Nat
      /\ Cardinality(EntriesOf(m)) \in Nat
  BY <1>1, FS_Subset, FS_CardinalityType
<1>3. Lives(m) \in Nat
  BY DEF TenantInv, IngressTypeOK, Lives
<1>4. Spent(m) = Cardinality(EntriesOf(m)) + Cardinality(Handling(m))
  BY DEF Spent
<1>5. Spent(m)' = Cardinality(EntriesOf(m)) + Cardinality(Handling(m)')
  BY DEF Spent
<1> QED
  BY <1>1, <1>2, <1>3, <1>4, <1>5

\* What a step of a webhook handler means for the messages: its own message's
\* claim, its end, or its entry (Claim, Route, Enqueue).
LEMMA WebhookSpends ==
    ASSUME KeyInv, TenantInv, NEW q \in Requests, WebhookStep(q), NEW m \in Messages
    PROVE  IsFiniteSet(EntriesOf(m)') /\ IsFiniteSet(Handling(m)') /\ Spent(m)' <= Lives(m)'
<1>1. /\ IngressTypeOK /\ (wpc[q] # "idle" => wmsg[q] \in Messages)
      /\ expired' = expired /\ Lives(m) \in Nat /\ expired[m] \in Nat
  BY DEF TenantInv, AtWork, IngressTypeOK, WebhookStep, Claim, Route, Enqueue, redisKeyVars, Lives
<1>2. /\ IsFiniteSet(EntriesOf(m)) /\ IsFiniteSet(Handling(m)) /\ Spent(m) <= Lives(m)
      /\ Cardinality(EntriesOf(m)) \in Nat /\ Cardinality(Handling(m)) \in Nat
  BY FS_CardinalityType DEF KeyInv
<1>3. ASSUME wpc' = [wpc EXCEPT ![q] = "idle"], wmsg' = [wmsg EXCEPT ![q] = NoMessage]
      PROVE  Handling(m)' = Handling(m) \ {q}
  BY <1>1, <1>3, IngressAssumption DEF Handling, IngressTypeOK
<1>4. CASE Claim(q)
  <2>1. stream' = stream /\ EntriesOf(m)' = EntriesOf(m) /\ claimed \subseteq claimed'
    BY <1>4 DEF Claim, EntriesOf
  <2>2. Lives(m)' \in Nat /\ Lives(m) <= Lives(m)'
    BY <1>1, <2>1 DEF Lives
  <2>3. CASE Answer(q, "ok") \/ Answer(q, "error")
    <3>1. Handling(m)' = Handling(m) \ {q}
      BY <1>3, <2>3 DEF Answer
    <3> QED
      BY <2>1, <2>2, <3>1, NothingSpent
  <2>4. CASE /\ wmsg[q] \notin claimed /\ claimed' = claimed \cup {wmsg[q]}
             /\ wpc' = [wpc EXCEPT ![q] = "route"] /\ UNCHANGED wmsg
    <3>1. CASE m = wmsg[q]
      <4>1. Handling(m)' = Handling(m) \cup {q} /\ q \notin Handling(m)
        BY <1>1, <1>4, <2>4, <3>1 DEF Handling, Claim, IngressTypeOK
      <4>2. /\ IsFiniteSet(Handling(m)')
            /\ Cardinality(Handling(m)') = Cardinality(Handling(m)) + 1
        BY <1>2, <4>1, FS_AddElement
      <4>3. Lives(m)' = Lives(m) + 1
        BY <1>1, <2>4, <3>1 DEF Lives
      <4>4. /\ Spent(m) = Cardinality(EntriesOf(m)) + Cardinality(Handling(m))
            /\ Spent(m)' = Cardinality(EntriesOf(m)) + Cardinality(Handling(m)')
        BY <2>1 DEF Spent
      <4> QED
        BY <1>1, <1>2, <2>1, <4>2, <4>3, <4>4
    <3>2. CASE m # wmsg[q]
      <4>1. Handling(m)' \subseteq Handling(m)
        BY <1>1, <2>4, <3>2 DEF Handling, IngressTypeOK
      <4> QED
        BY <2>1, <2>2, <4>1, NothingSpent
    <3> QED
      BY <3>1, <3>2
  <2> QED
    BY <1>4, <2>3, <2>4 DEF Claim
<1>5. CASE Route(q)
  <2>1. EntriesOf(m)' = EntriesOf(m) /\ Lives(m)' = Lives(m)
    BY <1>5 DEF Route, EntriesOf, Lives, redisKeyVars
  <2>2. Handling(m)' \subseteq Handling(m)
    <3>1. CASE Answer(q, "unregistered") \/ Answer(q, "error")
      BY <1>3, <3>1 DEF Answer
    <3>2. CASE wpc' = [wpc EXCEPT ![q] = "enqueue"] /\ UNCHANGED wmsg
      BY <1>1, <1>5, <3>2 DEF Handling, Route, IngressTypeOK
    <3> QED
      BY <1>5, <3>1, <3>2 DEF Route
  <2> QED
    BY <1>1, <2>1, <2>2, NothingSpent
<1>6. CASE Enqueue(q)
  <2>1. /\ Handling(m)' = Handling(m) \ {q} /\ Lives(m)' = Lives(m)
        /\ wpc[q] = "enqueue" /\ wmsg[q] \in Messages
    BY <1>1, <1>3, <1>6 DEF Enqueue, Answer, Lives, redisKeyVars
  <2>2. CASE EntriesOf(m)' = EntriesOf(m)
    BY <1>1, <2>1, <2>2, NothingSpent
  <2>3. CASE EntriesOf(m)' # EntriesOf(m)
    <3> DEFINE job == Job(wmsg[q], wroute[q])
               n == Len(stream) + 1
    <3>1. stream' = Append(stream, job)
      BY <1>6, <2>3 DEF Enqueue, EntriesOf
    <3>2. job.msg = wmsg[q]
      BY DEF Job
    <3> HIDE DEF job
    <3>3. /\ Len(stream) \in Nat /\ DOMAIN stream = 1..Len(stream) /\ DOMAIN stream' = 1..n
          /\ stream'[n] = job /\ \A i \in DOMAIN stream : stream'[i] = stream[i]
      BY <1>1, <3>1 DEF IngressTypeOK
    <3>4. EntriesOf(m)' = EntriesOf(m) \cup {i \in {n} : stream'[i].msg = m}
      BY <3>3 DEF EntriesOf
    <3>5. wmsg[q] = m /\ EntriesOf(m)' = EntriesOf(m) \cup {n} /\ n \notin EntriesOf(m)
      BY <2>3, <3>2, <3>3, <3>4 DEF EntriesOf
    <3>6. /\ IsFiniteSet(EntriesOf(m)')
          /\ Cardinality(EntriesOf(m)') = Cardinality(EntriesOf(m)) + 1
      BY <1>2, <3>5, FS_AddElement
    <3>7. q \in Handling(m)
      BY <2>1, <3>5 DEF Handling
    <3>8. /\ IsFiniteSet(Handling(m)')
          /\ Cardinality(Handling(m)') = Cardinality(Handling(m)) - 1
      BY <1>2, <2>1, <3>7, FS_RemoveElement
    <3>9. /\ Spent(m) = Cardinality(EntriesOf(m)) + Cardinality(Handling(m))
          /\ Spent(m)' = Cardinality(EntriesOf(m)') + Cardinality(Handling(m)')
      BY DEF Spent
    <3> QED
      BY <1>1, <1>2, <2>1, <3>6, <3>8, <3>9
  <2> QED
    BY <2>2, <2>3
<1> QED
  BY <1>4, <1>5, <1>6 DEF WebhookStep

LEMMA KeyStep == KeyInv /\ TenantInv /\ [Next]_vars => KeyInv'
<1> SUFFICES ASSUME KeyInv, TenantInv, [Next]_vars, NEW m \in Messages
             PROVE  IsFiniteSet(EntriesOf(m)') /\ IsFiniteSet(Handling(m)') /\ Spent(m)' <= Lives(m)'
  BY DEF KeyInv
<1>1. CASE \E q \in Requests : Webhook(q)
  BY <1>1, WebhookSpends DEF Webhook
<1>2. IngressTypeOK /\ Lives(m) \in Nat /\ expired[m] \in Nat
  BY DEF TenantInv, IngressTypeOK, Lives
<1>3. CASE UNCHANGED ingressVars
  <2>1. Handling(m)' = Handling(m) /\ EntriesOf(m)' = EntriesOf(m) /\ Lives(m)' = Lives(m)
    BY <1>3 DEF ingressVars, Handling, EntriesOf, Lives
  <2> QED
    BY <1>2, <2>1, NothingSpent
<1>4. CASE \E q \in Requests, n \in Messages : Deliver(q, n)
  <2>1. EntriesOf(m)' = EntriesOf(m) /\ Lives(m)' = Lives(m)
    BY <1>4 DEF Deliver, redisKeyVars, EntriesOf, Lives
  <2>2. Handling(m)' \subseteq Handling(m)
    BY <1>2, <1>4 DEF Deliver, Handling, IngressTypeOK
  <2> QED
    BY <1>2, <2>1, <2>2, NothingSpent
<1>5. CASE \E n \in Messages : ExpireKey(n)
  <2>1. PICK n \in Messages : ExpireKey(n)
    BY <1>5
  <2>2. Handling(m)' = Handling(m) /\ EntriesOf(m)' = EntriesOf(m)
    BY <2>1 DEF ExpireKey, webhookVars, Handling, EntriesOf
  <2>3. Lives(m)' = Lives(m)
    BY <1>2, <2>1 DEF ExpireKey, Lives, IngressTypeOK
  <2> QED
    BY <1>2, <2>2, <2>3, NothingSpent
<1>6. CASE IngressCrash
  <2>1. EntriesOf(m)' = EntriesOf(m) /\ Lives(m)' = Lives(m) /\ Handling(m)' = {}
    BY <1>6 DEF IngressCrash, EntriesOf, Lives, Handling
  <2> QED
    BY <1>2, <2>1, NothingSpent
<1>7. \/ UNCHANGED ingressVars \/ IngressCrash \/ \E q \in Requests : Webhook(q)
      \/ \E q \in Requests, n \in Messages : Deliver(q, n)
      \/ \E n \in Messages : ExpireKey(n)
  BY DEF Next, vars, ingressVars, Api, Platform, Consume, Crash, Restart
<1> QED
  BY <1>1, <1>3, <1>4, <1>5, <1>6, <1>7

\* For any number of concurrent deliveries, faults and crashes, a message has at
\* most one entry per life of its key (Claim before Enqueue).
THEOREM OneEntryPerLife == Spec => []OneEntryPerWindow
<1>1. KeyInv /\ TenantInv => OneEntryPerWindow
  <2>1. SUFFICES ASSUME KeyInv, TenantInv, NEW m \in Messages
                 PROVE  Cardinality(EntriesOf(m)) <= 1 + expired[m]
    BY DEF OneEntryPerWindow
  <2>2. /\ Cardinality(EntriesOf(m)) \in Nat /\ Cardinality(Handling(m)) \in Nat
        /\ Spent(m) <= Lives(m)
    BY <2>1, FS_CardinalityType DEF KeyInv
  <2>3. expired[m] \in Nat
    BY <2>1 DEF TenantInv, IngressTypeOK
  <2> QED
    BY <2>2, <2>3 DEF Spent, Lives
<1> QED
  BY <1>1, KeyInitial, KeyStep, TenantInvariance, PTL DEF Spec

-----------------------------------------------------------------------------
(***************************************************************************)
(* The batch in hand.  InStreamOrder needs that the first life of the      *)
(* process starts with nothing delivered, RepliesBounded that an entry     *)
(* still to be handled since the last start has been replied to at most    *)
(* once for each earlier life.                                             *)
(***************************************************************************)
Waiting == {"down", "pending", "read"}

BatchHeld   == \A k \in DOMAIN batch : batch[k] \in DOMAIN pending /\ pending[batch[k]] = self
BatchSorted == \A j, k \in DOMAIN batch : j < k => batch[j] < batch[k]
BatchInUse  == IF cpc \in Waiting THEN batch = <<>> ELSE batch # <<>>
FirstLife   == crashes = 0 =>
                  /\ cpc # "down"
                  /\ cpc = "pending" => ended = {} /\ DOMAIN pending = {}
OldestFirst == crashes = 0 /\ batch # <<>> =>
                  \A i \in ended : IF cpc = "ack" THEN i <= Entry ELSE i < Entry
NotYetThisLife ==
    /\ cpc \in {"down", "pending"} => \A i \in DOMAIN replies : replies[i] <= crashes
    /\ \A k \in DOMAIN batch : (k = 1 /\ cpc = "ack") \/ replies[batch[k]] <= crashes

BatchInv ==
    /\ batch \in Seq(Nat) /\ ended \subseteq 1..last /\ crashes \in Nat
    /\ BatchHeld /\ BatchSorted /\ BatchInUse
    /\ FirstLife /\ OldestFirst
    /\ NotYetThisLife /\ RepliesBounded

LEMMA BatchInitial == Init => BatchInv
  BY DEF Init, IngressInit, ConsumerInit, BatchInv, BatchHeld, BatchSorted, BatchInUse, Waiting,
         FirstLife, OldestFirst, NotYetThisLife, RepliesBounded

\* XREADGROUP answers with increasing entries of the set it reads.
LEMMA InOrderIncreases ==
    ASSUME NEW n \in Nat, NEW S \in SUBSET (1..n), NEW b \in InOrder(S)
    PROVE  /\ b \in Seq(Nat) /\ \A k \in DOMAIN b : b[k] \in S
           /\ \A j, k \in DOMAIN b : j < k => b[j] < b[k]
           /\ S = {} => b = <<>>
<1>1. Cardinality(S) \in Nat /\ (S = {} => Cardinality(S) = 0)
  <2>1. IsFiniteSet(1..n)
    BY FS_Interval
  <2>2. IsFiniteSet(S)
    BY <2>1, FS_Subset
  <2> QED
    BY <2>2, FS_CardinalityType, FS_EmptySet
<1>2. b \in [1..Cardinality(S) -> S] /\ \A j, k \in DOMAIN b : j < k => b[j] < b[k]
  BY DEF InOrder
<1>3. b \in [1..Cardinality(S) -> Nat] /\ \A k \in DOMAIN b : b[k] \in S
  <2> DEFINE n0 == Cardinality(S)
  <2>1. n0 \in Nat /\ b \in [1..n0 -> S] /\ S \subseteq Nat
    BY <1>1, <1>2
  <2> HIDE DEF n0
  <2>2. b \in [1..n0 -> Nat] /\ \A k \in DOMAIN b : b[k] \in S
    BY <2>1
  <2> QED
    BY <2>2 DEF n0
<1>4. b \in Seq(Nat) /\ Len(b) = Cardinality(S)
  <2> DEFINE n0 == Cardinality(S)
  <2>1. n0 \in Nat /\ b \in [1..n0 -> Nat]
    BY <1>1, <1>3
  <2> HIDE DEF n0
  <2>2. b \in Seq(Nat) /\ Len(b) = n0
    BY <2>1
  <2> QED
    BY <2>2 DEF n0
<1>5. S = {} => b = <<>>
  BY <1>1, <1>4
<1> QED
  BY <1>2, <1>3, <1>4, <1>5

\* A batch just read, of entries pending under the consumer's name and later
\* than what has ended in the first life, is a good one (XREADGROUP).
LEMMA FreshBatch ==
    ASSUME TenantInv, QueueInv, QueueInv', BatchInv, UNCHANGED <<self, ended, crashes>>,
           batch' \in Seq(Nat), BatchHeld', BatchSorted',
           cpc' = NextStep(batch'), last <= last',
           \A k \in DOMAIN batch' :
              /\ crashes = 0 => \A i \in ended : i < batch'[k]
              /\ replies'[batch'[k]] <= crashes,
           RepliesBounded'
    PROVE  BatchInv'
<1>1. cpc' \in {"read", "job"} /\ (cpc' = "read" <=> batch' = <<>>)
  BY DEF NextStep
<1>2. ended' \subseteq 1..last' /\ crashes' \in Nat /\ BatchInUse'
  BY <1>1 DEF BatchInv, BatchInUse, Waiting, QueueInv, ConsumerTypeOK
<1>3. batch' # <<>> => 1 \in DOMAIN batch' /\ Entry' = batch'[1]
  BY DEF Entry
<1>4. FirstLife' /\ OldestFirst' /\ NotYetThisLife'
  BY <1>1, <1>3 DEF FirstLife, OldestFirst, NotYetThisLife
<1> QED
  BY <1>2, <1>4 DEF BatchInv
\* XREADGROUP from id 0, in the first life of a group that has nothing pending
\* or after a restart (processPending).
LEMMA PendingKeepsBatch ==
    ASSUME TenantInv, QueueInv, QueueInv', BatchInv, ProcessPending,
           UNCHANGED <<stream, crashes>>
    PROVE  BatchInv'
<1> DEFINE mine == {i \in DOMAIN pending : pending[i] = self}
<1>1. /\ cpc = "pending" /\ UNCHANGED <<last, pending, self, ended, replies>>
      /\ batch' \in InOrder(mine) \/ batch' = <<>>
      /\ cpc' = NextStep(batch')
  BY DEF ProcessPending, groupVars
<1>2. last \in Nat /\ mine \in SUBSET (1..last)
  BY DEF TenantInv, IngressTypeOK, QueueInv, ConsumerTypeOK
<1>3. CASE batch' = <<>>
  <2>1. batch' \in Seq(Nat) /\ BatchHeld' /\ BatchSorted' /\ RepliesBounded'
    BY <1>1, <1>3 DEF BatchHeld, BatchSorted, BatchInv, RepliesBounded
  <2> QED
    BY <1>1, <1>2, <1>3, <2>1, FreshBatch
<1>4. CASE batch' \in InOrder(mine)
  <2> HIDE DEF mine
  <2>1. /\ batch' \in Seq(Nat) /\ \A k \in DOMAIN batch' : batch'[k] \in mine
        /\ \A j, k \in DOMAIN batch' : j < k => batch'[j] < batch'[k]
        /\ mine = {} => batch' = <<>>
    BY <1>2, <1>4, InOrderIncreases
  <2>2. BatchHeld' /\ BatchSorted' /\ RepliesBounded'
    BY <1>1, <2>1 DEF mine, BatchHeld, BatchSorted, BatchInv, RepliesBounded
  <2>3. ASSUME NEW k \in DOMAIN batch'
        PROVE  /\ crashes = 0 => \A i \in ended : i < batch'[k]
               /\ replies'[batch'[k]] <= crashes
    <3>1. batch'[k] \in DOMAIN replies
      BY <1>2, <2>1 DEF QueueInv, ConsumerTypeOK
    <3>2. crashes = 0 => ended = {}
      BY <1>1 DEF BatchInv, FirstLife
    <3> QED
      BY <1>1, <3>1, <3>2 DEF BatchInv, NotYetThisLife
  <2> QED
    BY <1>1, <1>2, <2>1, <2>2, <2>3, FreshBatch
<1> QED
  BY <1>1, <1>3, <1>4

\* XREADGROUP of new entries: each is later than whatever was delivered before.
LEMMA ReadKeepsBatch ==
    ASSUME TenantInv, QueueInv, QueueInv', BatchInv, ReadGroup,
           UNCHANGED <<stream, crashes>>
    PROVE  BatchInv'
<1> DEFINE upto == IF Len(stream) - last < BatchSize THEN Len(stream) ELSE last + BatchSize
           new  == (last + 1)..upto
<1>1. /\ last \in 0..Len(stream) /\ Len(stream) \in Nat /\ BatchSize \in Nat \ {0}
      /\ cpc = "read" /\ self \in Pids
  BY ConsumerAssumption DEF TenantInv, IngressTypeOK, QueueInv, ConsumerTypeOK, ReadGroup
<1>2. upto \in Nat /\ last <= upto
  BY <1>1
<1>3. /\ last' = upto /\ UNCHANGED <<self, ended>>
      /\ pending' = [i \in DOMAIN pending \cup new |-> IF i \in new THEN self ELSE pending[i]]
      /\ replies' = [i \in 1..upto |-> IF i \in new THEN 0 ELSE replies[i]]
      /\ batch' \in InOrder(new) \/ batch' = <<>>
      /\ cpc' = NextStep(batch')
  BY DEF ReadGroup
<1> HIDE DEF upto
<1>4. new \in SUBSET (1..upto)
  BY <1>1, <1>2
<1>5. RepliesBounded'
  <2>1. \A i \in 1..upto : i \in new \/ i \in DOMAIN replies
    BY <1>1, <1>2 DEF QueueInv, ConsumerTypeOK
  <2>2. crashes \in Nat /\ \A i \in DOMAIN replies : replies[i] <= 1 + crashes
    BY DEF BatchInv, RepliesBounded
  <2> HIDE DEF new
  <2>3. \A i \in 1..upto : replies'[i] = (IF i \in new THEN 0 ELSE replies[i])
    BY <1>3
  <2> QED
    BY <1>3, <2>1, <2>2, <2>3 DEF RepliesBounded
<1>6. CASE batch' = <<>>
  <2>1. batch' \in Seq(Nat) /\ BatchHeld' /\ BatchSorted'
    BY <1>6 DEF BatchHeld, BatchSorted
  <2> QED
    BY <1>2, <1>3, <1>5, <1>6, <2>1, FreshBatch
<1>7. CASE batch' \in InOrder(new)
  <2>1. /\ batch' \in Seq(Nat) /\ \A k \in DOMAIN batch' : batch'[k] \in new
        /\ \A j, k \in DOMAIN batch' : j < k => batch'[j] < batch'[k]
    <3> HIDE DEF new
    <3> QED
      BY <1>2, <1>4, <1>7, InOrderIncreases
  <2>2. BatchSorted'
    BY <2>1 DEF BatchSorted
  <2>3. BatchHeld'
    <3> HIDE DEF new
    <3> QED
      BY <1>3, <2>1 DEF BatchHeld
  <2>4. ASSUME NEW k \in DOMAIN batch'
        PROVE  /\ crashes = 0 => \A i \in ended : i < batch'[k]
               /\ replies'[batch'[k]] <= crashes
    <3>1. batch'[k] \in new /\ batch'[k] \in 1..upto
      BY <1>4, <2>1
    <3>2. \A i \in ended : i < batch'[k]
      BY <1>1, <1>2, <3>1 DEF BatchInv
    <3>3. replies'[batch'[k]] = 0
      <4> HIDE DEF new
      <4> QED
        BY <1>3, <3>1
    <3> QED
      BY <3>2, <3>3 DEF BatchInv
  <2> QED
    BY <1>2, <1>3, <1>5, <2>1, <2>2, <2>3, <2>4, FreshBatch
<1> QED
  BY <1>3, <1>6, <1>7

\* A step of the entry in hand that sends no reply: it stays in hand, or its
\* job ends (processJob).
LEMMA JobKeepsBatch ==
    ASSUME TenantInv, QueueInv, QueueInv', BatchInv, LookupChannel \/ SpawnDaemon \/ SendReply,
           UNCHANGED <<stream, crashes>>
    PROVE  BatchInv'
<1>1. /\ UNCHANGED <<last, pending, self, batch>>
      /\ cpc \in {"job", "run", "reply"}
      /\ \/ cpc' \in {"run", "reply"} /\ UNCHANGED ended
         \/ cpc' = "ack" /\ ended' = ended \cup {Entry}
      /\ \/ UNCHANGED replies
         \/ cpc' = "ack" /\ replies' = [replies EXCEPT ![Entry] = @ + 1]
  BY DEF LookupChannel, SpawnDaemon, SendReply, EndJob, groupVars
<1>2. batch \in Seq(Nat) /\ batch # <<>> /\ 1 \in DOMAIN batch /\ Entry = batch[1] /\ Entry' = Entry
  BY <1>1 DEF BatchInv, BatchInUse, Waiting, Entry
<1>3. Entry \in DOMAIN pending /\ Entry \in 1..last /\ Entry \in DOMAIN replies /\ last \in Nat
  BY <1>2 DEF BatchInv, BatchHeld, TenantInv, IngressTypeOK, QueueInv, ConsumerTypeOK
<1>4. BatchHeld' /\ BatchSorted' /\ BatchInUse' /\ FirstLife'
  BY <1>1 DEF BatchInv, BatchHeld, BatchSorted, BatchInUse, Waiting, FirstLife
<1>5. ended' \subseteq 1..last' /\ OldestFirst'
  <2>1. ended' \subseteq 1..last'
    BY <1>1, <1>3 DEF BatchInv
  <2>2. crashes = 0 => \A i \in ended : i \in Nat /\ i < Entry
    BY <1>1, <1>2, <1>3 DEF BatchInv, OldestFirst
  <2>3. Entry \in Nat /\ \A i \in ended' : i \in ended \/ (cpc' = "ack" /\ i = Entry)
    BY <1>1, <1>3
  <2>4. \A i \in ended' : crashes = 0 => IF cpc' = "ack" THEN i <= Entry ELSE i < Entry
    BY <2>2, <2>3
  <2>5. OldestFirst'
    BY <1>2, <2>4 DEF OldestFirst
  <2> QED
    BY <2>1, <2>5
<1>6. \A i \in DOMAIN replies : i # Entry \/ cpc' # "ack" => replies'[i] = replies[i]
  BY <1>1
<1>7. NotYetThisLife'
  <2>1. \A k \in DOMAIN batch : replies[batch[k]] <= crashes /\ batch[k] \in DOMAIN replies
    BY <1>1 DEF BatchInv, BatchHeld, NotYetThisLife, QueueInv, ConsumerTypeOK
  <2>2. \A k \in DOMAIN batch : k # 1 => batch[k] # Entry
    BY <1>2 DEF BatchInv, BatchSorted
  <2> QED
    BY <1>1, <1>6, <2>1, <2>2 DEF NotYetThisLife
<1>8. RepliesBounded'
  <2>1. replies[Entry] <= crashes /\ replies[Entry] \in Nat /\ crashes \in Nat
    BY <1>1, <1>2, <1>3 DEF BatchInv, NotYetThisLife, QueueInv, ConsumerTypeOK
  <2>2. replies'[Entry] <= 1 + crashes
    BY <1>1, <1>3, <2>1
  <2>3. \A i \in DOMAIN replies : replies'[i] = replies[i] \/ i = Entry
    BY <1>1
  <2>4. DOMAIN replies' = DOMAIN replies
    BY <1>1
  <2> QED
    BY <2>2, <2>3, <2>4 DEF BatchInv, RepliesBounded
<1> QED
  BY <1>1, <1>4, <1>5, <1>7, <1>8 DEF BatchInv
\* XACK, whether or not it succeeds, is followed by the next entry of the batch.
LEMMA AckKeepsBatch ==
    ASSUME TenantInv, QueueInv, QueueInv', BatchInv, Ack, UNCHANGED <<stream, crashes>>
    PROVE  BatchInv'
<1>1. /\ UNCHANGED <<last, self, ended, replies>>
      /\ cpc = "ack" /\ batch' = Tail(batch) /\ cpc' = NextStep(batch')
      /\ \/ pending' = [i \in DOMAIN pending \ {Entry} |-> pending[i]]
         \/ pending' = pending
  BY DEF Ack
<1>2. batch \in Seq(Nat) /\ batch # <<>> /\ Entry = batch[1]
  BY <1>1 DEF BatchInv, BatchInUse, Waiting, Entry
<1>3. /\ batch' \in Seq(Nat) /\ Len(batch') = Len(batch) - 1
      /\ \A k \in DOMAIN batch' :
            k \in Nat /\ 1 < k + 1 /\ k + 1 \in DOMAIN batch /\ batch'[k] = batch[k + 1]
  <2>1. Tail(batch) \in Seq(Nat) /\ Len(Tail(batch)) = Len(batch) - 1 /\ Len(batch) \in Nat \ {0}
    BY <1>2, HeadTailProperties
  <2>2. \A k \in 1..Len(Tail(batch)) : Tail(batch)[k] = batch[k + 1]
    BY <1>2, HeadTailProperties
  <2> QED
    BY <1>1, <1>2, <2>1, <2>2
<1>4. ASSUME NEW k \in DOMAIN batch'
      PROVE  Entry < batch'[k]
  <2>1. 1 \in DOMAIN batch /\ k + 1 \in DOMAIN batch /\ 1 < k + 1 /\ batch'[k] = batch[k + 1]
    BY <1>2, <1>3
  <2>2. batch[1] < batch[k + 1]
    BY <2>1 DEF BatchInv, BatchSorted
  <2> QED
    BY <1>2, <2>1, <2>2
<1>5. BatchSorted'
  <2> SUFFICES ASSUME NEW j \in DOMAIN batch', NEW k \in DOMAIN batch', j < k
               PROVE  batch'[j] < batch'[k]
    BY DEF BatchSorted
  <2>1. j + 1 < k + 1
    BY <1>3
  <2> QED
    BY <1>3, <2>1 DEF BatchInv, BatchSorted
<1>6. BatchHeld'
  <2> SUFFICES ASSUME NEW k \in DOMAIN batch'
               PROVE  batch'[k] \in DOMAIN pending' /\ pending'[batch'[k]] = self'
    BY DEF BatchHeld
  <2>1. batch'[k] \in DOMAIN pending /\ pending[batch'[k]] = self
    BY <1>3 DEF BatchInv, BatchHeld
  <2>2. batch'[k] # Entry
    BY <1>2, <1>3, <1>4
  <2> QED
    BY <1>1, <2>1, <2>2
<1>7. ASSUME NEW k \in DOMAIN batch'
      PROVE  /\ crashes = 0 => \A i \in ended : i < batch'[k]
             /\ replies'[batch'[k]] <= crashes
  <2>1. Entry \in Nat /\ batch'[k] \in Nat /\ Entry < batch'[k]
    BY <1>2, <1>3, <1>4
  <2>2. crashes = 0 => \A i \in ended : i \in Nat /\ i <= Entry
    BY <1>1, <1>2 DEF BatchInv, OldestFirst, TenantInv, IngressTypeOK, QueueInv, ConsumerTypeOK
  <2>3. replies[batch[k + 1]] <= crashes
    BY <1>3 DEF BatchInv, NotYetThisLife
  <2> QED
    BY <1>1, <1>3, <2>1, <2>2, <2>3
<1>8. RepliesBounded'
  BY <1>1 DEF BatchInv, RepliesBounded
<1>9. last <= last'
  BY <1>1 DEF TenantInv, IngressTypeOK, QueueInv, ConsumerTypeOK
<1> QED
  BY <1>1, <1>3, <1>5, <1>6, <1>7, <1>8, <1>9, FreshBatch

LEMMA BatchStep ==
    TenantInv /\ QueueInv /\ QueueInv' /\ BatchInv /\ [Next]_vars => BatchInv'
<1> SUFFICES ASSUME TenantInv, QueueInv, QueueInv', BatchInv, [Next]_vars PROVE BatchInv'
  OBVIOUS
<1>1. CASE Consume
  <2>1. ConsumerStep /\ UNCHANGED <<stream, crashes>>
    BY <1>1 DEF Consume, ingressVars
  <2> QED
    BY <2>1, PendingKeepsBatch, ReadKeepsBatch, JobKeepsBatch, AckKeepsBatch DEF ConsumerStep
<1>2. CASE Api \/ Platform \/ UNCHANGED vars \/ \E q \in Requests : Webhook(q)
  <2>1. UNCHANGED <<last, pending, self, cpc, batch, ended, replies, crashes>>
    BY <1>2 DEF Api, Platform, Webhook, vars, consumerVars
  <2> QED
    BY <2>1 DEF BatchInv, BatchHeld, BatchSorted, BatchInUse, Waiting, FirstLife, OldestFirst,
                NotYetThisLife, RepliesBounded, Entry
<1>3. CASE Crash
  <2>1. /\ UNCHANGED <<last, pending, ended, replies>>
        /\ cpc' = "down" /\ batch' = <<>> /\ crashes' = crashes + 1
    BY <1>3 DEF Crash, ConsumerCrash, groupVars
  <2>2. crashes \in Nat /\ \A i \in DOMAIN replies : replies[i] \in Nat /\ replies[i] <= 1 + crashes
    BY DEF BatchInv, RepliesBounded, QueueInv, ConsumerTypeOK
  <2>3. NotYetThisLife' /\ RepliesBounded'
    BY <2>1, <2>2 DEF NotYetThisLife, RepliesBounded
  <2> QED
    BY <2>1, <2>3 DEF BatchInv, BatchHeld, BatchSorted, BatchInUse, Waiting, FirstLife, OldestFirst
<1>4. CASE Restart
  <2>1. /\ UNCHANGED <<last, pending, batch, ended, replies, crashes>>
        /\ cpc = "down" /\ cpc' = "pending"
    BY <1>4 DEF Restart, ConsumerRestart, groupVars
  <2>2. batch = <<>> /\ crashes # 0
    BY <2>1 DEF BatchInv, BatchInUse, Waiting, FirstLife
  <2> QED
    BY <2>1, <2>2 DEF BatchInv, BatchHeld, BatchSorted, BatchInUse, Waiting, FirstLife, OldestFirst,
                      NotYetThisLife, RepliesBounded
<1> QED
  BY <1>1, <1>2, <1>3, <1>4 DEF Next

\* What holds of the batch in hand, for any number of messages, crashes and
\* names and any batch size and faults (processPending, processBatch).
THEOREM BatchInvariance == Spec => []BatchInv
<1>1. TenantInv /\ QueueInv /\ [Next]_vars => QueueInv'
  BY QueueStep
<1>2. TenantInv /\ QueueInv /\ QueueInv' /\ BatchInv /\ [Next]_vars => BatchInv'
  BY BatchStep
<1> QED
  BY <1>1, <1>2, QueueInitial, BatchInitial, TenantInvariance, PTL DEF Spec

\* Jobs are handled in the order of their entries, and no later one before an
\* earlier one in a life without a crash (ReadGroup, processBatch).
THEOREM StreamOrderKept == Spec => []InStreamOrder
<1>1. BatchInv => InStreamOrder
  BY DEF BatchInv, BatchHeld, BatchSorted, OldestFirst, InStreamOrder
<1> QED
  BY <1>1, BatchInvariance, PTL

\* An entry is replied to once, and once more for each crash (sendReply before
\* ack).
THEOREM ReplyPerLife == Spec => []RepliesBounded
<1>1. BatchInv => RepliesBounded
  BY DEF BatchInv
<1> QED
  BY <1>1, BatchInvariance, PTL

=============================================================================
