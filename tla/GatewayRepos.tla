---------------------------- MODULE GatewayRepos ----------------------------
(***************************************************************************)
(* The gateway's agents and channels: dal.go (in-memory repositories),     *)
(* cmd/gateway/pg_repos.go with persistence/repos/channels.go (Postgres),  *)
(* and the handlers of routes/agents.go, routes/channels.go and            *)
(* routes/admin.go.                                                        *)
(*                                                                         *)
(* main wires Postgres when it is configured and answers at start-up and   *)
(* the in-memory repositories otherwise, so repo is chosen at every start; *)
(* the rows of the one survive a crash, those of the other do not.         *)
(*                                                                         *)
(* A handler first reads the row it is about, checks that the caller owns  *)
(* it, and then writes: two repository calls, between which the handlers   *)
(* of other callers run.  The administrator's registration checks nothing: *)
(* granted has the pairs it made of a user and another user's agent.  An   *)
(* agent or channel id is a UUID, never reused.                            *)
(***************************************************************************)
EXTENDS FiniteSets, Naturals

CONSTANTS
    Users, Agents, Channels, Exts,  \* Exts: external ids, with their type
    NoUser, NoAgent, NoChannel, NoExt,
    Repos,                          \* which repositories main may wire
    Callers,                        \* API requests at a time
    AdminPairs                      \* users and agents that administrators register

ASSUME ReposAssumption ==
    /\ Repos \subseteq {"memory", "postgres"} /\ Repos # {}
    /\ AdminPairs \subseteq Users \X Agents
    /\ NoUser \notin Users /\ NoAgent \notin Agents
    /\ NoChannel \notin Channels /\ NoExt \notin Exts

VARIABLES
    repo,     \* the repositories in use
    agents,   \* owner of each agent, in each repository
    rows,     \* channel rows, in each repository
    byExt,    \* routing index of the in-memory repository
    issued,   \* agent and channel ids handed out
    granted,  \* users given an agent of another's by an administrator
    call      \* the API request of each caller

repoVars == <<repo, agents, rows, byExt, issued, granted, call>>

NoRow    == [ext |-> NoExt, user |-> NoUser, agent |-> NoAgent]
NoLookup == [channel |-> NoChannel, user |-> NoUser, agent |-> NoAgent]
NoCall   == [op |-> "none", user |-> NoUser, agent |-> NoAgent,
             channel |-> NoChannel, ext |-> NoExt]

ReposTypeOK ==
    /\ repo \in Repos
    /\ agents \in [Repos -> [Agents -> Users \cup {NoUser}]]
    /\ rows \in [Repos -> [Channels -> [ext : Exts \cup {NoExt}, user : Users \cup {NoUser},
                                        agent : Agents \cup {NoAgent}]]]
    /\ byExt \in [Exts -> [channel : Channels \cup {NoChannel}, user : Users \cup {NoUser},
                           agent : Agents \cup {NoAgent}]]
    /\ issued \subseteq Agents \cup Channels
    /\ granted \subseteq AdminPairs
    /\ call \in [Callers -> [op : {"none", "register", "channel", "agent"},
                             user : Users \cup {NoUser}, agent : Agents \cup {NoAgent},
                             channel : Channels \cup {NoChannel}, ext : Exts \cup {NoExt}]]

ReposInit ==
    /\ repo \in Repos
    /\ agents = [r \in Repos |-> [a \in Agents |-> NoUser]]
    /\ rows   = [r \in Repos |-> [c \in Channels |-> NoRow]]
    /\ byExt  = [e \in Exts |-> NoLookup]
    /\ issued = {} /\ granted = {}
    /\ call   = [k \in Callers |-> NoCall]

-----------------------------------------------------------------------------
(***************************************************************************)
(* The repositories' operations, each atomic under its mutex or in one     *)
(* SQL statement.                                                          *)
(***************************************************************************)
\* The routing of an external id, NoLookup when it is not registered.
LookupRouting(e) ==
    IF repo = "memory" THEN byExt[e]
    ELSE IF \E c \in Channels : rows[repo][c].ext = e
         THEN LET c == CHOOSE c \in Channels : rows[repo][c].ext = e
              IN [channel |-> c, user |-> rows[repo][c].user, agent |-> rows[repo][c].agent]
         ELSE NoLookup

ChannelExists(c) == rows[repo][c] # NoRow
AgentExists(a)   == agents[repo][a] # NoUser

\* A first registration.
InsertChannel(u, e, a) ==
    \E c \in Channels \ issued :
        /\ issued' = issued \cup {c}
        /\ rows' = [rows EXCEPT ![repo][c] = [ext |-> e, user |-> u, agent |-> a]]
        /\ byExt' = IF repo = "memory"
                    THEN [byExt EXCEPT ![e] = [channel |-> c, user |-> u, agent |-> a]]
                    ELSE byExt

\* Mutant: the Postgres upsert updates the agent and leaves the user.
Reregister_KeepUser(u, e, a) ==
    LET c == LookupRouting(e).channel IN
    /\ rows' = [rows EXCEPT ![repo][c].agent = a]
    /\ UNCHANGED <<byExt, issued>>

\* A registration of a known external id.  Postgres hands the row over to
\* the caller; the in-memory row gets the new agent, and its index keeps
\* the user and the agent of the first registration.
Reregister(u, e, a) ==
    LET c == LookupRouting(e).channel IN
    /\ rows' = IF repo = "memory"
               THEN [rows EXCEPT ![repo][c].agent = a]
               ELSE [rows EXCEPT ![repo][c] = [ext |-> e, user |-> u, agent |-> a]]
    /\ UNCHANGED <<byExt, issued>>

Register(u, e, a) ==
    IF LookupRouting(e) = NoLookup THEN InsertChannel(u, e, a) ELSE Reregister(u, e, a)

\* Delete of a channel: Postgres does not implement it and returns an error.
DeleteRow(c) ==
    /\ IF repo = "memory" /\ ChannelExists(c)
       THEN /\ rows'  = [rows EXCEPT ![repo][c] = NoRow]
            /\ byExt' = [byExt EXCEPT ![rows[repo][c].ext] = NoLookup]
       ELSE UNCHANGED <<rows, byExt>>
    /\ UNCHANGED issued

-----------------------------------------------------------------------------
(***************************************************************************)
(* The handlers.                                                           *)
(***************************************************************************)
\* POST /agents.
CreateAgent(u) ==
    /\ \E a \in Agents \ issued :
          /\ agents' = [agents EXCEPT ![repo][a] = u]
          /\ issued' = issued \cup {a}
    /\ UNCHANGED <<repo, rows, byExt, granted, call>>

\* POST /channels: the agent must exist and belong to the caller.
RegisterCheck(k, u, e, a) ==
    /\ call[k] = NoCall
    /\ agents[repo][a] = u
    /\ call' = [call EXCEPT ![k] = [op |-> "register", user |-> u, agent |-> a,
                                    channel |-> NoChannel, ext |-> e]]
    /\ UNCHANGED <<repo, agents, rows, byExt, issued, granted>>

RegisterWrite(k) ==
    /\ call[k].op = "register"
    /\ Register(call[k].user, call[k].ext, call[k].agent)
    /\ call' = [call EXCEPT ![k] = NoCall]
    /\ UNCHANGED <<repo, agents, granted>>

\* POST /admin/channels: any user and any agent, in one call.  Postgres refuses an
\* agent that is not there.
Mixed(u, a) == \E r \in Repos : agents[r][a] \notin {u, NoUser}
AdminRegister(u, e, a) ==
    /\ <<u, a>> \in AdminPairs
    /\ a \in issued /\ (repo = "postgres" => AgentExists(a))
    /\ Register(u, e, a)
    /\ granted' = IF Mixed(u, a) THEN granted \cup {<<u, a>>} ELSE granted
    /\ UNCHANGED <<repo, agents, call>>

\* DELETE /channels/{id}: the channel must exist and belong to the caller.
DeleteChannelCheck(k, u, c) ==
    /\ call[k] = NoCall
    /\ ChannelExists(c) /\ rows[repo][c].user = u
    /\ call' = [call EXCEPT ![k] = [op |-> "channel", user |-> NoUser, agent |-> NoAgent,
                                    channel |-> c, ext |-> NoExt]]
    /\ UNCHANGED <<repo, agents, rows, byExt, issued, granted>>

DeleteChannelWrite(k) ==
    /\ call[k].op = "channel"
    /\ DeleteRow(call[k].channel)
    /\ call' = [call EXCEPT ![k] = NoCall]
    /\ UNCHANGED <<repo, agents, granted>>

\* DELETE /agents/{id}: 501 with Postgres, whose repository cannot delete.
DeleteAgentCheck(k, u, a) ==
    /\ call[k] = NoCall
    /\ repo = "memory"
    /\ agents[repo][a] = u
    /\ call' = [call EXCEPT ![k] = [op |-> "agent", user |-> NoUser, agent |-> a,
                                    channel |-> NoChannel, ext |-> NoExt]]
    /\ UNCHANGED <<repo, agents, rows, byExt, issued, granted>>

DeleteAgentWrite(k) ==
    /\ call[k].op = "agent"
    /\ agents' = [agents EXCEPT ![repo][call[k].agent] = NoUser]
    /\ call' = [call EXCEPT ![k] = NoCall]
    /\ UNCHANGED <<repo, rows, byExt, issued, granted>>

ApiStep ==
    \/ \E u \in Users : CreateAgent(u)
    \/ \E u \in Users, e \in Exts, a \in Agents : AdminRegister(u, e, a)
    \/ \E k \in Callers :
          \/ \E u \in Users :
                \/ \E e \in Exts, a \in Agents : RegisterCheck(k, u, e, a)
                \/ \E c \in Channels : DeleteChannelCheck(k, u, c)
                \/ \E a \in Agents : DeleteAgentCheck(k, u, a)
          \/ RegisterWrite(k) \/ DeleteChannelWrite(k) \/ DeleteAgentWrite(k)

\* A start of the process: its memory is empty, Postgres is as it was.
ReposRestart ==
    /\ repo' \in Repos
    /\ agents' = [r \in Repos |-> IF r = "memory" THEN [a \in Agents |-> NoUser]
                                                  ELSE agents[r]]
    /\ rows'   = [r \in Repos |-> IF r = "memory" THEN [c \in Channels |-> NoRow]
                                                  ELSE rows[r]]
    /\ byExt'  = [e \in Exts |-> NoLookup]
    /\ call'   = [k \in Callers |-> NoCall]
    /\ UNCHANGED <<issued, granted>>
=============================================================================
