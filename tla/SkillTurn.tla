------------------------------- MODULE SkillTurn ------------------------------
(***************************************************************************)
(* The skills of a turn (internal/skills, used by runtime/agent_loop.go):  *)
(* the roots are loaded one after the other, the agent's requests are      *)
(* resolved against what was found, and for Claude the selected skills are *)
(* copied into a plugin directory that the run's id names.                 *)
(*                                                                         *)
(* A SKILL.md is [file, name, version, texts, blocks, env, mcp]: whether   *)
(* it is there, the fields the resolver looks at, "" for one that is       *)
(* missing, and whether the other texts and the optional blocks are sound. *)
(***************************************************************************)
EXTENDS Integers, Sequences, FiniteSets

CONSTANTS
    Turns,      \* turn -> [run, requested, provider]; requested <<>> for all
    Disks,      \* the roots at first, sequences of [tier, found]; found is a
                \* sequence of [dir, hidden, md] in the order of the names
    Updates,    \* what an installer may write over a SKILL.md: [dir, md]
    Environment \* the variables that are set

VARIABLES
    disk,
    plugins,    \* run -> its plugin directory, [there, skills, loopback]
    turn        \* turn -> what AgentLoop.Run holds, and whether its plugin
                \* directory was disturbed by another turn
skillTurnVars == <<disk, plugins, turn>>

TierRank == [workspace |-> 0, project |-> 1, personal |-> 2, managed |-> 3, bundled |-> 4]

\* Roots are configured with one of the five tiers.
ASSUME SkillAssumption ==
    \A d \in Disks :
        /\ d \in Seq({d[i] : i \in DOMAIN d})
        /\ \A i \in DOMAIN d :
              /\ d[i] = [tier |-> d[i].tier, found |-> d[i].found]
              /\ d[i].tier \in DOMAIN TierRank
              /\ d[i].found \in Seq({d[i].found[j] : j \in DOMAIN d[i].found})

\* The elements of s at the positions A, in their order.
Those(s, A) ==
    [n \in 1..Cardinality(A) |->
        s[CHOOSE i \in A : Cardinality({j \in A : j < i}) = n - 1]]

-----------------------------------------------------------------------------
(***************************************************************************)
(* schema.go and loader.go.                                                *)
(***************************************************************************)
\* The directory's name stands in for a missing name; a wrong block, or another
\* required field that is missing, refuses the file.
ParseSkillMD(md, fallback) ==
    [valid |-> md.file = "framed" /\ md.name # "No Slug" /\ md.version # "" /\ md.texts /\ md.blocks,
     name |-> IF md.name = "" THEN fallback ELSE md.name, version |-> md.version,
     required_env |-> md.env, mcp |-> md.mcp]

LoadSkillDir(entry, tier) == [manifest |-> ParseSkillMD(entry.md, entry.dir), tier |-> tier]

\* A hidden directory is passed over, and a file that is refused is a warning.
\* A root that does not exist, or is no directory, is one with nothing found.
LoadRoot(root) ==
    LET loaded == [i \in DOMAIN root.found |-> LoadSkillDir(root.found[i], root.tier)] IN
    Those(loaded, {i \in DOMAIN loaded : ~root.found[i].hidden /\ loaded[i].manifest.valid})

-----------------------------------------------------------------------------
(***************************************************************************)
(* resolver.go.                                                            *)
(***************************************************************************)
\* The first of its name in its tier; the others are rejected.
FirstOfTier(available, i) ==
    \A j \in 1 .. i - 1 : ~(/\ available[j].tier = available[i].tier
                            /\ available[j].manifest.name = available[i].manifest.name)
Group(available, slug) ==
    {available[i] : i \in {k \in DOMAIN available :
        available[k].manifest.name = slug /\ FirstOfTier(available, k)}}

Eligible(cand, version) ==
    /\ version \in {"any", cand.manifest.version}
    /\ cand.manifest.required_env \subseteq Environment

\* Mutant: the lowest tier wins.
PickWithPrecedence_Lowest(group, version) ==
    {c \in group : Eligible(c, version) /\
        \A d \in group : Eligible(d, version) => TierRank[c.tier] >= TierRank[d.tier]}
PickWithPrecedence(group, version) ==
    {c \in group : Eligible(c, version) /\
        \A d \in group : Eligible(d, version) => TierRank[c.tier] <= TierRank[d.tier]}

\* A request that cannot be parsed names no skill.  A slug requested twice is
\* selected twice.
Selected(available, requested) ==
    IF requested = <<>>
    THEN UNION {{[ref |-> 0, skill |-> c] : c \in PickWithPrecedence(Group(available, slug), "any")} :
                  slug \in {available[i].manifest.name : i \in DOMAIN available}}
    ELSE UNION {{[ref |-> r, skill |-> c] :
                    c \in PickWithPrecedence(Group(available, requested[r].slug),
                                             requested[r].version)} :
                  r \in DOMAIN requested}

Unknown(available, requested) ==
    {r \in DOMAIN requested :
        PickWithPrecedence(Group(available, requested[r].slug), requested[r].version) = {}}

-----------------------------------------------------------------------------
(***************************************************************************)
(* A turn.                                                                 *)
(***************************************************************************)
NoPlugin    == [there |-> FALSE, skills |-> {}, loopback |-> FALSE]
EmptyPlugin == [NoPlugin EXCEPT !.there = TRUE]

SkillTurnInit ==
    /\ disk \in Disks
    /\ plugins = [run \in {Turns[t].run : t \in DOMAIN Turns} |-> NoPlugin]
    /\ turn = [t \in DOMAIN Turns |->
         [pc |-> "load", loaded |-> <<>>, roots |-> 0, selected |-> {}, unknown |-> {},
          todo |-> {}, plugin |-> FALSE, bridge |-> FALSE, disturbed |-> FALSE]]

Run(t)  == Turns[t].run
Slug(s) == s.skill.manifest.name
Go(t, pc) == [turn EXCEPT ![t].pc = pc]

\* Other turns under way with the same run id find their directory changed.
Disturbing(t, f) == [w \in DOMAIN Turns |->
    IF w # t /\ Run(w) = Run(t) /\ f[w].pc \notin {"load", "done", "dead"}
    THEN [f[w] EXCEPT !.disturbed = TRUE] ELSE f[w]]

Load(t) ==
    /\ turn[t].pc = "load" /\ turn[t].roots < Len(disk)
    /\ turn' = [turn EXCEPT ![t].roots = @ + 1,
                            ![t].loaded = @ \o LoadRoot(disk[turn[t].roots + 1])]
    /\ UNCHANGED <<disk, plugins>>

Resolve(t) ==
    LET s == Selected(turn[t].loaded, Turns[t].requested) IN
    /\ turn[t].pc = "load" /\ turn[t].roots = Len(disk)
    /\ turn' = [turn EXCEPT ![t].selected = s, ![t].todo = s,
                    ![t].unknown = Unknown(turn[t].loaded, Turns[t].requested),
                    ![t].pc = IF Turns[t].provider = "claude" /\ s # {} THEN "clear" ELSE "bridge"]
    /\ UNCHANGED <<disk, plugins>>

\* GeneratePluginDir.
\* Mutant: what is there stays.
Clear_Keep(t) ==
    /\ turn[t].pc = "clear"
    /\ plugins' = [plugins EXCEPT ![Run(t)].there = TRUE]
    /\ turn' = Disturbing(t, Go(t, "copy"))
    /\ UNCHANGED disk
Clear(t) ==
    /\ turn[t].pc = "clear"
    /\ plugins' = [plugins EXCEPT ![Run(t)] = EmptyPlugin]
    /\ turn' = Disturbing(t, Go(t, "copy"))
    /\ UNCHANGED disk

\* The skill's tree, or its manifest alone if the tree has gone.
Copy(t) ==
    /\ turn[t].pc = "copy"
    /\ \E s \in turn[t].todo :
         /\ plugins' = [plugins EXCEPT ![Run(t)] =
                [@ EXCEPT !.there = TRUE, !.skills = plugins[Run(t)].skills \union {Slug(s)}]]
         /\ turn' = Disturbing(t, [turn EXCEPT ![t].todo = @ \ {s}])
    /\ UNCHANGED disk

\* An error of any file operation leaves what has been written, and the turn
\* goes on without it.
CopyFails(t) ==
    /\ turn[t].pc \in {"clear", "copy"}
    /\ turn' = Go(t, "bridge")
    /\ UNCHANGED <<disk, plugins>>

Generated(t) ==
    /\ turn[t].pc = "copy" /\ turn[t].todo = {}
    /\ turn' = [turn EXCEPT ![t].plugin = TRUE, ![t].pc = "bridge"]
    /\ UNCHANGED <<disk, plugins>>

\* maybeStartBridge and buildProviderOverlay: without a bridge Claude is not
\* told of the directory.
StartBridge(t) ==
    LET starts == \E s \in turn[t].selected : s.skill.manifest.mcp IN
    /\ turn[t].pc = "bridge"
    /\ \E up \in IF starts THEN BOOLEAN ELSE {FALSE} :
         LET layered == up /\ turn[t].plugin /\ plugins[Run(t)].there IN
         /\ plugins' = IF layered THEN [plugins EXCEPT ![Run(t)].loopback = TRUE] ELSE plugins
         /\ turn' = LET f == [turn EXCEPT ![t].bridge = up, ![t].pc = "cli"]
                    IN IF layered THEN Disturbing(t, f) ELSE f
    /\ UNCHANGED disk

CliEnds(t) ==
    /\ turn[t].pc = "cli"
    /\ turn' = Go(t, "cleanup")
    /\ UNCHANGED <<disk, plugins>>

Cleanup(t) ==
    /\ turn[t].pc = "cleanup"
    /\ plugins' = IF turn[t].plugin THEN [plugins EXCEPT ![Run(t)] = NoPlugin] ELSE plugins
    /\ turn' = IF turn[t].plugin THEN Disturbing(t, Go(t, "done")) ELSE Go(t, "done")
    /\ UNCHANGED disk

\* The daemon is killed, as the job's next delivery finds.
DaemonDies(t) ==
    /\ turn[t].pc \notin {"done", "dead"}
    /\ turn' = Go(t, "dead")
    /\ UNCHANGED <<disk, plugins>>

\* The installer replaces a skill.
Update ==
    \E u \in Updates, i \in DOMAIN disk : \E j \in DOMAIN disk[i].found :
        /\ disk[i].found[j].dir = u.dir /\ disk[i].found[j].md # u.md
        /\ disk' = [disk EXCEPT ![i].found[j].md = u.md]
        /\ UNCHANGED <<plugins, turn>>

SkillTurnNext ==
    \/ Update
    \/ \E t \in DOMAIN Turns :
         \/ Load(t) \/ Resolve(t) \/ Clear(t) \/ Copy(t) \/ CopyFails(t) \/ Generated(t)
         \/ StartBridge(t) \/ CliEnds(t) \/ Cleanup(t) \/ DaemonDies(t)
SkillTurnSpec == SkillTurnInit /\ [][SkillTurnNext]_skillTurnVars

-----------------------------------------------------------------------------
(***************************************************************************)
(* Properties.                                                             *)
(***************************************************************************)
\* The positions of the skills of the tiers above k.
Higher(available, k) == {i \in DOMAIN available : TierRank[available[i].tier] < k}

\* What a tier ships is decided without the tiers below it: to add or to remove
\* lower ones changes no selection of a higher one, whatever the order of the
\* roots, the pins and the environment (Resolve, pickWithPrecedence).
LowerTiersYield ==
    \A t \in DOMAIN Turns : turn[t].pc \notin {"load", "dead"} =>
        \A k \in 0 .. 4 :
            LET Above(s) == TierRank[s.skill.tier] < k IN
            Selected(Those(turn[t].loaded, Higher(turn[t].loaded, k)), Turns[t].requested)
              = {s \in turn[t].selected : Above(s)}

\* While Claude runs with a plugin directory, and no other turn with its run id
\* has touched it, the directory holds the selected skills and nothing that an
\* earlier delivery of the run left behind (GeneratePluginDir).
PluginDirIsSelection ==
    \A t \in DOMAIN Turns :
        turn[t].pc = "cli" /\ turn[t].plugin /\ ~turn[t].disturbed =>
            /\ plugins[Run(t)].there
            /\ plugins[Run(t)].skills = {Slug(s) : s \in turn[t].selected}
            /\ plugins[Run(t)].loopback => turn[t].bridge
================================================================================
