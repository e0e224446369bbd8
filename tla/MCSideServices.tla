---------------------------- MODULE MCSideServices ----------------------------
(***************************************************************************)
(* Small instances, for TLC, of the components around a turn that share    *)
(* no state with each other: an instance runs one of them, as part says,   *)
(* and leaves the others where they began.                                 *)
(***************************************************************************)
EXTENDS DaemonHandle, McpBridge, SkillTurn, ZaloTokens, ProviderHealth, Migration

VARIABLE part
sideVars == <<handleVars, bridgeVars, skillTurnVars, tokenVars, healthVars, migrationVars, part>>

\* Two daemons of one sandbox, the first with two RPCs.
MCSandboxOf == [d1 |-> "s", d2 |-> "s"]
MCDaemonOf  == [r1 |-> "d1", r2 |-> "d1"]
MCMaxJunk   == [d1 |-> 1, d2 |-> 0]

\* A skill with a server, one without, and requests of every kind.
Skill(enabled, command) == [enabled |-> enabled, command |-> command]
MCManifests == [a |-> Skill(TRUE, TRUE), b |-> Skill(TRUE, FALSE)]
Request(post, authorised, method, slug) ==
    [post |-> post, token |-> authorised, method |-> method, slug |-> slug]
ToolCall(slug) == Request(TRUE, TRUE, "tools/call", slug)
MCInputs == [c1 |-> {ToolCall("a")},
             c2 |-> {ToolCall("a"), ToolCall("b"), Request(TRUE, FALSE, "tools/list", "none"),
                     Request(TRUE, TRUE, "tools/list", "none")}]
MCBounds == {[children |-> 2, processes |-> 2, notices |-> 0],
             [children |-> 1, processes |-> 1, notices |-> 1]}

\* Two deliveries of a run, roots in either order of precedence, a name that is
\* not the directory's, and a file that is refused.
SkillMd == [file |-> "framed", name |-> "", version |-> "1", texts |-> TRUE, blocks |-> TRUE,
            env |-> {}, mcp |-> FALSE]
Found(dir, md)    == [dir |-> dir, hidden |-> FALSE, md |-> md]
Root(tier, found) == [tier |-> tier, found |-> found]
MCDisks == {
    << Root("managed", <<Found("doc", SkillMd), Found("pdf", [SkillMd EXCEPT !.mcp = TRUE])>>),
       Root("workspace", <<Found("pdf", [SkillMd EXCEPT !.version = "2"])>>) >>,
    << Root("workspace", <<Found("doc", [SkillMd EXCEPT !.name = "pdf", !.env = {"KEY"}]),
                           Found("pdf", SkillMd)>>),
       Root("bundled", <<Found("bad", [SkillMd EXCEPT !.blocks = FALSE]),
                         [Found("git", SkillMd) EXCEPT !.hidden = TRUE],
                         Found("pdf", SkillMd)>>) >> }
SkillRequest(slug, version) == [slug |-> slug, version |-> version]
MCTurns == [t1 |-> [run |-> "r", provider |-> "claude",
                    requested |-> <<SkillRequest("pdf", "1"), SkillRequest("doc", "any"),
                                    SkillRequest("pdf", "any")>>],
            t2 |-> [run |-> "r", provider |-> "claude", requested |-> <<>>]]
MCUpdates == {[dir |-> "pdf", md |-> [SkillMd EXCEPT !.version = "2", !.mcp = TRUE]]}

MCBackoff == <<1, 2>>
MCNewest  == [old |-> 2, new |-> 3]

SideInit ==
    /\ HandleInit /\ BridgeInit /\ SkillTurnInit /\ TokenInit /\ HealthInit /\ MigrationInit
    /\ part \in {"handle", "bridge", "skills", "tokens", "health", "migration"}
    /\ part = "bridge" \/ room = CHOOSE r \in Bounds : TRUE
    /\ part = "skills" \/ disk = CHOOSE d \in Disks : TRUE

AtRest(vars) == UNCHANGED vars
SideNext ==
    /\ part' = part
    /\ part = "handle"    \/ AtRest(handleVars)
    /\ part = "bridge"    \/ AtRest(bridgeVars)
    /\ part = "skills"    \/ AtRest(skillTurnVars)
    /\ part = "tokens"    \/ AtRest(tokenVars)
    /\ part = "health"    \/ AtRest(healthVars)
    /\ part = "migration" \/ AtRest(migrationVars)
    /\ CASE part = "handle" -> HandleNext
         [] part = "bridge" -> BridgeNext
         [] part = "skills" -> SkillTurnNext
         [] part = "tokens" -> TokenNext
         [] part = "health" -> HealthNext
         [] OTHER           -> MigrationNext

SideSpec == SideInit /\ [][SideNext]_sideVars
================================================================================
