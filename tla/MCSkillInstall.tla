---------------------------- MODULE MCSkillInstall -----------------------------
(***************************************************************************)
(* Small instances of SkillInstall for TLC: two publishers, four tarballs  *)
(* of which two carry the same version and one lists no tools, and one     *)
(* with an unsafe path.                                                    *)
(* Either publishing is varied, with keys that rotate, or sound tarballs   *)
(* of one publisher are installed, as scenario says.                       *)
(***************************************************************************)
EXTENDS SkillInstall

VARIABLE scenario

File(p)  == [path |-> p, form |-> "plain", type |-> "file", depth |-> 0]
Link     == [path |-> "link", form |-> "plain", type |-> "link", depth |-> 0]
Outside  == [path |-> "up", form |-> "parent", type |-> "file", depth |-> 0]
Tarball(name, version, about, tags, members) ==
    [manifest |-> [parses |-> TRUE, name |-> name, version |-> version,
                   description |-> about, listed |-> TRUE, tags |-> tags],
     members |-> members]

One    == Tarball("pdf", "1", "reads files", {"ocr"}, <<File("SKILL.md"), File("old.py")>>)
Other  == Tarball("pdf", "1", "none", {}, <<File("SKILL.md")>>)
Two    == Tarball("pdf", "2", "none", {"text"}, <<File("SKILL.md"), Link, File("new.py")>>)
Bare   == [One EXCEPT !.manifest.version = "2", !.manifest.listed = FALSE,
                      !.manifest.tags = {}]
Escape == Tarball("doc", "1", "none", {}, <<File("SKILL.md"), Outside>>)

Submit(h, n, t) == [slug |-> "pdf", token |-> <<h, n>>, tarball |-> t, formed |-> TRUE,
                    signature |-> [key |-> <<h, n>>, over |-> t]]
Sound == {Submit("ann", 1, One), Submit("ann", 1, Two)}
MCTarballs == {One, Other, Two, Bare, Escape}
MCSubmissions ==
    Sound \union {Submit("ann", 2, t) : t \in {One, Two}}
    \union {Submit("bob", 1, Other), Submit("ann", 1, Other), Submit("ann", 1, Bare),
            [Submit("ann", 1, One) EXCEPT !.signature.over = Two],
            [Submit("ann", 1, One) EXCEPT !.signature.key = <<"bob", 1>>],
            [Submit("ann", 1, Escape) EXCEPT !.slug = "doc"],
            [Submit("ann", 1, One) EXCEPT !.slug = "doc"],
            [Submit("ann", 1, Two) EXCEPT !.formed = FALSE]}

MCStores == {<<"memory", "memory">>, <<"postgres", "filesystem">>, <<"memory", "filesystem">>}
Within ==
    \/ scenario = "publish" /\ installs = 0
    \/ /\ scenario = "install" /\ rotations = 0
       /\ \A r \in Requests : job[r].pc = "checks" => job[r].sub \in Sound
       /\ client.pc = "package" => client.slug = "pdf"
MCSkillInit ==
    /\ SkillInit /\ scenario \in {"publish", "install"}
    /\ scenario = "publish" => verifier = "inprocess"
    /\ scenario = "install" => store # <<"memory", "filesystem">>
MCSkillSpec ==
    /\ MCSkillInit
    /\ [][SkillNext /\ scenario' = scenario /\ Within']_<<skillVars, scenario>>
================================================================================
