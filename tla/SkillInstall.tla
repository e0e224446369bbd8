------------------------------ MODULE SkillInstall -----------------------------
(***************************************************************************)
(* "platform skills install", "update" and "check" (cmd/platform/          *)
(* skills.go) against the registry: one request per step, each of which    *)
(* may fail, while publishes, key changes and restarts go on; then the     *)
(* checks, and one file operation per step, between which the command may  *)
(* be killed.  One command runs at a time.                                 *)
(***************************************************************************)
EXTENDS SkillRegistry

CONSTANTS
    Verifiers,      \* values of the command's verifier setting
    MaxInstalls

ASSUME InstallAssumption == MaxInstalls \in Nat

VARIABLES
    verifier,
    client,         \* what the command holds
    dir,            \* slug -> [exists, files, receipt, unremoved]; unremoved is the
                    \* history of a RemoveAll that failed, and no step reads it
    installs
installVars == <<verifier, client, dir, installs>>
skillVars   == <<registryVars, installVars>>

NoReceipt == [version |-> "none"]
NoDir     == [exists |-> FALSE, files |-> {}, receipt |-> NoReceipt,
              unremoved |-> FALSE]
Ended(a)  == [pc |-> "ended", answer |-> a]
EndWith(a) == client' = Ended(a)

InstallInit ==
    /\ verifier \in Verifiers
    /\ client = Ended("none")
    /\ dir = [s \in Slugs |-> NoDir]
    /\ installs = 0

\* A member is a file of the directory under its path, with what it holds.
FilesOf(t) == {<<t.members[i].path, t>> : i \in {i \in DOMAIN t.members : t.members[i].type = "file"}}

-----------------------------------------------------------------------------
(***************************************************************************)
(* The requests.                                                           *)
(***************************************************************************)
Keep(more) == client' = [f \in DOMAIN client \union DOMAIN more |->
                           IF f \in DOMAIN more THEN more[f] ELSE client[f]]

StartInstall(s, version, force) ==
    /\ client.pc = "ended" /\ installs < MaxInstalls
    /\ installs' = installs + 1
    /\ client' = [pc |-> "package", slug |-> s, version |-> version, force |-> force]
    /\ UNCHANGED <<verifier, dir>>

GetPackage ==
    /\ client.pc = "package"
    /\ IF packages[client.slug].releases = {} THEN EndWith("not_found")
       ELSE Keep([pc |-> "release",
                  version |-> IF client.version # "latest" THEN client.version
                              ELSE LatestRelease(client.slug).version])
    /\ UNCHANGED <<verifier, dir, installs>>

FetchRelease ==
    /\ client.pc = "release"
    /\ IF GetRelease(client.slug, client.version) = {} THEN EndWith("not_found")
       ELSE \E e \in GetRelease(client.slug, client.version) :
                Keep([pc |-> "signature", expected |-> e.digest, publisher |-> e.keyID])
    /\ UNCHANGED <<verifier, dir, installs>>

FetchSignature ==
    /\ client.pc = "signature"
    /\ IF GetRelease(client.slug, client.version) = {} THEN EndWith("not_found")
       ELSE \E e \in GetRelease(client.slug, client.version) :
                Keep([pc |-> "key", signature |-> e.signature])
    /\ UNCHANGED <<verifier, dir, installs>>

FetchKey ==
    /\ client.pc = "key"
    /\ Keep([pc |-> "tarball",
             key |-> <<client.publisher, publishers[client.publisher].key>>])
    /\ UNCHANGED <<verifier, dir, installs>>

\* handleDownloadTarball: the header names the row's digest, the body is what
\* the file holds; a torn one reads as an archive without members.
FetchTarball ==
    /\ client.pc = "tarball"
    /\ IF GetRelease(client.slug, client.version) = {} THEN EndWith("not_found")
       ELSE \E e \in GetRelease(client.slug, client.version) :
                IF blobs[e.digest] = "none" THEN EndWith("blob_unavailable")
                ELSE Keep([pc |-> "verify", declared |-> e.digest,
                           whole |-> blobs[e.digest] = "whole",
                           body |-> IF blobs[e.digest] = "whole" THEN e.digest.members ELSE <<>>])
    /\ UNCHANGED <<verifier, dir, installs>>

RequestFails ==
    /\ client.pc \in {"package", "release", "signature", "key", "tarball"}
    /\ EndWith("http_error")
    /\ UNCHANGED <<verifier, dir, installs>>

-----------------------------------------------------------------------------
(***************************************************************************)
(* The checks and the directory.                                           *)
(***************************************************************************)
\* verifySignature: the cosign verifier is a stub that accepts.
VerifySignature ==
    CASE verifier \in {"always-accept", "cosign"} -> TRUE
      [] verifier = "inprocess" -> /\ client.whole
                                   /\ Verifies(client.signature, client.declared, client.key)
      [] OTHER -> FALSE

\* Mutant: the digest is not computed from the bytes received.
InstallError_Trusting ==
    CASE client.declared # client.expected -> "integrity_mismatch"
      [] ~VerifySignature -> "invalid_signature"
      [] dir[client.slug].exists /\ ~client.force -> "already_installed"
      [] OTHER -> "none"
InstallError ==
    CASE ~client.whole \/ client.declared # client.expected -> "integrity_mismatch"
      [] ~VerifySignature -> "invalid_signature"
      [] dir[client.slug].exists /\ ~client.force -> "already_installed"
      [] OTHER -> "none"

Verify ==
    /\ client.pc = "verify"
    /\ IF InstallError # "none" THEN EndWith(InstallError)
       ELSE Keep([pc |-> IF dir[client.slug].exists THEN "remove" ELSE "mkdir"])
    /\ UNCHANGED <<verifier, dir, installs>>

\* RemoveAll, an entry at a time, the receipt among them; before an install,
\* or, at "undo", after an extraction that failed.
RemoveEntry ==
    /\ client.pc \in {"remove", "undo"}
    /\ \/ \E f \in dir[client.slug].files :
             dir' = [dir EXCEPT ![client.slug].files = @ \ {f}]
       \/ dir[client.slug].receipt # NoReceipt
          /\ dir' = [dir EXCEPT ![client.slug].receipt = NoReceipt]
    /\ UNCHANGED <<verifier, client, installs>>

Removed ==
    /\ client.pc \in {"remove", "undo"}
    /\ dir[client.slug].files = {} /\ dir[client.slug].receipt = NoReceipt
    /\ dir' = [dir EXCEPT ![client.slug] = NoDir]
    /\ IF client.pc = "remove" THEN Keep([pc |-> "mkdir"]) ELSE EndWith("invalid_tarball")
    /\ UNCHANGED <<verifier, installs>>

\* The error of RemoveAll is not looked at: what it left stays, and an install
\* goes on over it.
RemoveFails ==
    /\ client.pc \in {"remove", "undo"}
    /\ dir' = [dir EXCEPT ![client.slug].unremoved = TRUE]
    /\ IF client.pc = "remove" THEN Keep([pc |-> "mkdir"]) ELSE EndWith("invalid_tarball")
    /\ UNCHANGED <<verifier, installs>>

Mkdir ==
    /\ client.pc = "mkdir"
    /\ dir' = [dir EXCEPT ![client.slug].exists = TRUE]
    /\ Keep([pc |-> "extract", next |-> 1])
    /\ UNCHANGED <<verifier, installs>>

\* safeExtractTarball, a member at a time; links are skipped, and a member that
\* cannot be written, or has an unsafe path, undoes the install.
Extract ==
    LET m == client.body[client.next] IN
    /\ client.pc = "extract" /\ client.next <= Len(client.body)
    /\ IF m.form \in {"absolute", "parent"} THEN Keep([pc |-> "undo"]) /\ UNCHANGED dir
       ELSE /\ Keep([next |-> client.next + 1])
            /\ dir' = IF m.type = "file"
                      THEN [dir EXCEPT ![client.slug].files =
                              {f \in @ : f[1] # m.path} \union {<<m.path, client.declared>>}]
                      ELSE dir
    /\ UNCHANGED <<verifier, installs>>

ExtractFails ==
    /\ client.pc = "extract" /\ client.next <= Len(client.body)
    /\ Keep([pc |-> "undo"])
    /\ UNCHANGED <<verifier, dir, installs>>

WriteReceipt ==
    /\ client.pc = "extract" /\ client.next > Len(client.body)
    /\ dir' = [dir EXCEPT ![client.slug].receipt =
         [version |-> client.version, publisher |-> client.publisher, digest |-> client.declared]]
    /\ client' = [pc |-> "ended", answer |-> "installed", slug |-> client.slug]
    /\ UNCHANGED <<verifier, installs>>

Killed ==
    /\ client.pc # "ended"
    /\ EndWith("killed")
    /\ UNCHANGED <<verifier, dir, installs>>

\* checkOne.
CheckOne(s) ==
    /\ client.pc = "ended" /\ installs < MaxInstalls
    /\ installs' = installs + 1
    /\ client' = Ended(CASE dir[s].receipt = NoReceipt  -> "not installed"
                         [] packages[s].releases = {}   -> "lookup failed"
                         [] LatestRelease(s).version = dir[s].receipt.version -> "up to date"
                         [] OTHER -> "outdated")
    /\ UNCHANGED <<verifier, dir>>

InstallStep ==
    \/ \E s \in Slugs, v \in {"latest"} \union {t.manifest.version : t \in Tarballs},
          force \in BOOLEAN : StartInstall(s, v, force)
    \/ GetPackage \/ FetchRelease \/ FetchSignature \/ FetchKey \/ FetchTarball \/ RequestFails
    \/ Verify \/ RemoveEntry \/ Removed \/ RemoveFails \/ Mkdir \/ Extract \/ ExtractFails \/ WriteReceipt
    \/ Killed \/ \E s \in Slugs : CheckOne(s)

SkillInit == RegistryInit /\ InstallInit
SkillNext ==
    \/ RegistryNext /\ UNCHANGED installVars
    \/ InstallStep /\ UNCHANGED registryVars
SkillSpec == SkillInit /\ [][SkillNext]_skillVars

-----------------------------------------------------------------------------
(***************************************************************************)
(* Properties.                                                             *)
(***************************************************************************)
\* A receipt names a tarball made for that slug and version.  When an install
\* reports success, all files of the tarball are there; and unless an earlier
\* content of the directory could not be removed, nothing else ever stands
\* beside a receipt.  Torn blobs, key changes, a catalogue replaced half way,
\* updates over another version, failed extractions and kills do not change
\* that (installSkill, safeExtractTarball).
InstalledIsSigned ==
    \A s \in Slugs :
        LET r == dir[s].receipt IN
        r # NoReceipt =>
            /\ r.digest.manifest.name = s /\ r.digest.manifest.version = r.version
            /\ dir[s].unremoved \/ dir[s].files \subseteq FilesOf(r.digest)
            /\ client.pc = "ended" /\ client.answer = "installed" /\ client.slug = s
                  => FilesOf(r.digest) \subseteq dir[s].files
================================================================================
