----------------------------- MODULE SkillRegistry -----------------------------
(***************************************************************************)
(* The skill registry server (internal/registry): publishing a signed      *)
(* tarball as a blob and then a metadata row, the publishers' keys and     *)
(* tokens, and the catalogue.  Requests run concurrently; the in-memory    *)
(* stores hold a lock per call, Postgres runs InsertRelease as one         *)
(* transaction, and the filesystem blob store writes a ".part" file named  *)
(* by the digest and renames it.                                           *)
(*                                                                         *)
(* A tarball stands for its digest and a key for its PEM text: the n-th    *)
(* key and the n-th token of publisher h are <<h, n>>.                     *)
(***************************************************************************)
EXTENDS Integers, Sequences, FiniteSets

CONSTANTS
    Handles,        \* publishers
    Slugs,          \* names of packages
    Tarballs,       \* [manifest : [parses, name, version, description,
                    \*               listed, tags],
                    \*  members : sequences of [path, form, type, depth]]
    Submissions,    \* [slug, token, tarball, signature : [key, over], formed]
    Requests,       \* publish requests in flight
    Stores,         \* pairs <<metadata, blobs>>
    MaxPublishes, MaxRotations, MaxRestarts

ASSUME RegistryAssumption ==
    /\ Stores \subseteq {"memory", "postgres"} \X {"memory", "filesystem"}
    /\ {MaxPublishes, MaxRotations, MaxRestarts} \subseteq Nat
    /\ "none" \notin Handles
    /\ \A s \in Submissions :
         s.slug \in Slugs /\ s.tarball \in Tarballs /\ s.token[1] \in Handles
    /\ \A t \in Tarballs : Len(t.members) \in Nat /\ DOMAIN t.members = 1..Len(t.members)

VARIABLES
    store,          \* the pair of stores the server was configured with
    publishers,     \* handle -> [key, token], a token of 0 being none
    packages,       \* slug -> [owner, about, tags, releases]
    blobs, parts,   \* tarball -> "none", "torn" while it is written, "cut" when
                    \* that was broken off, "whole": the file and its .part
    job,            \* request -> what its handler holds
    clock,          \* the source of the releases' creation times
    published, rotations, restarts      \* bounded by their constants
registryVars == <<store, publishers, packages, blobs, parts, job, clock,
                  published, rotations, restarts>>
files   == <<blobs, parts>>
serverVars == <<store, publishers, rotations, restarts>>

NoPackage  == [owner |-> "none", about |-> "none", tags |-> {}, releases |-> {}]
NoBlobs    == [t \in Tarballs |-> "none"]
Idle       == [pc |-> "idle"]
InMemory   == store[1] = "memory"

RegistryInit ==
    /\ store \in Stores
    /\ publishers = [h \in Handles |-> [key |-> 1, token |-> 1]]
    /\ packages = [s \in Slugs |-> NoPackage]
    /\ blobs = NoBlobs /\ parts = NoBlobs
    /\ job = [r \in Requests |-> Idle]
    /\ clock = 0 /\ published = 0 /\ rotations = 0 /\ restarts = 0

Goto(r, pc)    == job' = [job EXCEPT ![r].pc = pc]
Answer(r, a)   == job' = [job EXCEPT ![r] = [pc |-> "answered", answer |-> a]]

-----------------------------------------------------------------------------
(***************************************************************************)
(* The checks of a publish that read nothing but the request.              *)
(***************************************************************************)
\* extractSkillMD refuses an unsafe path of any member, and a SKILL.md below
\* the first level.
Unsafe(m) == m.form # "plain"
Misplaced(m) == m.type = "file" /\ m.path = "SKILL.md" /\ m.depth > 1
ExtractSkillMD(t) ==
    /\ \A i \in DOMAIN t.members : ~Unsafe(t.members[i]) /\ ~Misplaced(t.members[i])
    /\ \E i \in DOMAIN t.members : t.members[i].type = "file"
                                   /\ t.members[i].path = "SKILL.md"

Verifies(signature, t, key) == signature.key = key /\ signature.over = t

PublishError(s, key) ==
    CASE ~ExtractSkillMD(s.tarball)              -> "invalid_tarball"
      [] ~s.tarball.manifest.parses              -> "invalid_manifest"
      [] s.tarball.manifest.name # s.slug        -> "slug_mismatch"
      [] ~Verifies(s.signature, s.tarball, key)  -> "invalid_signature"
      [] OTHER                                   -> "none"

-----------------------------------------------------------------------------
(***************************************************************************)
(* POST /skills/{slug}/versions.                                           *)
(***************************************************************************)
\* RequirePublisher: the row, with its key, is read once, by the token.
RequirePublisher(r, s) ==
    /\ job[r].pc \in {"idle", "answered"} /\ published < MaxPublishes
    /\ published' = published + 1
    /\ IF publishers[s.token[1]].token = s.token[2] /\ s.token[2] # 0
       THEN job' = [job EXCEPT ![r] = [pc |-> "checks", sub |-> s, by |-> s.token[1],
                                       key |-> <<s.token[1], publishers[s.token[1]].key>>,
                                       at |-> 0, file |-> "none"]]
       ELSE Answer(r, "unauthenticated")
    /\ UNCHANGED <<serverVars, packages, files, clock>>

ReadPublishMultipart(s) == s.formed

\* readPublishMultipart and the first half of PublishRelease.
Check(r) ==
    /\ job[r].pc = "checks"
    /\ IF ~ReadPublishMultipart(job[r].sub) THEN Answer(r, "invalid_request")
       ELSE LET e == PublishError(job[r].sub, job[r].key)
            IN  IF e # "none" THEN Answer(r, e) ELSE Goto(r, "stat")
    /\ UNCHANGED <<serverVars, packages, files, clock, published>>

\* FilesystemBlobStore.Put: stat, open the .part file, write, rename.  Writers
\* of one tarball share the .part file; a rename carries the file away from
\* under a writer that has it open, who then writes to the blob itself.
Stat(r) ==
    LET t == job[r].sub.tarball IN
    /\ job[r].pc = "stat"
    /\ CASE blobs[t] # "none"       -> Goto(r, "begin") /\ UNCHANGED blobs
         [] store[2] = "memory"     -> /\ blobs' = [blobs EXCEPT ![t] = "whole"]
                                       /\ Goto(r, "begin")
         [] OTHER                   -> Goto(r, "open") /\ UNCHANGED blobs
    /\ UNCHANGED <<serverVars, packages, parts, clock, published>>

\* Opening truncates.
Open(r) ==
    LET t == job[r].sub.tarball IN
    /\ job[r].pc = "open"
    /\ parts' = [parts EXCEPT ![t] = "torn"]
    /\ job' = [job EXCEPT ![r].pc = "write", ![r].file = "part"]
    /\ UNCHANGED <<serverVars, packages, blobs, clock, published>>

\* Mutant: the bytes are written to the .part file of that name, which another
\* writer may have moved since it was opened.
Write_ByName(r) ==
    /\ job[r].pc = "write"
    /\ parts' = [parts EXCEPT ![job[r].sub.tarball] = "whole"]
    /\ Goto(r, "rename")
    /\ UNCHANGED <<serverVars, packages, blobs, clock, published>>
Write(r) ==
    LET t == job[r].sub.tarball IN
    /\ job[r].pc = "write"
    /\ parts' = IF job[r].file = "part" THEN [parts EXCEPT ![t] = "whole"] ELSE parts
    /\ blobs' = IF job[r].file = "blob" THEN [blobs EXCEPT ![t] = "whole"] ELSE blobs
    /\ Goto(r, "rename")
    /\ UNCHANGED <<serverVars, packages, clock, published>>

\* Request q has yet to write to the blob, or to the .part file, of t.
Writes(q, t, file) == job[q].pc = "write" /\ job[q].sub.tarball = t /\ job[q].file = file

\* A torn file stays as it is when the last of its writers fails.
Broken(now, file, r) ==
    LET t == job[r].sub.tarball IN
    IF /\ job[r].file = file /\ now[t] = "torn"
       /\ \A q \in Requests \ {r} : ~Writes(q, t, file)
    THEN [now EXCEPT ![t] = "cut"] ELSE now

\* Mutant: the error of Put is not looked at.
WriteFails_Ignored(r) ==
    /\ job[r].pc = "write" /\ Goto(r, "begin")
    /\ blobs' = Broken(blobs, "blob", r) /\ parts' = Broken(parts, "part", r)
    /\ UNCHANGED <<serverVars, packages, clock, published>>
WriteFails(r) ==
    /\ job[r].pc = "write" /\ Answer(r, "invalid_tarball")
    /\ blobs' = Broken(blobs, "blob", r) /\ parts' = Broken(parts, "part", r)
    /\ UNCHANGED <<serverVars, packages, clock, published>>

\* What writers of t hold open once the .part file has been moved over the blob,
\* or removed.
Replaced == [part |-> "blob", blob |-> "gone", gone |-> "gone"]
Unlinked == [part |-> "gone", blob |-> "blob", gone |-> "gone"]
Moved(t, to) ==
    [q \in Requests |->
       IF job[q].pc \in {"write", "rename"} /\ job[q].sub.tarball = t
       THEN [job[q] EXCEPT !.file = to[@]]
       ELSE job[q]]

Rename(r) ==
    LET t == job[r].sub.tarball IN
    /\ job[r].pc = "rename"
    /\ IF parts[t] = "none"
       THEN Goto(r, "remove") /\ UNCHANGED files
       ELSE /\ blobs' = [blobs EXCEPT ![t] = parts[t]]
            /\ parts' = [parts EXCEPT ![t] = "none"]
            /\ job' = [Moved(t, Replaced) EXCEPT ![r].pc = "begin"]
    /\ UNCHANGED <<serverVars, packages, clock, published>>

\* What a failed rename leaves is removed, by now perhaps another's.
RemovePart(r) ==
    LET t == job[r].sub.tarball IN
    /\ job[r].pc = "remove"
    /\ parts' = [parts EXCEPT ![t] = "none"]
    /\ job' = [Moved(t, Unlinked) EXCEPT ![r] = [pc |-> "answered", answer |-> "invalid_tarball"]]
    /\ UNCHANGED <<serverVars, packages, blobs, clock, published>>

\* The release's creation time is taken before the lock, or when the
\* transaction begins.
Begin(r) ==
    /\ job[r].pc = "begin"
    /\ clock' = clock + 1
    /\ job' = [job EXCEPT ![r].pc = "insert", ![r].at = clock']
    /\ UNCHANGED <<serverVars, packages, files, published>>

Release(j) == [version |-> j.sub.tarball.manifest.version, digest |-> j.sub.tarball,
               signature |-> j.sub.signature, keyID |-> j.by, at |-> j.at]

\* What is not empty of a later release's description and tags replaces the
\* package's.
Described(p, m) == [p EXCEPT !.about = IF m.description = "none" THEN @ ELSE m.description,
                             !.tags  = IF m.tags = {} THEN @ ELSE m.tags]

Inserted(p, j) == [Described(p, j.sub.tarball.manifest) EXCEPT
                     !.owner = j.by, !.releases = @ \union {Release(j)}]

\* A manifest that lists no tools gives NULL tags, which the column of Postgres
\* does not take, whoever owns the package.
Refused(j) == ~InMemory /\ ~j.sub.tarball.manifest.listed

\* Mutant: a version that exists is replaced.
InsertRelease_Replaces(r) ==
    LET j == job[r]
        p == packages[j.sub.slug]
        same == {e \in p.releases : e.version = Release(j).version}
    IN
    /\ j.pc = "insert"
    /\ IF Refused(j) THEN Answer(r, "invalid_tarball") /\ UNCHANGED packages
       ELSE IF p.owner \notin {"none", j.by} THEN Answer(r, "forbidden") /\ UNCHANGED packages
       ELSE /\ packages' = [packages EXCEPT ![j.sub.slug] =
                 Inserted([p EXCEPT !.releases = @ \ same], j)]
            /\ Answer(r, "created")
    /\ UNCHANGED <<serverVars, files, clock, published>>
\* Mutant: the package's owner is not compared.
InsertRelease_AnyOwner(r) ==
    LET j == job[r]
        p == packages[j.sub.slug]
    IN
    /\ j.pc = "insert"
    /\ IF Refused(j) THEN Answer(r, "invalid_tarball") /\ UNCHANGED packages
       ELSE IF \E e \in p.releases : e.version = Release(j).version
       THEN Answer(r, "conflict") /\ UNCHANGED packages
       ELSE /\ packages' = [packages EXCEPT ![j.sub.slug] =
                 [Inserted(p, j) EXCEPT !.owner = IF p.owner = "none" THEN @ ELSE p.owner]]
            /\ Answer(r, "created")
    /\ UNCHANGED <<serverVars, files, clock, published>>
\* Postgres does not say "already exists" of a version it has.
InsertRelease(r) ==
    LET j == job[r]
        p == packages[j.sub.slug]
    IN
    /\ j.pc = "insert"
    /\ CASE Refused(j) ->
              Answer(r, "invalid_tarball") /\ UNCHANGED packages
         [] p.owner \notin {"none", j.by} ->
              Answer(r, "forbidden") /\ UNCHANGED packages
         [] \E e \in p.releases : e.version = Release(j).version ->
              /\ Answer(r, IF InMemory THEN "conflict" ELSE "invalid_tarball")
              /\ UNCHANGED packages
         [] OTHER ->
              /\ packages' = [packages EXCEPT ![j.sub.slug] = Inserted(p, j)]
              /\ Answer(r, "created")
    /\ UNCHANGED <<serverVars, files, clock, published>>

PublishStep(r) ==
    \/ \E s \in Submissions : RequirePublisher(r, s)
    \/ Check(r) \/ Stat(r) \/ Open(r) \/ Write(r) \/ WriteFails(r) \/ Rename(r)
    \/ RemovePart(r) \/ Begin(r) \/ InsertRelease(r)

-----------------------------------------------------------------------------
(***************************************************************************)
(* Publishers, and the life of the server process.                         *)
(***************************************************************************)
\* UpsertPublisher gives a publisher its next key, and a next token or none:
\* without one Postgres keeps the token it has, the in-memory store drops it.
UpsertPublisher(h, withToken) ==
    /\ rotations < MaxRotations
    /\ rotations' = rotations + 1
    /\ publishers' = [publishers EXCEPT ![h] =
         [key   |-> @.key + 1,
          token |-> CASE withToken -> @.key + 1
                      [] InMemory  -> 0
                      [] OTHER     -> @.token]]
    /\ UNCHANGED <<store, packages, files, job, clock, published, restarts>>

\* What is in memory goes; files stay, as far as they were written.  The
\* publishers of an in-memory server are seeded again.
CutShort(now) == [t \in Tarballs |-> IF now[t] = "torn" THEN "cut" ELSE now[t]]
Restart ==
    /\ restarts < MaxRestarts
    /\ restarts' = restarts + 1
    /\ job' = [r \in Requests |-> Idle]
    /\ packages' = IF InMemory THEN [s \in Slugs |-> NoPackage] ELSE packages
    /\ blobs' = IF store[2] = "memory" THEN NoBlobs ELSE CutShort(blobs)
    /\ parts' = CutShort(parts)
    /\ UNCHANGED <<store, publishers, clock, published, rotations>>

RegistryNext ==
    \/ \E r \in Requests : PublishStep(r)
    \/ \E h \in Handles, b \in BOOLEAN : UpsertPublisher(h, b)
    \/ Restart
RegistrySpec == RegistryInit /\ [][RegistryNext]_registryVars

-----------------------------------------------------------------------------
(***************************************************************************)
(* What the catalogue answers.                                             *)
(***************************************************************************)
\* Releases are listed by creation time; the last one is the latest.
LatestRelease(s) ==
    CHOOSE e \in packages[s].releases : \A f \in packages[s].releases : f.at <= e.at
GetRelease(s, v) == {e \in packages[s].releases : e.version = v}

-----------------------------------------------------------------------------
(***************************************************************************)
(* Properties.                                                             *)
(***************************************************************************)
\* Every release of the catalogue has a file to download, whatever publishes
\* of the same tarball, failed writes and restarts came before its row
\* (PublishRelease, FilesystemBlobStore.Put).  With rows that outlive their
\* blobs (Postgres over blobs in memory) it is not so.
ReleaseHasBlob ==
    store # <<"postgres", "memory">> =>
        \A s \in Slugs : \A e \in packages[s].releases : blobs[e.digest] # "none"

\* A blob is short of its tarball only while a publish is still writing to it,
\* unless a write to it was broken off by an error or a restart: whatever the
\* order in which writers of one tarball truncate, write, move and remove the
\* .part file they share, the last of them to hold a file that was moved in
\* makes it whole (FilesystemBlobStore.Put).
TornBlobsMend ==
    \A t \in Tarballs :
        blobs[t] = "torn" => \E r \in Requests : Writes(r, t, "blob")

\* A release is under its manifest's slug and version, signed with a key of
\* the package's one owner, and the only one of its version, also when a
\* publisher's key or token changed while the publish ran (handlePublishVersion,
\* PublishRelease, InsertRelease).
ReleaseIsGenuine ==
    \A s \in Slugs : \A e \in packages[s].releases :
        /\ e.digest.manifest.name = s /\ e.digest.manifest.version = e.version
        /\ e.signature.over = e.digest
        /\ e.keyID = packages[s].owner /\ e.signature.key[1] = packages[s].owner
        /\ \A f \in packages[s].releases : f.version = e.version => f = e

\* A release, once published, is never replaced or withdrawn, and a package
\* never changes its owner, save that an in-memory catalogue is lost as a
\* whole (InsertRelease).
KeepsReleases ==
    \/ InMemory /\ restarts' # restarts
    \/ \A s \in Slugs : /\ packages[s].releases \subseteq packages'[s].releases
                        /\ packages[s].owner \in {"none", packages'[s].owner}
ReleasesKept == [][KeepsReleases]_registryVars
================================================================================
