-------------------------- MODULE SkillRegistryProofs -------------------------
(***************************************************************************)
(* Proofs about SkillRegistry and SkillInstall, for any publishers,        *)
(* packages, submissions, concurrent publishes, stores, restarts, installs *)
(* and kills: every release has its blob, carries the signature of its     *)
(* package's owner, and is kept; a torn blob has a writer that mends it;   *)
(* and a receipt stands beside the files of the tarball it names.          *)
(***************************************************************************)
EXTENDS SkillInstall, TLAPS

\* The record r has the fields fs, and r[f] for each of them.
Shaped(r, fs) == r = [f \in fs |-> r[f]]
JobFields == {"pc", "sub", "by", "key", "at", "file"}
Busy(r)   == job[r].pc \notin {"idle", "answered"}

RegistryTypeOK ==
    /\ job = [r \in Requests |-> job[r]]
    /\ packages = [s \in Slugs |-> packages[s]]
    /\ \A s \in Slugs : Shaped(packages[s], {"owner", "about", "tags", "releases"})
    /\ blobs = [t \in Tarballs |-> blobs[t]] /\ parts = [t \in Tarballs |-> parts[t]]
    /\ restarts \in Nat /\ store \in Stores

\* What a handler holds: the submission, the publisher its token named and the
\* publisher's key of that moment; after its checks, a sound submission; after
\* the blob store, a blob.
Holds(r) ==
    Busy(r) =>
       /\ Shaped(job[r], JobFields)
       /\ job[r].sub.slug \in Slugs /\ job[r].sub.tarball \in Tarballs
       /\ job[r].by \in Handles /\ job[r].key[1] = job[r].by
       /\ job[r].pc # "checks" => PublishError(job[r].sub, job[r].key) = "none"
       /\ job[r].pc \in {"begin", "insert"} => blobs[job[r].sub.tarball] # "none"

\* A package without an owner has no releases, and a release names a tarball.
Catalogue == \A s \in Slugs :
    /\ packages[s].owner = "none" => packages[s].releases = {}
    /\ \A e \in packages[s].releases : e.digest \in Tarballs

RegistryInv == /\ RegistryTypeOK /\ (\A r \in Requests : Holds(r))
               /\ Catalogue /\ ReleaseHasBlob /\ ReleaseIsGenuine

\* An empty catalogue (main of cmd/registry).
LEMMA RegistryInitial == RegistryInit => RegistryInv
<1> SUFFICES ASSUME RegistryInit PROVE RegistryInv
  OBVIOUS
<1>1. RegistryTypeOK
  BY DEF RegistryInit, RegistryTypeOK, NoPackage, NoBlobs, Shaped
<1>2. \A r \in Requests : Holds(r)
  BY DEF RegistryInit, Holds, Busy, Idle
<1>3. Catalogue /\ ReleaseHasBlob /\ ReleaseIsGenuine
  BY DEF RegistryInit, Catalogue, ReleaseHasBlob, ReleaseIsGenuine, NoPackage
<1> QED
  BY <1>1, <1>2, <1>3 DEF RegistryInv

-----------------------------------------------------------------------------
(***************************************************************************)
(* The steps of a publish before its row.                                  *)
(***************************************************************************)
\* No blob is taken away, and no other handler is disturbed but for its file.
BlobsStay == /\ blobs' = [t \in Tarballs |-> blobs'[t]] /\ parts' = [t \in Tarballs |-> parts'[t]]
             /\ \A t \in Tarballs : blobs[t] # "none" => blobs'[t] # "none"
Alone(r) == /\ job' = [q \in Requests |-> job'[q]]
            /\ \A q \in Requests : q # r =>
                 /\ job'[q].pc = job[q].pc
                 /\ Busy(q) => /\ Shaped(job'[q], JobFields)
                               /\ \A f \in {"sub", "by", "key"} : job'[q][f] = job[q][f]

\* What the other handlers hold stays true when one of them moves.
LEMMA HoldsKept ==
    ASSUME RegistryInv, NEW r \in Requests, BlobsStay, Alone(r), Holds(r)'
    PROVE  \A q \in Requests : Holds(q)'
<1>1. SUFFICES ASSUME NEW q \in Requests, q # r PROVE Holds(q)'
  OBVIOUS
<1>2. Holds(q)
  BY DEF RegistryInv
<1>3. CASE Busy(q)
  <2>1. /\ job'[q].pc = job[q].pc /\ job'[q].sub = job[q].sub /\ job'[q].by = job[q].by
        /\ job'[q].key = job[q].key /\ Shaped(job'[q], JobFields)
    BY <1>1, <1>3 DEF Alone
  <2> QED
    BY <1>2, <1>3, <2>1 DEF Holds, Busy, BlobsStay
<1>4. CASE ~Busy(q)
  BY <1>1, <1>4 DEF Alone, Holds, Busy
<1> QED
  BY <1>3, <1>4

\* A step of one handler that touches no row keeps the invariant.
LEMMA StepKeeps ==
    ASSUME RegistryInv, NEW r \in Requests, BlobsStay, Alone(r), Holds(r)',
           UNCHANGED <<store, packages, restarts>>
    PROVE  RegistryInv'
<1>1. RegistryTypeOK'
  BY DEF RegistryInv, RegistryTypeOK, BlobsStay, Alone
<1>2. \A q \in Requests : Holds(q)'
  BY HoldsKept
<1>3. Catalogue' /\ ReleaseIsGenuine'
  BY DEF RegistryInv, Catalogue, ReleaseIsGenuine
<1>4. ReleaseHasBlob'
  BY DEF RegistryInv, Catalogue, ReleaseHasBlob, BlobsStay
<1> QED
  BY <1>1, <1>2, <1>3, <1>4 DEF RegistryInv

\* One handler's record is replaced, by an answer or by another of its shape.
LEMMA AloneSet ==
    ASSUME RegistryInv, NEW r \in Requests, NEW x, job' = [job EXCEPT ![r] = x]
    PROVE  Alone(r) /\ job'[r] = x
  BY DEF RegistryInv, RegistryTypeOK, Alone, Holds

\* A request that is refused leaves nothing behind but its blob.
LEMMA AnswerKeeps ==
    ASSUME RegistryInv, NEW r \in Requests, NEW a, Answer(r, a), BlobsStay,
           UNCHANGED <<store, packages, restarts>>
    PROVE  RegistryInv'
<1>1. Alone(r) /\ job'[r] = [pc |-> "answered", answer |-> a]
  BY AloneSet DEF Answer
<1>2. Holds(r)'
  BY <1>1 DEF Holds, Busy
<1> QED
  BY <1>1, <1>2, StepKeeps

\* A handler goes on to its next step with what it holds.
LEMMA GotoKeeps ==
    ASSUME RegistryInv, NEW r \in Requests, NEW pc, Busy(r), Goto(r, pc), BlobsStay,
           pc # "checks" => PublishError(job[r].sub, job[r].key) = "none",
           pc \in {"begin", "insert"} => blobs'[job[r].sub.tarball] # "none",
           UNCHANGED <<store, packages, restarts>>
    PROVE  RegistryInv'
<1> DEFINE x == [job[r] EXCEPT !.pc = pc]
<1>1. Holds(r) /\ Shaped(job[r], JobFields)
  BY DEF RegistryInv, Holds
<1>2. /\ Shaped(x, JobFields) /\ x.pc = pc /\ x.sub = job[r].sub /\ x.by = job[r].by
      /\ x.key = job[r].key
  BY <1>1 DEF Shaped, JobFields
<1>3. job' = [job EXCEPT ![r] = x]
  BY DEF Goto
<1> HIDE DEF x
<1>4. Alone(r) /\ job'[r] = x
  BY <1>3, AloneSet
<1>5. Holds(r)'
  BY <1>1, <1>2, <1>4 DEF Holds, Busy
<1> QED
  BY <1>4, <1>5, StepKeeps

\* A step that writes no file leaves every blob where it is.
LEMMA NoBlobTouched == ASSUME RegistryInv, UNCHANGED files PROVE BlobsStay
  BY DEF RegistryInv, RegistryTypeOK, BlobsStay, files

\* The publisher's row and key are read together (RequirePublisher).
LEMMA RequireKeeps ==
    ASSUME RegistryInv, NEW r \in Requests, NEW s \in Submissions, RequirePublisher(r, s)
    PROVE  RegistryInv'
<1>1. UNCHANGED <<store, packages, restarts>> /\ BlobsStay
  BY NoBlobTouched DEF RequirePublisher, serverVars
<1>2. CASE Answer(r, "unauthenticated")
  BY <1>1, <1>2, AnswerKeeps
<1>3. CASE ~Answer(r, "unauthenticated")
  <2> DEFINE x == [pc |-> "checks", sub |-> s, by |-> s.token[1],
                   key |-> <<s.token[1], publishers[s.token[1]].key>>, at |-> 0, file |-> "none"]
  <2>1. job' = [job EXCEPT ![r] = x]
    BY <1>3 DEF RequirePublisher
  <2>2. /\ Shaped(x, JobFields) /\ x.pc = "checks" /\ x.sub = s /\ x.by = s.token[1]
        /\ x.key[1] = s.token[1]
    BY DEF Shaped, JobFields
  <2> HIDE DEF x
  <2>3. Alone(r) /\ job'[r] = x
    BY <2>1, AloneSet
  <2>4. Holds(r)'
    BY <2>2, <2>3, RegistryAssumption DEF Holds, Busy
  <2> QED
    BY <1>1, <2>3, <2>4, StepKeeps
<1> QED
  BY <1>2, <1>3

\* PublishRelease up to the blob store.
LEMMA CheckKeeps ==
    ASSUME RegistryInv, NEW r \in Requests, Check(r)
    PROVE  RegistryInv'
<1>1. UNCHANGED <<store, packages, restarts>> /\ BlobsStay /\ Busy(r)
  BY NoBlobTouched DEF Check, serverVars, Busy
<1>2. CASE \E a : Answer(r, a)
  BY <1>1, <1>2, AnswerKeeps
<1>3. CASE PublishError(job[r].sub, job[r].key) = "none" /\ Goto(r, "stat")
  BY <1>1, <1>3, GotoKeeps
<1> QED
  BY <1>2, <1>3 DEF Check

\* One tarball's file and .part file are replaced.
LEMMA FilesSet ==
    ASSUME RegistryInv, NEW t \in Tarballs, NEW b, NEW c,
           blobs' = [blobs EXCEPT ![t] = b], parts' = [parts EXCEPT ![t] = c],
           blobs[t] # "none" => b # "none"
    PROVE  BlobsStay /\ blobs'[t] = b
  BY DEF RegistryInv, RegistryTypeOK, BlobsStay

\* The blob store: a handler goes on to its row only with a blob, which an
\* earlier publish, its own write or another writer's may have put there.
LEMMA StatKeeps ==
    ASSUME RegistryInv, NEW r \in Requests, Stat(r)
    PROVE  RegistryInv'
<1> DEFINE t == job[r].sub.tarball
<1>1. /\ UNCHANGED <<store, packages, restarts, parts>> /\ job[r].pc = "stat" /\ Busy(r)
      /\ t \in Tarballs /\ PublishError(job[r].sub, job[r].key) = "none"
  BY DEF Stat, serverVars, RegistryInv, Holds, Busy
<1>2. CASE blobs[t] # "none" /\ Goto(r, "begin") /\ UNCHANGED blobs
  BY <1>1, <1>2, NoBlobTouched, GotoKeeps DEF files
<1>3. CASE blobs' = [blobs EXCEPT ![t] = "whole"] /\ Goto(r, "begin")
  <2>1. parts' = [parts EXCEPT ![t] = parts[t]]
    BY <1>1 DEF RegistryInv, RegistryTypeOK
  <2>2. BlobsStay /\ blobs'[t] = "whole"
    BY <1>1, <1>3, <2>1, FilesSet
  <2> QED
    BY <1>1, <1>3, <2>2, GotoKeeps
<1>4. CASE Goto(r, "open") /\ UNCHANGED blobs
  BY <1>1, <1>4, NoBlobTouched, GotoKeeps DEF files
<1> QED
  BY <1>2, <1>3, <1>4 DEF Stat

\* Opening the .part file truncates what another writer put there.
LEMMA OpenKeeps ==
    ASSUME RegistryInv, NEW r \in Requests, Open(r)
    PROVE  RegistryInv'
<1> DEFINE t == job[r].sub.tarball
           x == [job[r] EXCEPT !.pc = "write", !.file = "part"]
<1>1. /\ UNCHANGED <<store, packages, restarts, blobs>> /\ job[r].pc = "open" /\ Busy(r)
      /\ Holds(r) /\ Shaped(job[r], JobFields) /\ t \in Tarballs
  BY DEF Open, serverVars, RegistryInv, Holds, Busy
<1>2. /\ Shaped(x, JobFields) /\ x.pc = "write" /\ x.sub = job[r].sub /\ x.by = job[r].by
      /\ x.key = job[r].key
  BY <1>1 DEF Shaped, JobFields
<1>3. job' = [job EXCEPT ![r] = x]
  BY DEF Open
<1> HIDE DEF x
<1>4. Alone(r) /\ job'[r] = x
  BY <1>3, AloneSet
<1>5. Holds(r)'
  BY <1>1, <1>2, <1>4 DEF Holds, Busy
<1>6. BlobsStay
  <2>1. blobs' = [blobs EXCEPT ![t] = blobs[t]] /\ parts' = [parts EXCEPT ![t] = "torn"]
    BY <1>1 DEF Open, RegistryInv, RegistryTypeOK
  <2> QED
    BY <1>1, <2>1, FilesSet
<1> QED
  BY <1>1, <1>4, <1>5, <1>6, StepKeeps

\* A write that fails leaves its file, if cut short.
LEMMA FailedWrite ==
    ASSUME RegistryInv, NEW r \in Requests, WriteFails(r)
    PROVE  /\ \E b : /\ blobs' = [blobs EXCEPT ![job[r].sub.tarball] = b]
                     /\ b = blobs[job[r].sub.tarball] \/ b = "cut"
           /\ \E c : parts' = [parts EXCEPT ![job[r].sub.tarball] = c]
<1> DEFINE t == job[r].sub.tarball
<1>1. t \in Tarballs
  BY DEF WriteFails, RegistryInv, Holds, Busy
<1>2. blobs = [blobs EXCEPT ![t] = blobs[t]] /\ parts = [parts EXCEPT ![t] = parts[t]]
  BY <1>1 DEF RegistryInv, RegistryTypeOK
<1> HIDE DEF t
<1>3. /\ blobs' \in {blobs, [blobs EXCEPT ![t] = "cut"]}
      /\ parts' \in {parts, [parts EXCEPT ![t] = "cut"]}
  BY DEF WriteFails, Broken, t
<1>4. \E b : blobs' = [blobs EXCEPT ![t] = b] /\ (b = blobs[t] \/ b = "cut")
  BY <1>2, <1>3
<1>5. \E c : parts' = [parts EXCEPT ![t] = c]
  BY <1>2, <1>3
<1> QED
  BY <1>4, <1>5 DEF t

\* A writer whose file was renamed under it writes to the blob itself; a failed
\* write ends the publish.
LEMMA WriteKeeps ==
    ASSUME RegistryInv, NEW r \in Requests, Write(r) \/ WriteFails(r)
    PROVE  RegistryInv'
<1> DEFINE t == job[r].sub.tarball
<1>1. /\ UNCHANGED <<store, packages, restarts>> /\ job[r].pc = "write" /\ Busy(r)
      /\ t \in Tarballs /\ PublishError(job[r].sub, job[r].key) = "none"
  BY DEF Write, WriteFails, serverVars, RegistryInv, Holds, Busy
<1>2. CASE WriteFails(r)
  <2>1. PICK b : blobs' = [blobs EXCEPT ![t] = b] /\ (b = blobs[t] \/ b = "cut")
    BY <1>2, FailedWrite
  <2>2. PICK c : parts' = [parts EXCEPT ![t] = c]
    BY <1>2, FailedWrite
  <2>3. BlobsStay
    BY <1>1, <2>1, <2>2, FilesSet
  <2> QED
    BY <1>1, <1>2, <2>3, AnswerKeeps DEF WriteFails
<1>3. CASE Write(r)
  <2> DEFINE b == IF job[r].file = "blob" THEN "whole" ELSE blobs[t]
             c == IF job[r].file = "part" THEN "whole" ELSE parts[t]
  <2>1. blobs' = [blobs EXCEPT ![t] = b] /\ parts' = [parts EXCEPT ![t] = c]
    BY <1>1, <1>3 DEF Write, RegistryInv, RegistryTypeOK
  <2>2. blobs[t] # "none" => b # "none"
    OBVIOUS
  <2> HIDE DEF b, c
  <2>3. BlobsStay
    BY <1>1, <2>1, <2>2, FilesSet
  <2> QED
    BY <1>1, <1>3, <2>3, GotoKeeps DEF Write
<1> QED
  BY <1>2, <1>3

\* Moving the .part file changes what other writers hold open and nothing else.
LEMMA MovedAlone ==
    ASSUME RegistryInv, NEW r \in Requests, NEW t, NEW to, NEW x,
           job' = [Moved(t, to) EXCEPT ![r] = x]
    PROVE  Alone(r) /\ job'[r] = x
<1>1. /\ job' = [q \in Requests |-> job'[q]] /\ job'[r] = x
      /\ \A q \in Requests : q # r => job'[q] = Moved(t, to)[q]
  BY DEF Moved
<1>2. SUFFICES ASSUME NEW q \in Requests, q # r
               PROVE  /\ job'[q].pc = job[q].pc
                      /\ Busy(q) => /\ Shaped(job'[q], JobFields)
                                    /\ \A f \in {"sub", "by", "key"} : job'[q][f] = job[q][f]
  BY <1>1 DEF Alone
<1>3. Busy(q) => Shaped(job[q], JobFields)
  BY DEF RegistryInv, Holds
<1>4. CASE job'[q] = job[q]
  BY <1>3, <1>4
<1>5. CASE job'[q] # job[q]
  <2>1. Busy(q) /\ \E f : job'[q] = [job[q] EXCEPT !.file = f]
    BY <1>1, <1>2, <1>5 DEF Moved, Busy
  <2> QED
    BY <1>3, <2>1 DEF Shaped, JobFields
<1> QED
  BY <1>4, <1>5

\* The rename puts a blob there; the removal of a .part file takes none away.
LEMMA RenameKeeps ==
    ASSUME RegistryInv, NEW r \in Requests, Rename(r) \/ RemovePart(r)
    PROVE  RegistryInv'
<1> DEFINE t == job[r].sub.tarball
<1>1. /\ UNCHANGED <<store, packages, restarts>> /\ job[r].pc \in {"rename", "remove"} /\ Busy(r)
      /\ t \in Tarballs /\ PublishError(job[r].sub, job[r].key) = "none"
      /\ Holds(r) /\ Shaped(job[r], JobFields)
  BY DEF Rename, RemovePart, serverVars, RegistryInv, Holds, Busy
<1>2. CASE Goto(r, "remove") /\ UNCHANGED files
  BY <1>1, <1>2, NoBlobTouched, GotoKeeps
<1>3. CASE Rename(r) /\ parts[t] # "none"
  <2> DEFINE x == [Moved(t, Replaced)[r] EXCEPT !.pc = "begin"]
  <2>1. /\ blobs' = [blobs EXCEPT ![t] = parts[t]] /\ parts' = [parts EXCEPT ![t] = "none"]
        /\ job' = [Moved(t, Replaced) EXCEPT ![r] = x]
    BY <1>3 DEF Rename
  <2>2. /\ Shaped(x, JobFields) /\ x.pc = "begin" /\ x.sub = job[r].sub /\ x.by = job[r].by
        /\ x.key = job[r].key
    <3>1. Moved(t, Replaced)[r] = job[r]
          \/ \E f : Moved(t, Replaced)[r] = [job[r] EXCEPT !.file = f]
      BY DEF Moved
    <3> QED
      BY <1>1, <3>1 DEF Shaped, JobFields
  <2> HIDE DEF x
  <2>3. BlobsStay /\ blobs'[t] = parts[t]
    BY <1>1, <1>3, <2>1, FilesSet
  <2>4. Alone(r) /\ job'[r] = x
    BY <2>1, MovedAlone
  <2>5. Holds(r)'
    BY <1>1, <1>3, <2>2, <2>3, <2>4 DEF Holds, Busy
  <2> QED
    BY <1>1, <2>3, <2>4, <2>5, StepKeeps
<1>4. CASE RemovePart(r)
  <2>1. /\ blobs' = [blobs EXCEPT ![t] = blobs[t]] /\ parts' = [parts EXCEPT ![t] = "none"]
        /\ job' = [Moved(t, Unlinked) EXCEPT ![r] = [pc |-> "answered", answer |-> "invalid_tarball"]]
    BY <1>1, <1>4 DEF RemovePart, RegistryInv, RegistryTypeOK
  <2>2. BlobsStay
    BY <1>1, <2>1, FilesSet
  <2>3. Alone(r) /\ job'[r] = [pc |-> "answered", answer |-> "invalid_tarball"]
    BY <2>1, MovedAlone
  <2>4. Holds(r)'
    BY <2>3 DEF Holds, Busy
  <2> QED
    BY <1>1, <2>2, <2>3, <2>4, StepKeeps
<1> QED
  BY <1>2, <1>3, <1>4 DEF Rename

\* The creation time is the last of the request's own steps before the row.
LEMMA BeginKeeps ==
    ASSUME RegistryInv, NEW r \in Requests, Begin(r)
    PROVE  RegistryInv'
<1> DEFINE x == [job[r] EXCEPT !.pc = "insert", !.at = clock']
<1>1. /\ UNCHANGED <<store, packages, restarts>> /\ UNCHANGED blobs /\ job[r].pc = "begin"
      /\ Holds(r) /\ Shaped(job[r], JobFields) /\ BlobsStay
  BY NoBlobTouched DEF Begin, serverVars, files, RegistryInv, Holds, Busy
<1>2. /\ Shaped(x, JobFields) /\ x.pc = "insert" /\ x.sub = job[r].sub /\ x.by = job[r].by
      /\ x.key = job[r].key
  BY <1>1 DEF Shaped, JobFields
<1>3. job' = [job EXCEPT ![r] = x]
  BY DEF Begin
<1> HIDE DEF x
<1>4. Alone(r) /\ job'[r] = x
  BY <1>3, AloneSet
<1>5. Holds(r)'
  BY <1>1, <1>2, <1>4 DEF Holds, Busy
<1> QED
  BY <1>1, <1>4, <1>5, StepKeeps

-----------------------------------------------------------------------------
(***************************************************************************)
(* The row.                                                                *)
(***************************************************************************)
\* What a submission that passed its checks has been found to be.
LEMMA PublishChecked ==
    ASSUME NEW s, NEW key, PublishError(s, key) = "none"
    PROVE  /\ s.tarball.manifest.name = s.slug
           /\ s.signature.key = key /\ s.signature.over = s.tarball
  BY DEF PublishError, Verifies

\* A package keeps its releases, gains one, and is its publisher's (Inserted).
LEMMA InsertedShape ==
    ASSUME NEW p, NEW j, Shaped(p, {"owner", "about", "tags", "releases"})
    PROVE  /\ Shaped(Inserted(p, j), {"owner", "about", "tags", "releases"})
           /\ Inserted(p, j).owner = j.by
           /\ Inserted(p, j).releases = p.releases \union {Release(j)}
<1> DEFINE d == Described(p, j.sub.tarball.manifest)
<1>1. /\ Shaped(d, {"owner", "about", "tags", "releases"}) /\ d.releases = p.releases
  BY DEF Described, Shaped
<1> HIDE DEF d
<1> DEFINE e == Release(j)
<1> HIDE DEF e
<1>2. Inserted(p, j) = [d EXCEPT !.owner = j.by, !.releases = @ \union {e}]
  BY DEF Inserted, d, e
<1>3. /\ Shaped(Inserted(p, j), {"owner", "about", "tags", "releases"})
      /\ Inserted(p, j).owner = j.by
      /\ Inserted(p, j).releases = p.releases \union {e}
  BY <1>1, <1>2 DEF Shaped
<1> QED
  BY <1>3 DEF e

\* The case of InsertRelease that adds a row.
Adds(r) ==
    LET j == job[r]
        p == packages[j.sub.slug]
    IN  /\ j.pc = "insert" /\ p.owner \in {"none", j.by}
        /\ \A e \in p.releases : e.version # Release(j).version
        /\ packages' = [packages EXCEPT ![j.sub.slug] = Inserted(p, j)]
        /\ Answer(r, "created")

\* InsertRelease adds a row or answers an error.
LEMMA InsertCases ==
    ASSUME NEW r, InsertRelease(r)
    PROVE  Adds(r) \/ (UNCHANGED packages /\ \E a : Answer(r, a))
  BY DEF InsertRelease, Adds

\* The new row has its blob and its owner's signature, and its version is new.
LEMMA AddsKeeps ==
    ASSUME RegistryInv, NEW r \in Requests, Adds(r),
           UNCHANGED <<store, restarts, blobs, parts>>
    PROVE  /\ RegistryInv'
           /\ \A s \in Slugs : /\ packages[s].releases \subseteq packages'[s].releases
                               /\ packages[s].owner \in {"none", packages'[s].owner}
<1> DEFINE j == job[r]
           k == j.sub.slug
           p == packages[k]
           e == Release(j)
           n == Inserted(p, j)
<1>1. /\ j.pc = "insert" /\ Holds(r) /\ k \in Slugs /\ j.sub.tarball \in Tarballs
      /\ j.by \in Handles /\ j.key[1] = j.by /\ blobs[j.sub.tarball] # "none"
      /\ PublishError(j.sub, j.key) = "none"
  BY DEF Adds, RegistryInv, Holds, Busy
<1>2. /\ j.sub.tarball.manifest.name = k /\ j.sub.signature.key = j.key
      /\ j.sub.signature.over = j.sub.tarball
  BY <1>1, PublishChecked
<1>3. /\ e.digest = j.sub.tarball /\ e.version = j.sub.tarball.manifest.version
      /\ e.signature = j.sub.signature /\ e.keyID = j.by
  BY DEF Release
<1>4. /\ Shaped(n, {"owner", "about", "tags", "releases"}) /\ n.owner = j.by
      /\ n.releases = p.releases \union {e}
  BY <1>1, InsertedShape DEF RegistryInv, RegistryTypeOK
<1>5. /\ p.owner \in {"none", j.by} /\ (\A f \in p.releases : f.version # e.version)
      /\ packages' = [packages EXCEPT ![k] = n] /\ Answer(r, "created")
  BY DEF Adds
<1>6. j.by # "none"
  BY <1>1, RegistryAssumption
<1> HIDE DEF e, n
<1>7. /\ packages' = [s \in Slugs |-> packages'[s]] /\ packages'[k] = n
      /\ \A s \in Slugs : s # k => packages'[s] = packages[s]
  BY <1>1, <1>5 DEF RegistryInv, RegistryTypeOK
<1>8. Alone(r) /\ job'[r] = [pc |-> "answered", answer |-> "created"]
  BY <1>5, AloneSet DEF Answer
<1>9. BlobsStay
  BY NoBlobTouched DEF files
<1>10. RegistryTypeOK'
  BY <1>4, <1>7, <1>8, <1>9 DEF RegistryInv, RegistryTypeOK, Alone, BlobsStay
<1>11. \A q \in Requests : Holds(q)'
  <2>1. Holds(r)'
    BY <1>8 DEF Holds, Busy
  <2> QED
    BY <1>8, <1>9, <2>1, HoldsKept
<1>12. Catalogue'
  <2> SUFFICES ASSUME NEW s \in Slugs
               PROVE  /\ packages'[s].owner = "none" => packages'[s].releases = {}
                      /\ \A f \in packages'[s].releases : f.digest \in Tarballs
    BY DEF Catalogue
  <2>1. /\ packages[s].owner = "none" => packages[s].releases = {}
        /\ \A f \in packages[s].releases : f.digest \in Tarballs
    BY DEF RegistryInv, Catalogue
  <2> QED
    BY <1>1, <1>3, <1>4, <1>6, <1>7, <2>1
<1>13. ReleaseHasBlob'
  <2> SUFFICES ASSUME store' # <<"postgres", "memory">>, NEW s \in Slugs,
                      NEW f \in packages'[s].releases
               PROVE  blobs'[f.digest] # "none"
    BY DEF ReleaseHasBlob
  <2>1. \A g \in packages[s].releases : blobs[g.digest] # "none"
    BY DEF RegistryInv, ReleaseHasBlob
  <2> QED
    BY <1>1, <1>3, <1>4, <1>7, <2>1
<1>14. ReleaseIsGenuine'
  <2> SUFFICES ASSUME NEW s \in Slugs, NEW f \in packages'[s].releases
               PROVE  /\ f.digest.manifest.name = s
                      /\ f.digest.manifest.version = f.version
                      /\ f.signature.over = f.digest
                      /\ f.keyID = packages'[s].owner
                      /\ f.signature.key[1] = packages'[s].owner
                      /\ \A g \in packages'[s].releases : g.version = f.version => g = f
    BY DEF ReleaseIsGenuine
  <2>1. \A g \in packages[s].releases :
           /\ g.digest.manifest.name = s /\ g.digest.manifest.version = g.version
           /\ g.signature.over = g.digest
           /\ g.keyID = packages[s].owner /\ g.signature.key[1] = packages[s].owner
           /\ \A h \in packages[s].releases : h.version = g.version => h = g
    BY DEF RegistryInv, ReleaseIsGenuine
  <2>2. CASE s # k
    BY <1>7, <2>1, <2>2
  <2>3. CASE s = k
    <3>1. p.owner = j.by \/ p.releases = {}
      BY <1>1, <1>5 DEF RegistryInv, Catalogue
    <3>2. packages'[s] = n /\ f \in p.releases \union {e}
      BY <1>4, <1>7, <2>3
    <3>3. CASE f = e
      BY <1>1, <1>2, <1>3, <1>4, <1>5, <2>3, <3>2, <3>3
    <3>4. CASE f \in p.releases
      BY <1>4, <1>5, <2>1, <2>3, <3>1, <3>2, <3>4
    <3> QED
      BY <3>2, <3>3, <3>4
  <2> QED
    BY <2>2, <2>3
<1>15. \A s \in Slugs : /\ packages[s].releases \subseteq packages'[s].releases
                        /\ packages[s].owner \in {"none", packages'[s].owner}
  BY <1>4, <1>5, <1>7
<1> QED
  BY <1>10, <1>11, <1>12, <1>13, <1>14, <1>15 DEF RegistryInv

\* A publish that ends in forbidden or conflict adds nothing.
LEMMA InsertKeeps ==
    ASSUME RegistryInv, NEW r \in Requests, InsertRelease(r)
    PROVE  RegistryInv'
<1>1. UNCHANGED <<store, restarts, blobs, parts>> /\ BlobsStay
  BY NoBlobTouched DEF InsertRelease, serverVars, files
<1>2. CASE Adds(r)
  BY <1>1, <1>2, AddsKeeps
<1>3. CASE UNCHANGED packages /\ \E a : Answer(r, a)
  BY <1>1, <1>3, AnswerKeeps
<1> QED
  BY <1>2, <1>3, InsertCases

-----------------------------------------------------------------------------
(***************************************************************************)
(* The server's other steps, and the theorems.                             *)
(***************************************************************************)
\* A restart loses the rows whenever it loses the blobs, but for rows in
\* Postgres over blobs in memory.
LEMMA RestartKeeps ==
    ASSUME RegistryInv, Restart
    PROVE  RegistryInv'
<1>1. /\ job' = [q \in Requests |-> Idle] /\ UNCHANGED store /\ parts' = CutShort(parts)
      /\ packages' = IF InMemory THEN [s \in Slugs |-> NoPackage] ELSE packages
      /\ blobs' = IF store[2] = "memory" THEN NoBlobs ELSE CutShort(blobs)
      /\ restarts' = restarts + 1
  BY DEF Restart
<1>2. RegistryTypeOK'
  <2>1. packages' = [s \in Slugs |-> packages'[s]]
        /\ \A s \in Slugs : Shaped(packages'[s], {"owner", "about", "tags", "releases"})
    BY <1>1 DEF RegistryInv, RegistryTypeOK, NoPackage, Shaped
  <2>2. blobs' = [t \in Tarballs |-> blobs'[t]] /\ parts' = [t \in Tarballs |-> parts'[t]]
    BY <1>1 DEF NoBlobs, CutShort
  <2> QED
    BY <1>1, <2>1, <2>2 DEF RegistryInv, RegistryTypeOK
<1>3. \A q \in Requests : Holds(q)'
  BY <1>1 DEF Holds, Busy, Idle
<1>4. Catalogue' /\ ReleaseIsGenuine'
  <2>1. CASE InMemory
    BY <1>1, <2>1 DEF Catalogue, ReleaseIsGenuine, NoPackage
  <2>2. CASE ~InMemory
    BY <1>1, <2>2 DEF RegistryInv, Catalogue, ReleaseIsGenuine
  <2> QED
    BY <2>1, <2>2
<1>5. ReleaseHasBlob'
  <2>1. CASE InMemory
    BY <1>1, <2>1 DEF ReleaseHasBlob, NoPackage
  <2>2. CASE ~InMemory /\ store[2] = "memory"
    <3>1. store = <<"postgres", "memory">>
      BY <2>2, RegistryAssumption DEF RegistryInv, RegistryTypeOK, InMemory
    <3> QED
      BY <1>1, <3>1 DEF ReleaseHasBlob
  <2>3. CASE ~InMemory /\ store[2] # "memory"
    <3>1. \A t \in Tarballs : blobs[t] # "none" => blobs'[t] # "none"
      BY <1>1, <2>3 DEF CutShort
    <3> QED
      BY <1>1, <2>3, <3>1 DEF RegistryInv, ReleaseHasBlob, Catalogue
  <2> QED
    BY <2>1, <2>2, <2>3
<1> QED
  BY <1>2, <1>3, <1>4, <1>5 DEF RegistryInv

\* A rotated key or token is no concern of a row, which keeps the signature it
\* was published with.
LEMMA UpsertKeeps ==
    ASSUME RegistryInv,
           UNCHANGED <<store, packages, blobs, parts, job, restarts>>
    PROVE  RegistryInv'
<1>1. RegistryTypeOK' /\ Catalogue' /\ ReleaseHasBlob' /\ ReleaseIsGenuine'
  BY DEF RegistryInv, RegistryTypeOK, Catalogue, ReleaseHasBlob, ReleaseIsGenuine
<1>2. \A q \in Requests : Holds(q)'
  BY DEF RegistryInv, Holds, Busy
<1> QED
  BY <1>1, <1>2 DEF RegistryInv

\* Every step of the server keeps the invariant.
LEMMA RegistryStep ==
    ASSUME RegistryInv, [RegistryNext]_registryVars
    PROVE  RegistryInv'
<1>1. CASE \E r \in Requests : PublishStep(r)
  <2>1. PICK r \in Requests : PublishStep(r)
    BY <1>1
  <2>2. CASE \E s \in Submissions : RequirePublisher(r, s)
    BY <2>2, RequireKeeps
  <2>3. CASE Check(r)
    BY <2>3, CheckKeeps
  <2>4. CASE Stat(r)
    BY <2>4, StatKeeps
  <2>5. CASE Open(r)
    BY <2>5, OpenKeeps
  <2>6. CASE Write(r) \/ WriteFails(r)
    BY <2>6, WriteKeeps
  <2>7. CASE Rename(r) \/ RemovePart(r)
    BY <2>7, RenameKeeps
  <2>8. CASE Begin(r)
    BY <2>8, BeginKeeps
  <2>9. CASE InsertRelease(r)
    BY <2>9, InsertKeeps
  <2> QED
    BY <2>1, <2>2, <2>3, <2>4, <2>5, <2>6, <2>7, <2>8, <2>9 DEF PublishStep
<1>2. CASE \E h \in Handles, b \in BOOLEAN : UpsertPublisher(h, b)
  BY <1>2, UpsertKeeps DEF UpsertPublisher, files
<1>3. CASE Restart
  BY <1>3, RestartKeeps
<1>4. CASE UNCHANGED registryVars
  BY <1>4, UpsertKeeps DEF registryVars
<1> QED
  BY <1>1, <1>2, <1>3, <1>4 DEF RegistryNext

\* The inductive invariant, over any number of concurrent publishes.
THEOREM RegistryInvariance == RegistrySpec => []RegistryInv
<1>1. RegistryInit => RegistryInv
  BY RegistryInitial
<1>2. RegistryInv /\ [RegistryNext]_registryVars => RegistryInv'
  BY RegistryStep
<1> QED
  BY <1>1, <1>2, PTL DEF RegistrySpec

\* Every release of the catalogue has a file to download, whatever publishes of
\* the same tarball raced on its .part file (FilesystemBlobStore.Put).
THEOREM EveryReleaseHasItsBlob == RegistrySpec => []ReleaseHasBlob
<1>1. RegistryInv => ReleaseHasBlob
  BY DEF RegistryInv
<1> QED
  BY <1>1, RegistryInvariance, PTL

\* A release carries its manifest's slug and version and the signature of the
\* package's one owner (PublishRelease, InsertRelease).
THEOREM EveryReleaseIsGenuine == RegistrySpec => []ReleaseIsGenuine
<1>1. RegistryInv => ReleaseIsGenuine
  BY DEF RegistryInv
<1> QED
  BY <1>1, RegistryInvariance, PTL

\* No publish replaces or withdraws a release or takes over a package
\* (InsertRelease).
THEOREM NoReleaseReplaced == RegistrySpec => ReleasesKept
<1>1. RegistryInv /\ [RegistryNext]_registryVars => [KeepsReleases]_registryVars
  <2> SUFFICES ASSUME RegistryInv, [RegistryNext]_registryVars PROVE [KeepsReleases]_registryVars
    OBVIOUS
  <2>1. CASE UNCHANGED packages
    BY <2>1 DEF KeepsReleases
  <2>2. CASE \E r \in Requests : InsertRelease(r)
    <3>1. PICK r \in Requests : InsertRelease(r)
      BY <2>2
    <3>2. UNCHANGED <<store, restarts, blobs, parts>>
      BY <3>1 DEF InsertRelease, serverVars, files
    <3> QED
      BY <2>1, <3>1, <3>2, InsertCases, AddsKeeps DEF KeepsReleases
  <2>3. CASE Restart
    BY <2>1, <2>3 DEF Restart, RegistryInv, RegistryTypeOK, KeepsReleases
  <2> QED
    BY <2>1, <2>2, <2>3
       DEF RegistryNext, PublishStep, RequirePublisher, Check, Stat, Open, Write, WriteFails,
           Rename, RemovePart, Begin, UpsertPublisher, registryVars
<1> QED
  BY <1>1, RegistryInvariance, PTL DEF RegistrySpec, ReleasesKept

-----------------------------------------------------------------------------
(***************************************************************************)
(* The .part file that writers of one tarball share.                       *)
(***************************************************************************)
\* Whoever is to make a torn file whole holds it open: the blob, or the .part
\* file that becomes the blob.
TornFiles ==
    \A t \in Tarballs :
        /\ blobs[t] = "torn" => \E q \in Requests : Writes(q, t, "blob")
        /\ parts[t] = "torn" => \E q \in Requests : Writes(q, t, "part")

\* A handler that is not writing tears no file and holds none that is torn.
LEMMA OthersWrite ==
    ASSUME RegistryInv, TornFiles, NEW r \in Requests, NEW x, job[r].pc # "write",
           job' = [job EXCEPT ![r] = x], UNCHANGED parts,
           \A t \in Tarballs : blobs'[t] \in {blobs[t], "whole"}
    PROVE  TornFiles'
<1>1. \A q \in Requests : q # r => job'[q] = job[q]
  OBVIOUS
<1>2. ASSUME NEW q \in Requests, NEW t, NEW f, Writes(q, t, f)
      PROVE  Writes(q, t, f)'
  BY <1>1, <1>2 DEF Writes
<1> QED
  BY <1>2 DEF TornFiles

\* Opening the .part file makes its opener a writer of it.
LEMMA OpenTears ==
    ASSUME RegistryInv, TornFiles, NEW r \in Requests, Open(r)
    PROVE  TornFiles'
<1>0. PICK u \in Tarballs : u = job[r].sub.tarball
  BY DEF Open, RegistryInv, Holds, Busy
<1> DEFINE x == [job[r] EXCEPT !.pc = "write", !.file = "part"]
<1>1. /\ job[r].pc = "open" /\ UNCHANGED blobs /\ parts' = [parts EXCEPT ![u] = "torn"]
      /\ Shaped(job[r], JobFields) /\ job' = [job EXCEPT ![r] = x]
  BY <1>0 DEF Open, RegistryInv, Holds, Busy
<1>2. x.pc = "write" /\ x.file = "part" /\ x.sub = job[r].sub
  BY <1>1 DEF Shaped, JobFields
<1> HIDE DEF x
<1>3. job'[r] = x /\ \A q \in Requests : q # r => job'[q] = job[q]
  BY <1>1 DEF RegistryInv, RegistryTypeOK
<1>4. \A q \in Requests : \A t, f : Writes(q, t, f) => Writes(q, t, f)'
  BY <1>1, <1>3 DEF Writes
<1>5. Writes(r, u, "part")'
  BY <1>0, <1>2, <1>3 DEF Writes
<1>6. \A t \in Tarballs : t # u => parts'[t] = parts[t]
  BY <1>1 DEF RegistryInv, RegistryTypeOK
<1> QED
  BY <1>1, <1>4, <1>5, <1>6 DEF TornFiles

\* A writer makes the file it holds whole, or, if it was the last, cuts it.
LEMMA WriteMends ==
    ASSUME RegistryInv, TornFiles, NEW r \in Requests, Write(r) \/ WriteFails(r)
    PROVE  TornFiles'
<1>1. PICK u \in Tarballs : u = job[r].sub.tarball /\ job[r].pc = "write"
  BY DEF Write, WriteFails, RegistryInv, Holds, Busy
<1>2. \A q \in Requests : q # r => job'[q] = job[q]
  BY DEF Write, WriteFails, Goto, Answer, RegistryInv, RegistryTypeOK
<1>3. \A q \in Requests : \A t, f : Writes(q, t, f) /\ q # r => Writes(q, t, f)'
  BY <1>2 DEF Writes
<1>4. \A t \in Tarballs : \A f : Writes(r, t, f) => t = u /\ f = job[r].file
  BY <1>1 DEF Writes
<1>5. /\ \A t \in Tarballs : t # u => blobs'[t] = blobs[t] /\ parts'[t] = parts[t]
      /\ job[r].file # "blob" => blobs'[u] = blobs[u]
      /\ job[r].file # "part" => parts'[u] = parts[u]
  BY <1>1 DEF Write, WriteFails, Broken, RegistryInv, RegistryTypeOK
<1>6. /\ job[r].file = "blob" /\ blobs'[u] = "torn" =>
            blobs[u] = "torn" /\ \E q \in Requests \ {r} : Writes(q, u, "blob")
      /\ job[r].file = "part" /\ parts'[u] = "torn" =>
            parts[u] = "torn" /\ \E q \in Requests \ {r} : Writes(q, u, "part")
  BY <1>1 DEF Write, WriteFails, Broken, RegistryInv, RegistryTypeOK
<1> QED
  BY <1>3, <1>4, <1>5, <1>6 DEF TornFiles

\* A torn .part file takes its writers with it when it becomes the blob; one
\* that is removed has only those who write to no file of the store any more.
LEMMA MoveCarries ==
    ASSUME RegistryInv, TornFiles, NEW r \in Requests, Rename(r) \/ RemovePart(r)
    PROVE  TornFiles'
<1>1. PICK u \in Tarballs : u = job[r].sub.tarball /\ job[r].pc \in {"rename", "remove"}
  BY DEF Rename, RemovePart, RegistryInv, Holds, Busy
<1>2. CASE Goto(r, "remove") /\ UNCHANGED files
  BY <1>1, <1>2, OthersWrite DEF Goto, files
<1>3. ASSUME NEW to, NEW x, job' = [Moved(u, to) EXCEPT ![r] = x]
      PROVE  /\ \A q \in Requests : \A t, f : t # u /\ Writes(q, t, f) => Writes(q, t, f)'
             /\ \A q \in Requests : \A f : Writes(q, u, f) => Writes(q, u, to[f])'
  <2>1. \A q \in Requests : q # r => job'[q] = Moved(u, to)[q]
    BY <1>3 DEF Moved
  <2>2. SUFFICES ASSUME NEW q \in Requests, NEW t, NEW f, Writes(q, t, f)
                 PROVE  /\ t # u => Writes(q, t, f)'
                        /\ t = u => Writes(q, u, to[f])'
    OBVIOUS
  <2>3. q # r /\ Busy(q) /\ Shaped(job[q], JobFields)
    BY <1>1, <2>2 DEF Writes, Busy, RegistryInv, Holds
  <2>4. CASE t # u
    BY <2>1, <2>2, <2>3, <2>4 DEF Writes, Moved
  <2>5. CASE t = u
    <3>1. job'[q] = [job[q] EXCEPT !.file = to[@]]
      BY <2>1, <2>2, <2>3, <2>5 DEF Writes, Moved
    <3>2. job'[q].pc = "write" /\ job'[q].sub = job[q].sub /\ job'[q].file = to[f]
      BY <2>2, <2>3, <3>1 DEF Writes, Shaped, JobFields
    <3> QED
      BY <2>2, <2>5, <3>2 DEF Writes
  <2> QED
    BY <2>4, <2>5
<1>4. CASE Rename(r) /\ parts[u] # "none"
  <2>1. /\ blobs' = [blobs EXCEPT ![u] = parts[u]] /\ parts' = [parts EXCEPT ![u] = "none"]
        /\ \E x : job' = [Moved(u, Replaced) EXCEPT ![r] = x]
    BY <1>1, <1>4 DEF Rename
  <2>2. /\ \A t \in Tarballs : t # u => blobs'[t] = blobs[t] /\ parts'[t] = parts[t]
        /\ blobs'[u] = parts[u] /\ parts'[u] = "none"
    BY <1>1, <2>1 DEF RegistryInv, RegistryTypeOK
  <2>3. /\ \A q \in Requests : \A t, f : t # u /\ Writes(q, t, f) => Writes(q, t, f)'
        /\ \A q \in Requests : \A f : Writes(q, u, f) => Writes(q, u, Replaced[f])'
    BY <1>3, <2>1
  <2>4. \A q \in Requests : Writes(q, u, "part") => Writes(q, u, "blob")'
    BY <2>3 DEF Replaced
  <2> QED
    BY <2>2, <2>3, <2>4 DEF TornFiles
<1>5. CASE RemovePart(r)
  <2>1. /\ UNCHANGED blobs /\ parts' = [parts EXCEPT ![u] = "none"]
        /\ \E x : job' = [Moved(u, Unlinked) EXCEPT ![r] = x]
    BY <1>1, <1>5 DEF RemovePart
  <2>2. (\A t \in Tarballs : t # u => parts'[t] = parts[t]) /\ parts'[u] = "none"
    BY <1>1, <2>1 DEF RegistryInv, RegistryTypeOK
  <2>3. /\ \A q \in Requests : \A t, f : t # u /\ Writes(q, t, f) => Writes(q, t, f)'
        /\ \A q \in Requests : \A f : Writes(q, u, f) => Writes(q, u, Unlinked[f])'
    BY <1>3, <2>1
  <2>4. \A q \in Requests : Writes(q, u, "blob") => Writes(q, u, "blob")'
    BY <2>3 DEF Unlinked
  <2> QED
    BY <2>1, <2>2, <2>3, <2>4 DEF TornFiles
<1> QED
  BY <1>1, <1>2, <1>4, <1>5 DEF Rename

\* Every step of the server leaves a torn file to its writers.
LEMMA TornStep == RegistryInv /\ TornFiles /\ [RegistryNext]_registryVars => TornFiles'
<1> SUFFICES ASSUME RegistryInv, TornFiles, [RegistryNext]_registryVars PROVE TornFiles'
  OBVIOUS
<1>1. ASSUME NEW r \in Requests, PublishStep(r) PROVE TornFiles'
  <2>1. CASE \E s \in Submissions : RequirePublisher(r, s)
    BY <2>1, OthersWrite DEF RequirePublisher, Answer, files
  <2>2. CASE Check(r)
    BY <2>2, OthersWrite DEF Check, Goto, Answer, files
  <2>3. CASE Stat(r)
    <3>1. \A t \in Tarballs : blobs'[t] \in {blobs[t], "whole"}
      BY <2>3 DEF Stat, RegistryInv, RegistryTypeOK
    <3>2. PICK x : job' = [job EXCEPT ![r] = x]
      BY <2>3 DEF Stat, Goto
    <3>3. job[r].pc # "write" /\ UNCHANGED parts
      BY <2>3 DEF Stat
    <3> QED
      BY <3>1, <3>2, <3>3, OthersWrite
  <2>4. CASE Begin(r)
    <3>1. PICK x : job' = [job EXCEPT ![r] = x]
      BY <2>4 DEF Begin
    <3>2. job[r].pc # "write" /\ UNCHANGED <<parts, blobs>>
      BY <2>4 DEF Begin, files
    <3> QED
      BY <3>1, <3>2, OthersWrite
  <2>5. CASE InsertRelease(r)
    BY <2>5, OthersWrite DEF InsertRelease, Answer, files
  <2> QED
    BY <1>1, <2>1, <2>2, <2>3, <2>4, <2>5, OpenTears, WriteMends, MoveCarries DEF PublishStep
<1>2. CASE Restart
  BY <1>2 DEF Restart, TornFiles, CutShort, NoBlobs
<1>3. CASE UNCHANGED <<blobs, parts, job>>
  BY <1>3 DEF TornFiles, Writes
<1> QED
  BY <1>1, <1>2, <1>3 DEF RegistryNext, UpsertPublisher, registryVars, files

\* However many writers of a tarball truncate, write, move and remove the one
\* .part file: a blob that is short of its tarball has a writer that will make
\* it whole, unless a write was broken off (FilesystemBlobStore.Put).
THEOREM TornBlobsAreMended == RegistrySpec => []TornBlobsMend
<1>1. RegistryInit => TornFiles
  BY DEF RegistryInit, TornFiles, NoBlobs
<1>2. RegistryInv /\ TornFiles /\ [RegistryNext]_registryVars => TornFiles'
  BY TornStep
<1>3. TornFiles => TornBlobsMend
  BY DEF TornFiles, TornBlobsMend
<1> QED
  BY <1>1, <1>2, <1>3, RegistryInvariance, PTL DEF RegistrySpec

-----------------------------------------------------------------------------
(***************************************************************************)
(* Installing, while the registry goes on publishing.                      *)
(***************************************************************************)
\* The files of the first members of a tarball, and a directory begun anew.
FilesBefore(t, n) == {<<t.members[i].path, t>> : i \in {i \in 1..(n - 1) : t.members[i].type = "file"}}
Emptied(s)        == dir[s].files = {} /\ dir[s].receipt = NoReceipt

MadeFor(t, s, v) == t \in Tarballs /\ t.manifest.name = s /\ t.manifest.version = v

DirFields == {"exists", "files", "receipt", "unremoved"}
DirShaped ==
    /\ dir = [s \in Slugs |-> dir[s]]
    /\ \A s \in Slugs : Shaped(dir[s], DirFields)
    /\ \A s \in Slugs : dir[s].exists \/ Emptied(s)

\* A receipt stands beside files of its tarball only, but for what could not be
\* removed.
ReceiptIsTrue ==
    \A s \in Slugs : dir[s].receipt # NoReceipt =>
        /\ dir[s].receipt.digest.manifest.name = s
        /\ dir[s].receipt.digest.manifest.version = dir[s].receipt.version
        /\ dir[s].unremoved \/ dir[s].files \subseteq FilesOf(dir[s].receipt.digest)

\* After WriteReceipt the directory is that of the command that has ended.
InstalledIsWhole ==
    client.pc = "ended" /\ client.answer = "installed" =>
        \A s \in Slugs : client.slug = s /\ dir[s].receipt # NoReceipt =>
            FilesOf(dir[s].receipt.digest) \subseteq dir[s].files

\* What the command holds: a slug; the release's digest, which was made for the
\* slug and version; the body, the members of the tarball that was declared;
\* past the checks, the expected one.
Wanting == {"package", "release"}
Asking  == {"signature", "key", "tarball"}
Writing == {"remove", "undo", "mkdir", "extract"}
ClientHolds ==
    /\ client.pc \in {"ended", "verify"} \union Wanting \union Asking \union Writing
    /\ client.pc # "ended" =>
          {"pc", "slug", "version"} \subseteq DOMAIN client /\ client.slug \in Slugs
    /\ client.pc \in {"verify"} \union Asking \union Writing =>
          "expected" \in DOMAIN client /\ MadeFor(client.expected, client.slug, client.version)
    /\ client.pc \in {"verify"} \union Writing =>
          /\ {"declared", "body", "whole"} \subseteq DOMAIN client
          /\ client.whole => client.body = client.declared.members
    /\ client.pc \in Writing =>
          client.declared = client.expected /\ client.body = client.declared.members
    /\ client.pc = "mkdir" => dir[client.slug].unremoved \/ Emptied(client.slug)
    /\ client.pc = "extract" =>
          /\ "next" \in DOMAIN client
          /\ client.next \in 1..(Len(client.body) + 1)
          /\ dir[client.slug].exists
          /\ FilesBefore(client.declared, client.next) \subseteq dir[client.slug].files
          /\ \/ dir[client.slug].unremoved
             \/ /\ dir[client.slug].receipt = NoReceipt
                /\ dir[client.slug].files \subseteq FilesBefore(client.declared, client.next)

InstallInv == DirShaped /\ ReceiptIsTrue /\ InstalledIsWhole /\ ClientHolds

\* Nothing is installed, and no command runs.
LEMMA InstallInitial == InstallInit => InstallInv
<1> SUFFICES ASSUME InstallInit PROVE InstallInv
  OBVIOUS
<1>1. client.pc = "ended" /\ client.answer = "none"
  BY DEF InstallInit, Ended
<1>2. DirShaped /\ ReceiptIsTrue
  BY DEF InstallInit, DirShaped, ReceiptIsTrue, Shaped, DirFields, Emptied, NoDir
<1>3. InstalledIsWhole /\ ClientHolds
  BY <1>1 DEF InstalledIsWhole, ClientHolds, Wanting, Asking, Writing
<1> QED
  BY <1>2, <1>3 DEF InstallInv

\* A command ends without an installation, and leaves the directory as it is.
LEMMA EndKeeps ==
    ASSUME InstallInv, NEW a, a # "installed", EndWith(a), UNCHANGED dir
    PROVE  InstallInv'
<1>1. client'.pc = "ended" /\ client'.answer = a
  BY DEF EndWith, Ended
<1>2. DirShaped' /\ ReceiptIsTrue'
  BY DEF InstallInv, DirShaped, ReceiptIsTrue, Emptied
<1>3. InstalledIsWhole' /\ ClientHolds'
  BY <1>1 DEF InstalledIsWhole, ClientHolds, Wanting, Asking, Writing
<1> QED
  BY <1>2, <1>3 DEF InstallInv

\* What the command keeps of what it holds (the locals of installSkill).
LEMMA KeepHolds ==
    ASSUME NEW more, Keep(more)
    PROVE  /\ DOMAIN client' = DOMAIN client \union DOMAIN more
           /\ \A f \in DOMAIN more : client'[f] = more[f]
           /\ \A f \in DOMAIN client \ DOMAIN more : client'[f] = client[f]
  BY DEF Keep

\* While a command asks, and at its checks, the directory does not change.
LEMMA AskingKeeps ==
    ASSUME InstallInv, UNCHANGED dir, client'.pc # "ended", ClientHolds'
    PROVE  InstallInv'
<1>1. DirShaped' /\ ReceiptIsTrue'
  BY DEF InstallInv, DirShaped, ReceiptIsTrue, Emptied
<1>2. InstalledIsWhole'
  BY DEF InstalledIsWhole
<1> QED
  BY <1>1, <1>2 DEF InstallInv

\* A release the registry answers with was made for what was asked (GetRelease).
LEMMA AnsweredRelease ==
    ASSUME RegistryInv, NEW s \in Slugs, NEW v, NEW e \in GetRelease(s, v)
    PROVE  MadeFor(e.digest, s, v)
  BY DEF GetRelease, RegistryInv, Catalogue, ReleaseIsGenuine, MadeFor

\* The requests (installSkill up to the download).
LEMMA RequestKeeps ==
    ASSUME RegistryInv, InstallInv,
           GetPackage \/ FetchRelease \/ FetchSignature \/ FetchKey \/ FetchTarball \/ RequestFails
    PROVE  InstallInv'
<1>0. UNCHANGED dir /\ ClientHolds
  BY DEF GetPackage, FetchRelease, FetchSignature, FetchKey, FetchTarball, RequestFails, InstallInv
<1>1. CASE \E a : a # "installed" /\ EndWith(a)
  BY <1>0, <1>1, EndKeeps
<1>2. ASSUME NEW v, client.pc = "package", Keep([pc |-> "release", version |-> v])
      PROVE  InstallInv'
  <2>1. /\ DOMAIN client' = DOMAIN client \union {"pc", "version"}
        /\ client'["pc"] = "release" /\ client'["version"] = v
        /\ \A f \in DOMAIN client \ {"pc", "version"} : client'[f] = client[f]
    BY <1>2 DEF Keep
  <2>2. {"pc", "slug", "version"} \subseteq DOMAIN client /\ client.slug \in Slugs
    BY <1>0, <1>2 DEF ClientHolds
  <2>3. client'.pc = "release" /\ client'.slug = client.slug
    BY <2>1, <2>2
  <2>4. ClientHolds'
    BY <2>1, <2>2, <2>3 DEF ClientHolds, Wanting, Asking, Writing
  <2> QED
    BY <1>0, <2>3, <2>4, AskingKeeps
<1>3. CASE GetPackage
  BY <1>1, <1>2, <1>3 DEF GetPackage
<1>4. CASE FetchRelease
  <2>1. CASE GetRelease(client.slug, client.version) = {}
    BY <1>1, <1>4, <2>1 DEF FetchRelease
  <2>2. CASE GetRelease(client.slug, client.version) # {}
    <3>1. PICK e \in GetRelease(client.slug, client.version) :
              Keep([pc |-> "signature", expected |-> e.digest, publisher |-> e.keyID])
      BY <1>4, <2>2 DEF FetchRelease
    <3>2. /\ DOMAIN client' = DOMAIN client \union {"pc", "expected", "publisher"}
          /\ client'["pc"] = "signature" /\ client'["expected"] = e.digest
          /\ \A f \in DOMAIN client \ {"pc", "expected", "publisher"} : client'[f] = client[f]
      BY <3>1 DEF Keep
    <3>3. {"pc", "slug", "version"} \subseteq DOMAIN client /\ client.slug \in Slugs
      BY <1>0, <1>4 DEF ClientHolds, FetchRelease
    <3>4. /\ client'.pc = "signature" /\ client'.slug = client.slug
          /\ client'.version = client.version /\ client'.expected = e.digest
      BY <3>2, <3>3
    <3>5. MadeFor(e.digest, client.slug, client.version)
      BY <3>1, <3>3, AnsweredRelease
    <3>6. ClientHolds'
      BY <3>2, <3>3, <3>4, <3>5 DEF ClientHolds, Wanting, Asking, Writing
    <3> QED
      BY <1>0, <3>4, <3>6, AskingKeeps
  <2> QED
    BY <2>1, <2>2
<1>5. ASSUME NEW more, NEW pc, client.pc \in Asking, pc \in Asking, Keep(more),
             DOMAIN more \in {{"pc", "signature"}, {"pc", "key"}}, more["pc"] = pc
      PROVE  InstallInv'
  <2>1. /\ DOMAIN client' = DOMAIN client \union DOMAIN more
        /\ client'["pc"] = pc
        /\ \A f \in DOMAIN client \ DOMAIN more : client'[f] = client[f]
    BY <1>5, KeepHolds
  <2>2. /\ {"pc", "slug", "version", "expected"} \subseteq DOMAIN client /\ client.slug \in Slugs
        /\ MadeFor(client.expected, client.slug, client.version)
    BY <1>0, <1>5 DEF ClientHolds, Asking
  <2>3. /\ client'.pc = pc /\ client'.slug = client.slug
        /\ client'.version = client.version /\ client'.expected = client.expected
        /\ {"pc", "slug", "version", "expected"} \subseteq DOMAIN client'
    BY <1>5, <2>1, <2>2
  <2>4. ClientHolds'
    BY <1>5, <2>2, <2>3 DEF ClientHolds, Wanting, Asking, Writing
  <2> QED
    BY <1>0, <1>5, <2>3, <2>4, AskingKeeps DEF Asking
<1>6. CASE FetchSignature
  <2>1. CASE GetRelease(client.slug, client.version) = {}
    BY <1>1, <1>6, <2>1 DEF FetchSignature
  <2>2. CASE GetRelease(client.slug, client.version) # {}
    <3>1. PICK e : Keep([pc |-> "key", signature |-> e.signature])
      BY <1>6, <2>2 DEF FetchSignature
    <3> QED
      BY <1>5, <1>6, <3>1 DEF FetchSignature, Asking
  <2> QED
    BY <2>1, <2>2
<1>7. CASE FetchKey
  <2>1. client.pc = "key" /\ \E x : Keep([pc |-> "tarball", key |-> x])
    BY <1>7 DEF FetchKey
  <2> QED
    BY <1>5, <2>1 DEF Asking
<1>8. CASE FetchTarball
  <2>1. CASE \E a : a \in {"not_found", "blob_unavailable"} /\ EndWith(a)
    BY <1>1, <2>1
  <2>2. ASSUME NEW t, NEW w, NEW b, w => b = t.members,
               Keep([pc |-> "verify", declared |-> t, whole |-> w, body |-> b])
        PROVE  InstallInv'
    <3>1. /\ DOMAIN client' = DOMAIN client \union {"pc", "declared", "whole", "body"}
          /\ client'["pc"] = "verify" /\ client'["declared"] = t
          /\ client'["whole"] = w /\ client'["body"] = b
          /\ \A f \in DOMAIN client \ {"pc", "declared", "whole", "body"} : client'[f] = client[f]
      BY <2>2, KeepHolds
    <3>2. /\ {"pc", "slug", "version", "expected"} \subseteq DOMAIN client /\ client.slug \in Slugs
          /\ MadeFor(client.expected, client.slug, client.version)
      BY <1>0, <1>8 DEF ClientHolds, Asking, FetchTarball
    <3>3. /\ client'.pc = "verify" /\ client'.slug = client.slug
          /\ client'.version = client.version /\ client'.expected = client.expected
          /\ client'.declared = t /\ client'.whole = w /\ client'.body = b
          /\ {"pc", "slug", "version", "expected", "declared", "whole", "body"} \subseteq DOMAIN client'
      BY <3>1, <3>2
    <3>4. client'.whole => client'.body = client'.declared.members
      BY <2>2, <3>3
    <3>5. ClientHolds'
      BY <3>2, <3>3, <3>4 DEF ClientHolds, Wanting, Asking, Writing
    <3> QED
      BY <1>0, <3>3, <3>5, AskingKeeps
  <2>3. CASE GetRelease(client.slug, client.version) = {}
    BY <1>8, <2>1, <2>3 DEF FetchTarball
  <2>4. CASE GetRelease(client.slug, client.version) # {}
    <3>1. PICK e : IF blobs[e.digest] = "none" THEN EndWith("blob_unavailable")
                   ELSE Keep([pc |-> "verify", declared |-> e.digest,
                              whole |-> blobs[e.digest] = "whole",
                              body |-> IF blobs[e.digest] = "whole" THEN e.digest.members ELSE <<>>])
      BY <1>8, <2>4 DEF FetchTarball
    <3>2. CASE blobs[e.digest] = "none"
      BY <2>1, <3>1, <3>2
    <3>3. CASE blobs[e.digest] # "none"
      <4> DEFINE w == blobs[e.digest] = "whole"
                 b == IF blobs[e.digest] = "whole" THEN e.digest.members ELSE <<>>
      <4>1. w => b = e.digest.members
        OBVIOUS
      <4>2. Keep([pc |-> "verify", declared |-> e.digest, whole |-> w, body |-> b])
        BY <3>1, <3>3
      <4> HIDE DEF w, b
      <4> QED
        BY <2>2, <4>1, <4>2
    <3> QED
      BY <3>2, <3>3
  <2> QED
    BY <2>3, <2>4
<1>9. CASE RequestFails
  BY <1>1, <1>9 DEF RequestFails
<1> QED
  BY <1>3, <1>4, <1>6, <1>7, <1>8, <1>9
\* The checks of installSkill before the directory is touched (verifySignature).
LEMMA VerifyKeeps ==
    ASSUME InstallInv, Verify
    PROVE  InstallInv'
<1>1. client.pc = "verify" /\ UNCHANGED dir /\ ClientHolds
  BY DEF Verify, InstallInv
<1>2. CASE InstallError # "none"
  <2>1. InstallError # "installed"
    BY DEF InstallError
  <2> QED
    BY <1>1, <1>2, <2>1, EndKeeps DEF Verify
<1>3. CASE InstallError = "none"
  <2>1. client.whole /\ client.declared = client.expected
    BY <1>3 DEF InstallError
  <2>2. /\ {"pc", "slug", "version", "expected", "declared", "whole", "body"} \subseteq DOMAIN client
        /\ client.slug \in Slugs /\ MadeFor(client.expected, client.slug, client.version)
        /\ client.body = client.declared.members
    BY <1>1, <2>1 DEF ClientHolds
  <2>3. Keep([pc |-> IF dir[client.slug].exists THEN "remove" ELSE "mkdir"])
    BY <1>3 DEF Verify
  <2>4. /\ client'.pc = IF dir[client.slug].exists THEN "remove" ELSE "mkdir"
        /\ DOMAIN client' = DOMAIN client
        /\ \A f \in DOMAIN client \ {"pc"} : client'[f] = client[f]
    BY <2>2, <2>3 DEF Keep
  <2>5. /\ client'.slug = client.slug /\ client'.version = client.version
        /\ client'.expected = client.expected /\ client'.declared = client.declared
        /\ client'.body = client.body /\ client'.whole = client.whole
    BY <2>2, <2>4
  <2>6. client'.pc = "mkdir" => Emptied(client.slug)'
    BY <1>1, <2>2, <2>4, <2>5 DEF InstallInv, DirShaped, Emptied
  <2>7. ClientHolds'
    BY <2>1, <2>2, <2>4, <2>5, <2>6 DEF ClientHolds, Wanting, Asking, Writing
  <2> QED
    BY <1>1, <2>4, <2>7, AskingKeeps
<1> QED
  BY <1>2, <1>3

\* A step that writes to the directory of the command's slug only, and leaves
\* no receipt there that was not (os.RemoveAll, os.MkdirAll, safeExtractTarball).
LEMMA WritingKeeps ==
    ASSUME InstallInv, client.pc # "ended", client'.pc # "ended", ClientHolds', NEW d,
           dir' = [dir EXCEPT ![client.slug] = d],
           Shaped(d, DirFields),
           d.exists \/ (d.files = {} /\ d.receipt = NoReceipt),
           d.receipt # NoReceipt =>
               /\ d.receipt = dir[client.slug].receipt
               /\ d.unremoved \/ ( /\ ~dir[client.slug].unremoved
                                  /\ d.files \subseteq dir[client.slug].files)
    PROVE  InstallInv'
<1> DEFINE k == client.slug
<1>1. k \in Slugs
  BY DEF InstallInv, ClientHolds
<1>2. dir' = [s \in Slugs |-> dir'[s]] /\ \A s \in Slugs : dir'[s] = IF s = k THEN d ELSE dir[s]
  BY <1>1 DEF InstallInv, DirShaped
<1> HIDE DEF k
<1>3. DirShaped'
  BY <1>2 DEF InstallInv, DirShaped, Emptied
<1>4. ReceiptIsTrue'
  BY <1>2 DEF InstallInv, ReceiptIsTrue, k
<1>5. InstalledIsWhole'
  BY DEF InstalledIsWhole
<1> QED
  BY <1>3, <1>4, <1>5 DEF InstallInv

\* RemoveAll takes files and receipt away in any order.
LEMMA RemoveKeeps ==
    ASSUME InstallInv, RemoveEntry
    PROVE  InstallInv'
<1> DEFINE k == client.slug
<1>1. /\ client.pc \in {"remove", "undo"} /\ UNCHANGED client /\ ClientHolds
      /\ k \in Slugs /\ Shaped(dir[k], DirFields)
      /\ dir[k].exists \/ Emptied(k)
  BY DEF RemoveEntry, InstallInv, ClientHolds, DirShaped
<1>2. ClientHolds'
  BY <1>1 DEF ClientHolds
<1>3. CASE \E f \in dir[k].files : dir' = [dir EXCEPT ![k].files = @ \ {f}]
  <2>1. PICK f \in dir[k].files : dir' = [dir EXCEPT ![k].files = @ \ {f}]
    BY <1>3
  <2> DEFINE d == [dir[k] EXCEPT !.files = @ \ {f}]
  <2>2. dir' = [dir EXCEPT ![k] = d]
    BY <2>1
  <2>3. /\ Shaped(d, DirFields) /\ d.exists = dir[k].exists
        /\ d.files = dir[k].files \ {f} /\ d.receipt = dir[k].receipt
        /\ d.unremoved = dir[k].unremoved
    BY <1>1 DEF Shaped, DirFields
  <2> HIDE DEF d
  <2> QED
    BY <1>1, <1>2, <2>2, <2>3, WritingKeeps DEF Emptied
<1>4. CASE dir' = [dir EXCEPT ![k].receipt = NoReceipt]
  <2> DEFINE d == [dir[k] EXCEPT !.receipt = NoReceipt]
  <2>1. dir' = [dir EXCEPT ![k] = d]
    BY <1>4
  <2>2. /\ Shaped(d, DirFields) /\ d.exists = dir[k].exists
        /\ d.files = dir[k].files /\ d.receipt = NoReceipt
    BY <1>1 DEF Shaped, DirFields
  <2> HIDE DEF d
  <2> QED
    BY <1>1, <1>2, <2>1, <2>2, WritingKeeps DEF Emptied
<1> QED
  BY <1>3, <1>4 DEF RemoveEntry

\* An emptied directory is gone, and is made again for an install.
LEMMA RemovedKeeps ==
    ASSUME InstallInv, Removed
    PROVE  InstallInv'
<1> DEFINE k == client.slug
<1>1. /\ client.pc \in {"remove", "undo"} /\ ClientHolds /\ k \in Slugs
      /\ dir' = [dir EXCEPT ![k] = NoDir]
  BY DEF Removed, InstallInv, ClientHolds
<1>2. /\ Shaped(NoDir, DirFields)
      /\ NoDir.files = {} /\ NoDir.receipt = NoReceipt
  BY DEF NoDir, Shaped, DirFields
<1>3. dir' = [s \in Slugs |-> dir'[s]] /\ \A s \in Slugs : dir'[s] = IF s = k THEN NoDir ELSE dir[s]
  BY <1>1 DEF InstallInv, DirShaped
<1>4. CASE client.pc = "remove"
  <2>1. Keep([pc |-> "mkdir"])
    BY <1>4 DEF Removed
  <2>2. /\ {"pc", "slug", "version", "expected", "declared", "whole", "body"} \subseteq DOMAIN client
        /\ MadeFor(client.expected, client.slug, client.version)
        /\ client.body = client.declared.members /\ client.declared = client.expected
    BY <1>1 DEF ClientHolds, Writing
  <2>3. /\ client'.pc = "mkdir" /\ DOMAIN client' = DOMAIN client
        /\ \A f \in DOMAIN client \ {"pc"} : client'[f] = client[f]
    BY <2>1, <2>2 DEF Keep
  <2>4. /\ client'.slug = k /\ client'.version = client.version
        /\ client'.expected = client.expected /\ client'.declared = client.declared
        /\ client'.body = client.body /\ client'.whole = client.whole
    BY <2>2, <2>3
  <2>5. Emptied(client.slug)'
    BY <1>1, <1>2, <1>3, <2>4 DEF Emptied
  <2>6. ClientHolds'
    BY <1>1, <2>2, <2>3, <2>4, <2>5 DEF ClientHolds, Wanting, Asking, Writing
  <2> QED
    BY <1>1, <1>2, <2>3, <2>6, WritingKeeps
<1>5. CASE client.pc = "undo"
  <2>1. client'.pc = "ended" /\ client'.answer = "invalid_tarball"
    BY <1>5 DEF Removed, EndWith, Ended
  <2>2. DirShaped' /\ ReceiptIsTrue'
    BY <1>2, <1>3 DEF InstallInv, DirShaped, ReceiptIsTrue, Emptied
  <2>3. InstalledIsWhole' /\ ClientHolds'
    BY <2>1 DEF InstalledIsWhole, ClientHolds, Wanting, Asking, Writing
  <2> QED
    BY <2>2, <2>3 DEF InstallInv
<1> QED
  BY <1>1, <1>4, <1>5
\* What could not be removed stays, and is known to have stayed.
LEMMA RemoveFailsKeeps ==
    ASSUME InstallInv, RemoveFails
    PROVE  InstallInv'
<1> DEFINE k == client.slug
           d == [dir[k] EXCEPT !.unremoved = TRUE]
<1>1. /\ client.pc \in {"remove", "undo"} /\ ClientHolds /\ k \in Slugs
      /\ Shaped(dir[k], DirFields) /\ (dir[k].exists \/ Emptied(k))
      /\ dir' = [dir EXCEPT ![k] = d]
  BY DEF RemoveFails, InstallInv, ClientHolds, DirShaped
<1>2. /\ Shaped(d, DirFields) /\ d.exists = dir[k].exists /\ d.files = dir[k].files
      /\ d.receipt = dir[k].receipt /\ d.unremoved
  BY <1>1 DEF Shaped, DirFields
<1> HIDE DEF d
<1>3. dir' = [s \in Slugs |-> dir'[s]] /\ \A s \in Slugs : dir'[s] = IF s = k THEN d ELSE dir[s]
  BY <1>1 DEF InstallInv, DirShaped
<1>4. CASE client.pc = "remove"
  <2>1. Keep([pc |-> "mkdir"])
    BY <1>4 DEF RemoveFails
  <2>2. /\ {"pc", "slug", "version", "expected", "declared", "whole", "body"} \subseteq DOMAIN client
        /\ MadeFor(client.expected, client.slug, client.version)
        /\ client.body = client.declared.members /\ client.declared = client.expected
    BY <1>1 DEF ClientHolds, Writing
  <2>3. /\ client'.pc = "mkdir" /\ DOMAIN client' = DOMAIN client
        /\ \A f \in DOMAIN client \ {"pc"} : client'[f] = client[f]
    BY <2>1, <2>2 DEF Keep
  <2>4. /\ client'.slug = k /\ client'.version = client.version
        /\ client'.expected = client.expected /\ client'.declared = client.declared
        /\ client'.body = client.body /\ client'.whole = client.whole
    BY <2>2, <2>3
  <2>5. dir'[client'.slug].unremoved
    BY <1>1, <1>2, <1>3, <2>4
  <2>6. ClientHolds'
    BY <1>1, <2>2, <2>3, <2>4, <2>5 DEF ClientHolds, Wanting, Asking, Writing
  <2> QED
    BY <1>1, <1>2, <2>3, <2>6, WritingKeeps DEF Emptied
<1>5. CASE client.pc = "undo"
  <2>1. client'.pc = "ended" /\ client'.answer = "invalid_tarball"
    BY <1>5 DEF RemoveFails, EndWith, Ended
  <2>2. DirShaped'
    BY <1>1, <1>2, <1>3 DEF InstallInv, DirShaped, Emptied
  <2>3. ReceiptIsTrue'
    BY <1>2, <1>3 DEF InstallInv, ReceiptIsTrue
  <2>4. InstalledIsWhole' /\ ClientHolds'
    BY <2>1 DEF InstalledIsWhole, ClientHolds, Wanting, Asking, Writing
  <2> QED
    BY <2>2, <2>3, <2>4 DEF InstallInv
<1> QED
  BY <1>1, <1>4, <1>5

\* The directory of an install starts empty, if it could be removed
\* (os.MkdirAll).
LEMMA MkdirKeeps ==
    ASSUME InstallInv, Mkdir
    PROVE  InstallInv'
<1> DEFINE k == client.slug
           d == [dir[k] EXCEPT !.exists = TRUE]
<1>1. /\ client.pc = "mkdir" /\ ClientHolds /\ k \in Slugs
      /\ dir[k].unremoved \/ Emptied(k)
      /\ Shaped(dir[k], DirFields)
      /\ dir' = [dir EXCEPT ![k].exists = TRUE] /\ Keep([pc |-> "extract", next |-> 1])
  BY DEF Mkdir, InstallInv, ClientHolds, DirShaped
<1>2. /\ Shaped(d, DirFields) /\ d.exists /\ d.files = dir[k].files
      /\ d.receipt = dir[k].receipt /\ d.unremoved = dir[k].unremoved
  BY <1>1 DEF Shaped, DirFields
<1>3. dir' = [dir EXCEPT ![k] = d]
  BY <1>1
<1> HIDE DEF d
<1>4. dir'[k] = d
  BY <1>1, <1>3 DEF InstallInv, DirShaped
<1>5. /\ {"pc", "slug", "version", "expected", "declared", "whole", "body"} \subseteq DOMAIN client
      /\ MadeFor(client.expected, client.slug, client.version)
      /\ client.body = client.declared.members /\ client.declared = client.expected
  BY <1>1 DEF ClientHolds, Writing
<1>6. /\ DOMAIN client' = DOMAIN client \union {"pc", "next"}
      /\ client'["pc"] = "extract" /\ client'["next"] = 1
      /\ \A f \in DOMAIN client \ {"pc", "next"} : client'[f] = client[f]
  BY <1>1 DEF Keep
<1>7. /\ client'.pc = "extract" /\ client'.next = 1
      /\ client'.slug = k /\ client'.version = client.version
      /\ client'.expected = client.expected /\ client'.declared = client.declared
      /\ client'.body = client.body /\ client'.whole = client.whole
  BY <1>5, <1>6
<1>8. 1 \in 1..(Len(client.body) + 1)
  BY <1>5, RegistryAssumption DEF MadeFor
<1>9. FilesBefore(client.declared, 1) = {}
  BY DEF FilesBefore
<1>10. ClientHolds'
  BY <1>1, <1>2, <1>4, <1>5, <1>6, <1>7, <1>8, <1>9
     DEF ClientHolds, Wanting, Asking, Writing, Emptied
<1> QED
  BY <1>1, <1>2, <1>3, <1>7, <1>10, WritingKeeps DEF Emptied

\* What one more member adds to the files (a file is written over).
LEMMA OneMoreMember ==
    ASSUME NEW t, NEW n \in Nat \ {0}
    PROVE  FilesBefore(t, n + 1) =
              IF t.members[n].type = "file"
              THEN {f \in FilesBefore(t, n) : f[1] # t.members[n].path} \union {<<t.members[n].path, t>>}
              ELSE FilesBefore(t, n)
<1>1. 1..((n + 1) - 1) = 1..(n - 1) \union {n}
  OBVIOUS
<1>2. \A f \in FilesBefore(t, n) : f[1] = t.members[n].path => f = <<t.members[n].path, t>>
  BY DEF FilesBefore
<1>3. CASE t.members[n].type = "file"
  <2>1. FilesBefore(t, n + 1) = FilesBefore(t, n) \union {<<t.members[n].path, t>>}
    BY <1>1, <1>3 DEF FilesBefore
  <2> QED
    BY <1>2, <1>3, <2>1
<1>4. CASE t.members[n].type # "file"
  BY <1>1, <1>4 DEF FilesBefore
<1> QED
  BY <1>3, <1>4

\* Each member is written, skipped, or undoes the install
\* (safeExtractTarball).
LEMMA ExtractKeeps ==
    ASSUME InstallInv, Extract \/ ExtractFails
    PROVE  InstallInv'
<1> DEFINE k == client.slug
           n == client.next
           t == client.declared
           m == client.body[n]
<1>1. /\ client.pc = "extract" /\ ClientHolds /\ k \in Slugs /\ n <= Len(client.body)
      /\ Shaped(dir[k], DirFields)
  BY DEF Extract, ExtractFails, InstallInv, ClientHolds, DirShaped
<1>2. /\ {"pc", "slug", "version", "expected", "declared", "whole", "body", "next"} \subseteq DOMAIN client
      /\ MadeFor(client.expected, client.slug, client.version)
      /\ client.body = t.members /\ t = client.expected
      /\ n \in 1..(Len(client.body) + 1)
      /\ dir[k].exists /\ FilesBefore(t, n) \subseteq dir[k].files
      /\ \/ dir[k].unremoved
         \/ dir[k].receipt = NoReceipt /\ dir[k].files \subseteq FilesBefore(t, n)
  BY <1>1 DEF ClientHolds, Writing
<1>3. Len(client.body) \in Nat /\ n \in Nat \ {0} /\ n + 1 \in 1..(Len(client.body) + 1)
  BY <1>1, <1>2, RegistryAssumption DEF MadeFor
<1>4. CASE Keep([pc |-> "undo"]) /\ UNCHANGED dir
  <2>1. /\ client'.pc = "undo" /\ DOMAIN client' = DOMAIN client
        /\ \A f \in DOMAIN client \ {"pc"} : client'[f] = client[f]
    BY <1>2, <1>4 DEF Keep
  <2>2. /\ client'.slug = k /\ client'.version = client.version
        /\ client'.expected = client.expected /\ client'.declared = t
        /\ client'.body = client.body /\ client'.whole = client.whole
    BY <1>2, <2>1
  <2>3. ClientHolds'
    BY <1>1, <1>2, <2>1, <2>2 DEF ClientHolds, Wanting, Asking, Writing
  <2> QED
    BY <1>4, <2>1, <2>3, AskingKeeps
<1>5. CASE /\ Keep([next |-> n + 1])
           /\ dir' = IF m.type = "file"
                     THEN [dir EXCEPT ![k].files = {f \in @ : f[1] # m.path} \union {<<m.path, t>>}]
                     ELSE dir
  <2> DEFINE now == FilesBefore(t, n)
             more == FilesBefore(t, n + 1)
             put == IF m.type = "file"
                    THEN {f \in dir[k].files : f[1] # m.path} \union {<<m.path, t>>}
                    ELSE dir[k].files
             d == [dir[k] EXCEPT !.files = put]
  <2>1. more = IF m.type = "file"
               THEN {f \in now : f[1] # m.path} \union {<<m.path, t>>} ELSE now
    <3>1. m = t.members[n]
      BY <1>2
    <3> QED
      BY <1>3, <3>1, OneMoreMember
  <2>2. /\ now \subseteq dir[k].files => more \subseteq put
        /\ dir[k].files \subseteq now => put \subseteq more
    <3> HIDE DEF now, more, m
    <3> QED
      BY <2>1
  <2>3. dir' = [dir EXCEPT ![k] = d]
    <3>1. CASE m.type = "file"
      BY <1>5, <3>1
    <3>2. CASE m.type # "file"
      <4>1. put = dir[k].files
        BY <3>2
      <4> HIDE DEF put
      <4>2. d = dir[k]
        BY <1>1, <4>1 DEF Shaped, DirFields
      <4> HIDE DEF d
      <4> QED
        BY <1>1, <1>5, <3>2, <4>2 DEF InstallInv, DirShaped
    <3> QED
      BY <3>1, <3>2
  <2> HIDE DEF put
  <2>4. /\ Shaped(d, DirFields) /\ d.exists = dir[k].exists /\ d.files = put
        /\ d.receipt = dir[k].receipt /\ d.unremoved = dir[k].unremoved
    BY <1>1 DEF Shaped, DirFields
  <2> HIDE DEF d, m
  <2>5. dir'[k] = d
    BY <1>1, <2>3 DEF InstallInv, DirShaped
  <2>6. /\ client'["next"] = n + 1 /\ DOMAIN client' = DOMAIN client
        /\ \A f \in DOMAIN client \ {"next"} : client'[f] = client[f]
    BY <1>2, <1>5 DEF Keep
  <2>7. /\ client'.pc = "extract" /\ client'.slug = k /\ client'.version = client.version
        /\ client'.expected = client.expected /\ client'.declared = t
        /\ client'.body = client.body /\ client'.whole = client.whole /\ client'.next = n + 1
    BY <1>1, <1>2, <2>6
  <2>8. ClientHolds'
    BY <1>1, <1>2, <1>3, <2>2, <2>4, <2>5, <2>6, <2>7 DEF ClientHolds, Wanting, Asking, Writing
  <2> QED
    BY <1>1, <1>2, <2>3, <2>4, <2>7, <2>8, WritingKeeps
<1> QED
  BY <1>4, <1>5 DEF Extract, ExtractFails

\* The receipt is written when all members are (writeInstallMarker).
LEMMA ReceiptKeeps ==
    ASSUME InstallInv, WriteReceipt
    PROVE  InstallInv'
<1> DEFINE k == client.slug
           t == client.declared
           r == [version |-> client.version, publisher |-> client.publisher, digest |-> t]
           d == [dir[k] EXCEPT !.receipt = r]
<1>1. /\ client.pc = "extract" /\ ClientHolds /\ k \in Slugs /\ client.next > Len(client.body)
      /\ Shaped(dir[k], DirFields)
  BY DEF WriteReceipt, InstallInv, ClientHolds, DirShaped
<1>2. /\ MadeFor(t, k, client.version)
      /\ client.body = t.members
      /\ client.next \in 1..(Len(client.body) + 1)
      /\ dir[k].exists /\ FilesBefore(t, client.next) \subseteq dir[k].files
      /\ dir[k].unremoved \/ dir[k].files \subseteq FilesBefore(t, client.next)
  BY <1>1 DEF ClientHolds, Writing
<1>3. Len(t.members) \in Nat /\ DOMAIN t.members = 1..Len(t.members)
  BY <1>2, RegistryAssumption DEF MadeFor
<1>4. FilesBefore(t, client.next) = FilesOf(t)
  <2>1. client.next - 1 = Len(t.members)
    BY <1>1, <1>2, <1>3
  <2> QED
    BY <1>2, <1>3, <2>1 DEF FilesBefore, FilesOf
<1>5. /\ dir' = [dir EXCEPT ![k].receipt = r]
      /\ client' = [pc |-> "ended", answer |-> "installed", slug |-> k]
  BY DEF WriteReceipt
<1>6. r.digest = t /\ r.version = client.version
  OBVIOUS
<1> HIDE DEF r
<1>7. /\ Shaped(d, DirFields) /\ d.exists = dir[k].exists
      /\ d.files = dir[k].files /\ d.receipt = r /\ d.unremoved = dir[k].unremoved
  BY <1>1 DEF Shaped, DirFields
<1>8. dir' = [dir EXCEPT ![k] = d]
  BY <1>5
<1> HIDE DEF d
<1>9. dir' = [s \in Slugs |-> dir'[s]] /\ \A s \in Slugs : dir'[s] = IF s = k THEN d ELSE dir[s]
  BY <1>1, <1>8 DEF InstallInv, DirShaped
<1>10. DirShaped'
  BY <1>2, <1>7, <1>9 DEF InstallInv, DirShaped, Emptied
<1>11. ReceiptIsTrue'
  BY <1>2, <1>4, <1>6, <1>7, <1>9 DEF InstallInv, ReceiptIsTrue, MadeFor
<1>12. client'.pc = "ended" /\ client'.answer = "installed" /\ client'.slug = k
  BY <1>5
<1>13. InstalledIsWhole'
  BY <1>2, <1>4, <1>6, <1>7, <1>9, <1>12 DEF InstalledIsWhole
<1>14. ClientHolds'
  BY <1>12 DEF ClientHolds, Wanting, Asking, Writing
<1> QED
  BY <1>10, <1>11, <1>13, <1>14 DEF InstallInv

\* The commands themselves begin, end and are killed without touching a
\* directory.
LEMMA CommandKeeps ==
    ASSUME InstallInv,
           \/ \E s \in Slugs : \E v, force : StartInstall(s, v, force)
           \/ Killed \/ \E s \in Slugs : CheckOne(s)
    PROVE  InstallInv'
<1>1. CASE \E s \in Slugs : \E v, force : StartInstall(s, v, force)
  <2>0. PICK s \in Slugs : \E v, force : StartInstall(s, v, force)
    BY <1>1
  <2>1. PICK v, force : StartInstall(s, v, force)
    BY <2>0
  <2>2. /\ client' = [pc |-> "package", slug |-> s, version |-> v, force |-> force]
        /\ UNCHANGED dir
    BY <2>1 DEF StartInstall
  <2>3. client'.pc = "package" /\ client'.slug = s /\ {"pc", "slug", "version"} \subseteq DOMAIN client'
    BY <2>2
  <2>4. ClientHolds'
    BY <2>3 DEF ClientHolds, Wanting, Asking, Writing
  <2> QED
    BY <2>2, <2>3, <2>4, AskingKeeps
<1>2. CASE Killed
  BY <1>2, EndKeeps DEF Killed
<1>3. CASE \E s \in Slugs : CheckOne(s)
  <2>1. PICK s \in Slugs : CheckOne(s)
    BY <1>3
  <2>2. \E a : a # "installed" /\ EndWith(a)
    BY <2>1 DEF CheckOne, EndWith
  <2> QED
    BY <2>1, <2>2, EndKeeps DEF CheckOne
<1> QED
  BY <1>1, <1>2, <1>3

\* The registry's invariant holds as well while the command runs.
LEMMA SkillStep == RegistryInv /\ InstallInv /\ [SkillNext]_skillVars => RegistryInv' /\ InstallInv'
<1> SUFFICES ASSUME RegistryInv, InstallInv, [SkillNext]_skillVars
             PROVE  RegistryInv' /\ InstallInv'
  OBVIOUS
<1>1. RegistryInv'
  <2>1. [RegistryNext]_registryVars
    BY DEF SkillNext, skillVars
  <2> QED
    BY <2>1, RegistryStep
<1>2. CASE UNCHANGED installVars
  <2>1. UNCHANGED <<client, dir>>
    BY <1>2 DEF installVars
  <2>2. DirShaped' /\ ReceiptIsTrue'
    BY <2>1 DEF InstallInv, DirShaped, ReceiptIsTrue, Emptied
  <2>3. InstalledIsWhole'
    BY <2>1 DEF InstallInv, InstalledIsWhole
  <2>4. ClientHolds'
    BY <2>1 DEF InstallInv, ClientHolds, Emptied
  <2> QED
    BY <1>1, <2>2, <2>3, <2>4 DEF InstallInv
<1>3. CASE InstallStep
  <2>1. CASE \/ \E s \in Slugs, v \in {"latest"} \union {t.manifest.version : t \in Tarballs},
                    force \in BOOLEAN : StartInstall(s, v, force)
             \/ Killed \/ \E s \in Slugs : CheckOne(s)
    BY <1>1, <2>1, CommandKeeps
  <2>2. CASE \/ GetPackage \/ FetchRelease \/ FetchSignature \/ FetchKey \/ FetchTarball
             \/ RequestFails
    BY <1>1, <2>2, RequestKeeps
  <2> QED
    BY <1>1, <1>3, <2>1, <2>2, VerifyKeeps, RemoveKeeps, RemovedKeeps, RemoveFailsKeeps,
       MkdirKeeps, ExtractKeeps, ReceiptKeeps DEF InstallStep
<1> QED
  BY <1>1, <1>2, <1>3 DEF SkillNext, skillVars

\* Whatever is published, rotated and restarted meanwhile, however installs
\* fail or are killed: a receipt stands beside the files of the tarball it
\* names, all of them when success was reported, and beside no others unless a
\* RemoveAll failed (installSkill).
THEOREM ReceiptsAreTrue == SkillSpec => []InstalledIsSigned
<1>1. SkillInit => RegistryInv /\ InstallInv
  BY RegistryInitial, InstallInitial DEF SkillInit
<1>2. RegistryInv /\ InstallInv /\ [SkillNext]_skillVars => RegistryInv' /\ InstallInv'
  BY SkillStep
<1>3. InstallInv => InstalledIsSigned
  BY DEF InstallInv, ReceiptIsTrue, InstalledIsWhole, InstalledIsSigned
<1> QED
  BY <1>1, <1>2, <1>3, PTL DEF SkillSpec

================================================================================
