---------------------------- MODULE ArtifactCache ----------------------------
(***************************************************************************)
(* One artifact, from its publication to the archive a loader opens:       *)
(* publish of storage.py and ArtifactArchiveCache of runtime/loader.py.    *)
(*                                                                         *)
(* Publishers (requests to the manager) store the same digest without a    *)
(* lock.  Loaders (load tasks of actors and compute processes of one node) *)
(* share the archive and exclude each other by a file lock that is theirs  *)
(* only while they obtain it: they open the archive after its release.     *)
(*                                                                         *)
(* A file is what a digest says of it: "good" has the expected one,        *)
(* "other" has another, "cut" is what an interrupted copy leaves.  What a  *)
(* copy writes but never renames has a name nobody else uses.              *)
(***************************************************************************)
EXTENDS Naturals, FiniteSets

CONSTANTS
    Publishers,     \* requests that publish the artifact
    Loaders,        \* processes or threads that load it
    MaxFaults       \* bound: interruptions, deaths and crashes

NoOne == "no one"

ASSUME ArtifactCacheAssumption == MaxFaults \in Nat /\ NoOne \notin Loaders

VARIABLES
    store,      \* create_artifact_store: "files" on this node, or a "bucket"
    object,     \* the stored artifact: "none", or its contents
    pub,        \* publishers: stage and contents of the temporary file
    known,      \* some request got the URI, and stores it with a revision
    damaged,    \* history: a crash damaged the object after it was stored
    archive,    \* <digest>.zip of the node
    holder,     \* who has <digest>.lock
    fetch,      \* loaders: stage and contents of the temporary file
    faults

cacheVars == <<store, object, pub, known, damaged, archive, holder, fetch, faults>>

Contents == {"good", "other", "cut"}

CacheTypeOK ==
    /\ store \in {"files", "bucket"}
    /\ object \in Contents \cup {"none"}
    /\ pub \in [Publishers -> [stage : {"idle", "copying", "copied", "checked"}, file : Contents \cup {"none"}]]
    /\ known \in BOOLEAN /\ damaged \in BOOLEAN
    /\ archive \in Contents \cup {"none"}
    /\ holder \in Loaders \cup {NoOne}
    /\ fetch \in [Loaders -> [stage : {"idle", "waiting", "locked", "copying", "copied", "checked", "obtained", "failed"},
                             file : Contents \cup {"none"}]]
    /\ faults \in 0..MaxFaults

Nothing == [stage |-> "idle", file |-> "none"]

CacheInit ==
    /\ store \in {"files", "bucket"}
    /\ object = "none" /\ archive = "none"
    /\ pub = [p \in Publishers |-> Nothing]
    /\ fetch = [l \in Loaders |-> Nothing]
    /\ known = FALSE /\ damaged = FALSE
    /\ holder = NoOne
    /\ faults = 0

Fault == faults < MaxFaults /\ faults' = faults + 1

-----------------------------------------------------------------------------
(* Publication *)

Pub(p, stage, file) == pub' = [pub EXCEPT ![p] = [stage |-> stage, file |-> file]]

\* What publish_blob finds in its way: the digest of the file, or the metadata
\* of the object, which no crash of this node touches.
Stored == object = "good"

StartPublish(p) ==
    /\ pub[p].stage = "idle"
    /\ IF Stored
       THEN known' = TRUE /\ UNCHANGED pub
       ELSE Pub(p, "copying", "none") /\ UNCHANGED known
    /\ UNCHANGED <<store, object, damaged, archive, holder, fetch, faults>>

\* The source may have changed since its digest was taken.
CopySource(p) ==
    /\ pub[p].stage = "copying"
    /\ \E file \in {"good", "other"} : Pub(p, "copied", file)
    /\ UNCHANGED <<store, object, known, damaged, archive, holder, fetch, faults>>

InterruptPublish(p) ==
    /\ pub[p].stage \in {"copying", "checked"}
    /\ Fault
    /\ Pub(p, "idle", "none")
    /\ UNCHANGED <<store, object, known, damaged, archive, holder, fetch>>

\* Mutant: the artifact is stored without a look at what was copied.
CheckSourceNot(p) ==
    /\ pub[p].stage = "copied"
    /\ Pub(p, "checked", pub[p].file)
    /\ UNCHANGED <<store, object, known, damaged, archive, holder, fetch, faults>>

CheckSource(p) ==
    /\ pub[p].stage = "copied"
    /\ IF pub[p].file = "good" THEN Pub(p, "checked", "good") ELSE Pub(p, "idle", "none")
    /\ UNCHANGED <<store, object, known, damaged, archive, holder, fetch, faults>>

\* The file is renamed to its place, or uploaded whole.
StoreObject(p) ==
    /\ pub[p].stage = "checked"
    /\ object' = pub[p].file
    /\ known' = TRUE
    /\ damaged' = FALSE
    /\ Pub(p, "idle", "none")
    /\ UNCHANGED <<store, archive, holder, fetch, faults>>

-----------------------------------------------------------------------------
(* The archive of the node *)

Fetch(l, stage, file) == fetch' = [fetch EXCEPT ![l] = [stage |-> stage, file |-> file]]

\* Only a revision that is stored is loaded.
StartObtain(l) ==
    /\ known
    /\ fetch[l].stage = "idle"
    /\ Fetch(l, "waiting", "none")
    /\ UNCHANGED <<store, object, pub, known, damaged, archive, holder, faults>>

Acquire(l) ==
    /\ fetch[l].stage = "waiting"
    /\ holder = NoOne
    /\ holder' = l
    /\ Fetch(l, "locked", "none")
    /\ UNCHANGED <<store, object, pub, known, damaged, archive, faults>>

Released(l) == IF holder = l THEN NoOne ELSE holder

\* Mutant: an archive that is there is used, whatever is in it.
LookAtArchiveTrusting(l) ==
    /\ fetch[l].stage = "locked"
    /\ IF archive # "none"
       THEN /\ Fetch(l, "obtained", "none")
            /\ holder' = Released(l)
            /\ UNCHANGED archive
       ELSE /\ Fetch(l, "copying", "none")
            /\ UNCHANGED <<archive, holder>>
    /\ UNCHANGED <<store, object, pub, known, damaged, faults>>

LookAtArchive(l) ==
    /\ fetch[l].stage = "locked"
    /\ IF archive = "good"
       THEN /\ Fetch(l, "obtained", "none")
            /\ holder' = Released(l)
            /\ UNCHANGED archive
       ELSE /\ Fetch(l, "copying", "none")
            /\ archive' = "none"
            /\ UNCHANGED holder
    /\ UNCHANGED <<store, object, pub, known, damaged, faults>>

\* The whole object, as it is when the copy reads it: what is replaced by a
\* rename meanwhile stays open as it was.
Download(l) ==
    /\ fetch[l].stage = "copying"
    /\ object # "none"
    /\ Fetch(l, "copied", object)
    /\ UNCHANGED <<store, object, pub, known, damaged, archive, holder, faults>>

\* A timeout, a full disk, a signed URL that expired while the request waited.
FailDownload(l) ==
    /\ fetch[l].stage = "copying"
    /\ Fault
    /\ Fetch(l, "failed", "none")
    /\ holder' = Released(l)
    /\ UNCHANGED <<store, object, pub, known, damaged, archive>>

CheckDownload(l) ==
    /\ fetch[l].stage = "copied"
    /\ IF fetch[l].file = "good"
       THEN Fetch(l, "checked", "good") /\ UNCHANGED holder
       ELSE Fetch(l, "failed", "none") /\ holder' = Released(l)
    /\ UNCHANGED <<store, object, pub, known, damaged, archive, faults>>

InstallArchive(l) ==
    /\ fetch[l].stage = "checked"
    /\ archive' = fetch[l].file
    /\ Fetch(l, "obtained", "none")
    /\ holder' = Released(l)
    /\ UNCHANGED <<store, object, pub, known, damaged, faults>>

\* The loader has read the archive, or reported that it has none.
EndObtain(l) ==
    /\ fetch[l].stage \in {"obtained", "failed"}
    /\ Fetch(l, "idle", "none")
    /\ UNCHANGED <<store, object, pub, known, damaged, archive, holder, faults>>

-----------------------------------------------------------------------------
(* Faults *)

\* Mutant: the lock is a file that its owner has to remove.
DieHolding(l) ==
    /\ fetch[l].stage # "idle"
    /\ Fault
    /\ Fetch(l, "idle", "none")
    /\ UNCHANGED <<store, object, pub, known, damaged, archive, holder>>

\* A process is killed at any point: the system gives its lock back.
Die(l) ==
    /\ fetch[l].stage # "idle"
    /\ Fault
    /\ Fetch(l, "idle", "none")
    /\ holder' = Released(l)
    /\ UNCHANGED <<store, object, pub, known, damaged, archive>>

\* The node crashes.  No file is flushed before it is renamed, so that it may
\* be cut short afterwards under its final name.
Survives(file) == IF file = "none" THEN {"none"} ELSE {file, "cut"}

NodeCrash ==
    /\ Fault
    /\ archive' \in Survives(archive)
    /\ object' \in (IF store = "files" THEN Survives(object) ELSE {object})
    /\ damaged' = (damaged \/ object' # object)
    /\ fetch' = [l \in Loaders |-> Nothing]
    /\ pub' = [p \in Publishers |-> Nothing]
    /\ holder' = NoOne
    /\ UNCHANGED <<store, known>>

Publish(p) == StartPublish(p) \/ CopySource(p) \/ CheckSource(p) \/ StoreObject(p)
Obtain(l) == LookAtArchive(l) \/ Download(l) \/ CheckDownload(l) \/ InstallArchive(l) \/ EndObtain(l)

CacheNext ==
    \/ \E p \in Publishers : Publish(p) \/ InterruptPublish(p)
    \/ \E l \in Loaders : StartObtain(l) \/ Acquire(l) \/ Obtain(l) \/ FailDownload(l) \/ Die(l)
    \/ NodeCrash

\* A process that is not killed goes on; flock serves those who wait.
CacheFairness ==
    \A l \in Loaders : SF_cacheVars(Acquire(l)) /\ WF_cacheVars(Obtain(l))

CacheSpec == CacheInit /\ [][CacheNext]_cacheVars /\ CacheFairness

-----------------------------------------------------------------------------
(* Properties *)

\* A loader that got the archive reads the published contents until it is
\* done, although it has given the lock back, others obtain the same archive,
\* processes die half-way and a crash cuts files short (obtain).
ObtainedIsGood ==
    \A l \in Loaders : fetch[l].stage = "obtained" => archive = "good"

\* What a revision refers to is there, whole, however many requests publish it
\* at once or fail; only a crash of the node that keeps the file damages it,
\* and the next publication repairs it (publish_blob).
KnownIsStored == CacheTypeOK /\ (known => object = "good" \/ (damaged /\ object = "cut"))

\* While the object is whole, a loader that asks for the archive gets it
\* unless a fault stops it: no death leaves the lock behind, and an archive a
\* crash damaged is fetched anew.
ArchiveIsObtained ==
    \A l \in Loaders :
        \A n \in 0..MaxFaults :
            (fetch[l].stage = "waiting" /\ object = "good" /\ faults = n)
                ~> (fetch[l].stage = "obtained" \/ faults > n)

=============================================================================
