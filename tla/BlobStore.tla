----------------------------- MODULE BlobStore -----------------------------
(* Media bytes and the rows that register them.  Uploads (assets/upload.py)   *)
(* and the output importer (generation/importer.py) both place bytes first    *)
(* and register the blobs row afterwards, in a transaction of their own.      *)
(* The importers are the successive owners of ONE generation: recovery adopts *)
(* a stale row without changing its attempt (worker/recovery.py), so a        *)
(* stalled owner that wakes up shares the attempt's staging directory with    *)
(* its successor.                                                             *)
EXTENDS ContentDisk

CONSTANTS
    Uploads,     \* upload requests
    Importers,   \* workers that may come to own the generation
    Output,      \* the content the executor produced
    Torn,        \* the content of a half-written staging file
    Executors    \* which executors the generation may run on

ASSUME StoreAssumption ==
    /\ Output \in Media /\ Torn \in Media /\ Output # Torn
    /\ "staging" \notin Media
    /\ Executors \subseteq {"fake", "comfy"}

NoMedia == "none"
NoOne == "nobody"

VARIABLES
    active,      \* the project is active
    blobs,       \* rows of table blobs
    assets,      \* uploads whose Asset row is committed
    repairs,     \* uploads that logged BLOB REPAIR for lost bytes
    up,          \* upload -> [pc, media, seen, placed]
    executor, owner, status, take,   \* the generation row and its Take
    staging,     \* the attempt's staging file: "exact", "torn" or "missing"
    imp          \* importer -> [pc, hash, fd]

storeVars == <<active, blobs, assets, repairs, up>>
importVars == <<executor, owner, status, take, staging, imp>>

UploadPcs == {"idle", "streamed", "checked", "replacing", "placed",
              "done", "failed"}
ImportPcs == {"idle", "drive", "writing", "staged", "importing", "hashed",
              "replacing", "placed", "published", "done", "failed", "stopped"}

StoreTypeOK ==
    /\ DiskTypeOK
    /\ active \in BOOLEAN /\ blobs \subseteq BlobPaths
    /\ assets \subseteq Uploads /\ repairs \subseteq Uploads
    /\ up \in [Uploads -> [pc : UploadPcs, media : Media \cup {NoMedia},
                           seen : BOOLEAN, placed : BOOLEAN]]
    /\ executor \in Executors
    /\ owner \in Importers \cup {NoOne}
    /\ status \in {"running", "importing", "succeeded"}
    /\ take \in Media \cup {NoMedia}
    /\ staging \in {"exact", "torn", "missing"}
    /\ imp \in [Importers -> [pc : ImportPcs, hash : Media \cup {NoMedia},
                              fd : Media \cup {"closed", "staging", "gone"}]]

StoreInit ==
    /\ active = TRUE /\ blobs = {} /\ assets = {} /\ repairs = {}
    /\ up = [u \in Uploads |-> [pc |-> "idle", media |-> NoMedia,
                                seen |-> FALSE, placed |-> FALSE]]
    /\ executor \in Executors
    /\ owner = NoOne /\ status = "running" /\ take = NoMedia
    /\ staging = "missing"
    /\ imp = [i \in Importers |-> [pc |-> "idle", hash |-> NoMedia,
                                   fd |-> "closed"]]

-----------------------------------------------------------------------------
(* Uploads                                                                    *)

UploadAt(u, pc) == up[u].pc = pc
SetUpload(u, r) == up' = [up EXCEPT ![u] = r]

(* Phase 1 and the stream: the project is active, the bytes are hashed while  *)
(* they are written to a temp file of the request's own.                      *)
StreamToTemp(u, m) ==
    /\ UploadAt(u, "idle") /\ active
    /\ SetUpload(u, [up[u] EXCEPT !.pc = "streamed", !.media = m])
    /\ UNCHANGED <<disk, lost, active, blobs, assets, repairs, importVars>>

(* Is the row registered?  Read in a short session BEFORE the bytes are placed.*)
CheckRegistered(u) ==
    /\ UploadAt(u, "streamed")
    /\ SetUpload(u, [up[u] EXCEPT !.pc = "checked",
                                  !.seen = up[u].media \in blobs])
    /\ UNCHANGED <<disk, lost, active, blobs, assets, repairs, importVars>>

(* place(): an identical verified file wins, anything else is replaced.       *)
UploadInspect(u) ==
    /\ UploadAt(u, "checked")
    /\ SetUpload(u, [up[u] EXCEPT
          !.pc = IF HashMatches(up[u].media) THEN "placed" ELSE "replacing",
          !.placed = FALSE])
    /\ UNCHANGED <<disk, lost, active, blobs, assets, repairs, importVars>>

(* Mutant: a copy in place instead of a rename, caught half-way.              *)
CopyInPlace(u) ==
    /\ UploadAt(u, "replacing")
    /\ disk' = [disk EXCEPT ![up[u].media] = "corrupt"]
    /\ UNCHANGED <<lost, storeVars, importVars>>

(* os.replace, or the retry loop finding that a concurrent placer converged;  *)
(* both answer True.                                                          *)
UploadReplace(u) ==
    /\ UploadAt(u, "replacing")
    /\ disk' = [disk EXCEPT ![up[u].media] = "exact"]
    /\ SetUpload(u, [up[u] EXCEPT !.pc = "placed", !.placed = TRUE])
    /\ UNCHANGED <<lost, active, blobs, assets, repairs, importVars>>

(* Mutant: the row is registered before the bytes are in place.               *)
CommitBeforePlace(u) ==
    /\ UploadAt(u, "checked") /\ active
    /\ blobs' = blobs \cup {up[u].media}
    /\ assets' = assets \cup {u}
    /\ UNCHANGED <<disk, lost, active, repairs, up, importVars>>

(* Phase 3: one transaction re-checks the project, converges the row and      *)
(* creates the Asset; the repair of registered bytes is logged.               *)
UploadCommit(u) ==
    /\ UploadAt(u, "placed") /\ active
    /\ blobs' = blobs \cup {up[u].media}
    /\ assets' = assets \cup {u}
    /\ repairs' = IF up[u].placed /\ up[u].seen
                  THEN repairs \cup {u} ELSE repairs
    /\ SetUpload(u, [up[u] EXCEPT !.pc = "done"])
    /\ UNCHANGED <<disk, lost, active, importVars>>

(* Any exception or a dead process: the temp goes, what was placed stays.     *)
UploadFail(u) ==
    /\ up[u].pc \in {"streamed", "checked", "replacing", "placed"}
    /\ SetUpload(u, [up[u] EXCEPT !.pc = "failed"])
    /\ UNCHANGED <<disk, lost, active, blobs, assets, repairs, importVars>>

DeleteProject ==
    /\ active /\ active' = FALSE
    /\ UNCHANGED <<disk, lost, blobs, assets, repairs, up, importVars>>

-----------------------------------------------------------------------------
(* Staging and import of the generation's output                              *)

ImportAt(i, pc) == imp[i].pc = pc
Goto(i, pc) == imp' = [imp EXCEPT ![i].pc = pc]
Owned(i) == owner = i

(* The first owner claims; a later one adopts the row after a stall, keeping  *)
(* the attempt and so the staging directory.                                  *)
Adopt(i) ==
    /\ ImportAt(i, "idle") /\ status # "succeeded"
    /\ owner' = i
    /\ Goto(i, "drive")
    /\ UNCHANGED <<disk, lost, storeVars, executor, status, take, staging>>

(* fake fetch_outputs: write_bytes truncates the shared file ...              *)
FakeOpen(i) ==
    /\ executor = "fake" /\ ImportAt(i, "drive")
    /\ staging' = "torn"
    /\ imp' = [imp EXCEPT ![i].pc = "writing", ![i].fd = "staging"]
    /\ UNCHANGED <<disk, lost, storeVars, executor, owner, status, take>>

(* ... and completes whatever file the handle refers to by then.              *)
FakeClose(i) ==
    /\ ImportAt(i, "writing")
    /\ staging' = IF imp[i].fd = "staging" THEN "exact" ELSE staging
    /\ disk' = IF imp[i].fd \in Media
               THEN [disk EXCEPT ![imp[i].fd] =
                       IF imp[i].fd = Output THEN "exact" ELSE "corrupt"]
               ELSE disk
    /\ imp' = [imp EXCEPT ![i].pc = "staged", ![i].fd = "closed"]
    /\ UNCHANGED <<lost, storeVars, executor, owner, status, take>>

(* The fenced transition to importing: after the fetch for the fake executor, *)
(* before it for Comfy.                                                       *)
EnterImporting(i) ==
    /\ \/ executor = "fake" /\ ImportAt(i, "staged")
       \/ executor = "comfy" /\ ImportAt(i, "drive")
    /\ IF Owned(i) /\ status # "succeeded"
       THEN /\ status' = "importing"
            /\ Goto(i, IF executor = "fake" THEN "importing" ELSE "staged")
       ELSE /\ Goto(i, "stopped") /\ UNCHANGED status
    /\ UNCHANGED <<disk, lost, storeVars, executor, owner, take, staging>>

(* Comfy: the download goes to a unique temp and is hard-linked onto the      *)
(* shared name, which appears complete or already holds identical bytes.      *)
PublishNoClobber(i) ==
    /\ executor = "comfy" /\ ImportAt(i, "staged")
    /\ staging' = "exact"
    /\ Goto(i, "importing")
    /\ UNCHANGED <<disk, lost, storeVars, executor, owner, status, take>>

(* Phase one of the importer: hash the staged file; an absent or empty file,  *)
(* or one whose media type the contract refuses, fails the import.            *)
HashStaged(i) ==
    /\ ImportAt(i, "importing")
    /\ \/ /\ staging # "missing"
          /\ imp' = [imp EXCEPT ![i].pc = "hashed",
                     ![i].hash = IF staging = "exact" THEN Output ELSE Torn]
       \/ /\ staging # "exact" /\ Goto(i, "failed")
    /\ UNCHANGED <<disk, lost, storeVars, executor, owner, status, take,
                   staging>>

(* Handles still open on the staging file follow it to its new name.          *)
Moved(to) == [j \in Importers |->
                IF imp[j].fd = "staging" THEN [imp[j] EXCEPT !.fd = to]
                ELSE imp[j]]

(* place(): the staged file is dropped in favour of an identical winner ...   *)
ImportInspect(i) ==
    /\ ImportAt(i, "hashed")
    /\ IF HashMatches(imp[i].hash)
       THEN /\ staging' = "missing"
            /\ imp' = [Moved("gone") EXCEPT ![i].pc = "placed"]
       ELSE /\ Goto(i, "replacing") /\ UNCHANGED staging
    /\ UNCHANGED <<disk, lost, storeVars, executor, owner, status, take>>

(* ... or renamed onto the path, never hashed again; a vanished source raises.*)
ImportReplace(i) ==
    /\ ImportAt(i, "replacing")
    /\ IF staging = "missing"
       THEN /\ Goto(i, "failed") /\ UNCHANGED <<disk, staging>>
       ELSE /\ disk' = [disk EXCEPT ![imp[i].hash] =
                  IF (imp[i].hash = Output) = (staging = "exact")
                  THEN "exact" ELSE "corrupt"]
            /\ staging' = "missing"
            /\ imp' = [Moved(imp[i].hash) EXCEPT ![i].pc = "placed"]
    /\ UNCHANGED <<lost, storeVars, executor, owner, status, take>>

(* Phase two: lease, owner, attempt and status are verified in the            *)
(* transaction that inserts the rows; an existing Take wins.                  *)
PublishTake(i) ==
    /\ ImportAt(i, "placed")
    /\ IF Owned(i) /\ status = "importing"
       THEN /\ blobs' = blobs \cup {imp[i].hash}
            /\ take' = IF take = NoMedia THEN imp[i].hash ELSE take
            /\ Goto(i, "published")
       ELSE Goto(i, "stopped") /\ UNCHANGED <<blobs, take>>
    /\ UNCHANGED <<disk, lost, active, assets, repairs, up,
                   executor, owner, status, staging>>

(* succeeded (fenced), then the staged file is unlinked; the fake drive       *)
(* ignores the outcome of the transition.                                     *)
FinishImport(i) ==
    /\ ImportAt(i, "published")
    /\ status' = IF Owned(i) THEN "succeeded" ELSE status
    /\ IF Owned(i) \/ executor = "fake"
       THEN /\ staging' = "missing"
            /\ imp' = [Moved("gone") EXCEPT ![i].pc = "done"]
       ELSE Goto(i, "failed") /\ UNCHANGED staging
    /\ UNCHANGED <<disk, lost, storeVars, executor, owner, take>>

ImporterDies(i) ==
    /\ imp[i].pc \notin {"idle", "done", "failed", "stopped"}
    /\ imp' = [imp EXCEPT ![i].pc = "stopped", ![i].fd = "closed"]
    /\ UNCHANGED <<disk, lost, storeVars, executor, owner, status, take,
                   staging>>

StoreStep ==
    \/ \E u \in Uploads : 
          \/ \E m \in Media \ {Torn} : StreamToTemp(u, m)
          \/ CheckRegistered(u) \/ UploadInspect(u) \/ UploadReplace(u)
          \/ UploadCommit(u) \/ UploadFail(u)
    \/ DeleteProject
    \/ \E i \in Importers :
          \/ Adopt(i) \/ FakeOpen(i) \/ FakeClose(i) \/ EnterImporting(i)
          \/ PublishNoClobber(i) \/ HashStaged(i) \/ ImportInspect(i)
          \/ ImportReplace(i) \/ PublishTake(i) \/ FinishImport(i)
          \/ ImporterDies(i)

StoreFault ==
    /\ \E m \in Media : DiskFault(m)
    /\ UNCHANGED <<storeVars, importVars>>

StoreVars == <<disk, lost, storeVars, importVars>>

-----------------------------------------------------------------------------
(* A registered row has its exact bytes on disk unless a disk fault took      *)
(* them: uploads and importers of the same content, dying anywhere, never     *)
(* register what is not there.                                                *)
RegisteredBytesKept ==
    \A m \in blobs : disk[m] = "exact" \/ m \in lost

(* BLOB REPAIR is logged only for bytes a disk fault took: two writers that   *)
(* converge on the same content are not reported as a repair                  *)
(* (assets/upload.py: a row that appears only after the check is ordinary     *)
(* concurrent convergence).                                                   *)
RepairsAreHonest == \A u \in repairs : up[u].media \in lost

(* The Take that is published is the executor's whole output, whoever else    *)
(* still writes, moves or unlinks the shared staging file.                    *)
TakeIsWhole == take # NoMedia => take = Output

(* No step of the program spoils bytes that are in place, registered or not.  *)
PlacedBytesStay ==
    [][\A m \in BlobPaths : disk[m] = "exact" /\ disk'[m] # "exact"
                          => m \in lost' \ lost]_StoreVars

(* The byte store keeps its word: what is registered is there, what is        *)
(* reported as repaired was lost, and a Take is a whole output.               *)
BytesKept == RegisteredBytesKept /\ RepairsAreHonest /\ TakeIsWhole
=============================================================================
