---------------------------- MODULE Backup_proofs ----------------------------
(***************************************************************************)
(* Proofs about the byte store, the generation requests and the backup of  *)
(* a running instance, for every number of uploads, importers, requests,   *)
(* releases and commands, and every number of disk faults: bytes are there *)
(* before a row names them and stay until a disk fault takes them, so a    *)
(* backup finds everything its snapshot names and implements CertifiedCopy.*)
(*                                                                         *)
(* The import of one generation by two owners at once is proved for the    *)
(* Comfy executor only (OneWriter): the fake executor truncates the shared *)
(* staging file in place, so two owners of a fake generation may publish a *)
(* torn file.                                                              *)
(***************************************************************************)
EXTENDS Backup, TLAPS

USE StoreAssumption

OneWriter == "fake" \notin Executors \/ \A i, j \in Importers : i = j

\* The bytes at p are the ones its name says, or a disk fault took them.
Kept(p) == disk[p] = "exact" \/ p \in lost

-----------------------------------------------------------------------------
(* The inductive invariant: uploads and imports.                           *)

UploadRow == [pc : UploadPcs, media : Media \cup {NoMedia}, seen : BOOLEAN, placed : BOOLEAN]
ImportRow == [pc : ImportPcs, hash : Media \cup {NoMedia}, fd : Media \cup {"closed", "staging", "gone"}]

UploadOK(u) ==
    /\ IF up[u].pc = "idle" THEN ~ up[u].seen ELSE up[u].media \in Media
    /\ up[u].seen => up[u].media \in blobs
    /\ up[u].pc = "replacing" /\ up[u].seen => up[u].media \in lost
    /\ up[u].pc = "placed" =>
         /\ Kept(up[u].media)
         /\ up[u].placed /\ up[u].seen => up[u].media \in lost
    /\ u \in assets => up[u].pc = "done" /\ up[u].media \in blobs
    /\ u \in repairs => up[u].pc = "done" /\ up[u].media \in lost

ImportOK(i) ==
    /\ imp[i].hash \in {NoMedia, Output}
    /\ imp[i].pc \in {"hashed", "replacing", "placed", "published"} => imp[i].hash = Output
    /\ imp[i].pc \in {"placed", "published"} => Kept(Output)
    /\ imp[i].fd \in {"closed", "staging"}
    /\ imp[i].fd = "staging" <=> imp[i].pc = "writing"
    /\ executor = "comfy" => imp[i].pc # "writing"
    /\ executor = "fake" /\ imp[i].pc \in {"staged", "importing", "hashed", "replacing"} =>
         staging = "exact"

MediaInv ==
    /\ StoreTypeOK
    /\ \A u \in Uploads : UploadOK(u)
    /\ \A i \in Importers : ImportOK(i)
    /\ executor = "comfy" => staging # "torn"
    /\ \A m \in blobs : Kept(m)
    /\ take \in {NoMedia, Output} /\ (take # NoMedia => take \in blobs)

\* The types the invariant gives, in the form the proofs below use them.
LEMMA MediaTypes ==
    ASSUME MediaInv
    PROVE  /\ disk \in [Paths -> FileStates] /\ lost \subseteq Paths /\ blobs \subseteq Paths
           /\ up \in [Uploads -> UploadRow] /\ imp \in [Importers -> ImportRow]
           /\ Media \subseteq Paths /\ Output \in Media /\ Output \in Paths
           /\ \A u \in Uploads : up[u] \in UploadRow /\ UploadOK(u)
           /\ \A i \in Importers : imp[i] \in ImportRow /\ ImportOK(i)
BY DEF MediaInv, StoreTypeOK, DiskTypeOK, UploadRow, ImportRow, Paths, BlobPaths

\* What every step keeps of the store: types, faults, registered rows, and the
\* bytes that are there.
Grows ==
    /\ disk' \in [Paths -> FileStates] /\ lost' \subseteq Paths
    /\ lost \subseteq lost' /\ blobs \subseteq blobs'
    /\ \A p \in Paths : Kept(p) => Kept(p)'
    /\ \A p \in Paths : disk[p] = "exact" => disk'[p] = "exact" \/ p \in lost' \ lost

\* The rows a step registers have their bytes.
Registers == blobs' \subseteq BlobPaths /\ \A m \in blobs' : Kept(m)'

\* Steps that leave the disk alone, or only write exact bytes.
LEMMA GrowsQuietly ==
    ASSUME MediaInv, lost' = lost, blobs \subseteq blobs',
           \/ disk' = disk
           \/ /\ disk' \in [Paths -> FileStates]
              /\ \A p \in Paths : disk'[p] = disk[p] \/ disk'[p] = "exact"
    PROVE  Grows
<1>1. disk \in [Paths -> FileStates] /\ lost \subseteq Paths
  BY MediaTypes
<1> QED
  BY <1>1 DEF Grows, Kept

\* What holds of an upload still holds when only the rest of the store moves on.
LEMMA UploadFrame ==
    ASSUME MediaInv, Grows, NEW u \in Uploads, UploadOK(u), up'[u] = up[u],
           u \in assets' <=> u \in assets, u \in repairs' <=> u \in repairs
    PROVE  UploadOK(u)'
<1>1. up[u].pc = "placed" => up[u].media \in Paths
  BY MediaTypes DEF UploadOK
<1> QED
  BY <1>1 DEF UploadOK, Grows

\* One upload changes.
LEMMA UploadStepInv ==
    ASSUME MediaInv, Grows, Registers, NEW u \in Uploads, NEW r \in UploadRow,
           up' = [up EXCEPT ![u] = r], UploadOK(u)', UNCHANGED <<active, importVars>>,
           assets' \subseteq Uploads, repairs' \subseteq Uploads,
           \A v \in Uploads \ {u} : (v \in assets' <=> v \in assets)
                                    /\ (v \in repairs' <=> v \in repairs)
    PROVE  MediaInv'
<1>t. up \in [Uploads -> UploadRow] /\ imp \in [Importers -> ImportRow] /\ Output \in Paths
  BY MediaTypes
<1>1. up' \in [Uploads -> UploadRow] /\ \A v \in Uploads \ {u} : up'[v] = up[v]
  BY <1>t
<1>2. \A v \in Uploads : UploadOK(v)'
  BY <1>1, UploadFrame, MediaTypes
<1>i. UNCHANGED <<executor, owner, status, take, staging, imp, active>>
  BY DEF importVars
<1>3. \A i \in Importers : ImportOK(i)'
  BY <1>t, <1>i DEF MediaInv, ImportOK, Grows
<1>4. StoreTypeOK'
  BY <1>1, <1>i DEF MediaInv, StoreTypeOK, DiskTypeOK, UploadRow, Grows, Registers
<1> QED
  BY <1>2, <1>3, <1>4, <1>i DEF MediaInv, Grows, Registers

\* No upload and no import changes.
LEMMA MediaFrame ==
    ASSUME MediaInv, Grows, Registers, UNCHANGED <<active, assets, repairs, up, importVars>>
    PROVE  MediaInv'
<1>t. up \in [Uploads -> UploadRow] /\ imp \in [Importers -> ImportRow] /\ Output \in Paths
  BY MediaTypes
<1>2. \A v \in Uploads : UploadOK(v)'
  BY UploadFrame, MediaTypes
<1>i. UNCHANGED <<executor, owner, status, take, staging, imp>>
  BY DEF importVars
<1>3. \A i \in Importers : ImportOK(i)'
  BY <1>t, <1>i DEF MediaInv, ImportOK, Grows
<1>4. StoreTypeOK'
  BY <1>i DEF MediaInv, StoreTypeOK, DiskTypeOK, Grows, Registers
<1> QED
  BY <1>2, <1>3, <1>4, <1>i DEF MediaInv, Grows, Registers

\* One importer changes; the staging file changes under nobody else's hands,
\* or is never torn.
LEMMA ImportStepInv ==
    ASSUME MediaInv, OneWriter, Grows, Registers, NEW i \in Importers,
           UNCHANGED <<active, assets, repairs, up, executor>>,
           imp' \in [Importers -> ImportRow], \A j \in Importers \ {i} : imp'[j] = imp[j],
           ImportOK(i)', owner' \in Importers \cup {NoOne},
           status' \in {"running", "importing", "succeeded"},
           staging' \in {"exact", "torn", "missing"}, executor = "comfy" => staging' # "torn",
           take' \in {NoMedia, Output}, take' # NoMedia => take' \in blobs'
    PROVE  MediaInv'
<1>t. up \in [Uploads -> UploadRow] /\ Output \in Paths /\ Output \in Media
      /\ executor \in Executors
  BY MediaTypes DEF MediaInv, StoreTypeOK
<1>2. \A v \in Uploads : UploadOK(v)'
  BY UploadFrame, MediaTypes
<1>3. ASSUME NEW j \in Importers PROVE ImportOK(j)'
  <2>1. CASE j = i
    BY <2>1
  <2>2. CASE j # i
    <3>1. executor # "fake" /\ imp'[j] = imp[j] /\ ImportOK(j)
      BY <1>t, <2>2, MediaTypes DEF OneWriter
    <3> QED
      BY <1>t, <3>1 DEF ImportOK, Grows
  <2> QED
    BY <2>1, <2>2
<1>4. StoreTypeOK'
  BY <1>t DEF MediaInv, StoreTypeOK, DiskTypeOK, ImportRow, Grows, Registers
<1> QED
  BY <1>2, <1>3, <1>4 DEF MediaInv, Grows, Registers

-----------------------------------------------------------------------------
(* Uploads: one lemma per group of steps.                                  *)

MediaOK == MediaInv' /\ Grows

\* The steps of an upload that only move it on.
LEMMA UploadMovesOK ==
    ASSUME MediaInv, NEW u \in Uploads,
           \/ \E m \in Media \ {Torn} : StreamToTemp(u, m)
           \/ CheckRegistered(u) \/ UploadInspect(u) \/ UploadFail(u)
    PROVE  MediaOK
<1>t. up[u] \in UploadRow /\ UploadOK(u) /\ up \in [Uploads -> UploadRow]
  BY MediaTypes
<1>0. UNCHANGED <<disk, lost, active, blobs, assets, repairs, importVars>>
  BY DEF StreamToTemp, CheckRegistered, UploadInspect, UploadFail
<1>g. Grows /\ Registers
  BY <1>0, GrowsQuietly DEF MediaInv, StoreTypeOK, Registers, Kept
<1>h. assets \subseteq Uploads /\ repairs \subseteq Uploads
  BY DEF MediaInv, StoreTypeOK
<1>1. ASSUME NEW r \in UploadRow, up' = [up EXCEPT ![u] = r],
             UploadOK(u)'
      PROVE  MediaOK
  BY <1>0, <1>1, <1>g, <1>h, UploadStepInv DEF MediaOK
<1>2. ASSUME NEW m \in Media, StreamToTemp(u, m) PROVE MediaOK
  <2>1. PICK r : r = [up[u] EXCEPT !.pc = "streamed", !.media = m]
    OBVIOUS
  <2>2. r \in UploadRow /\ r.pc = "streamed" /\ r.media = m /\ r.seen = up[u].seen
    BY <1>t, <2>1 DEF UploadRow, UploadPcs
  <2>3. up' = [up EXCEPT ![u] = r] /\ up'[u] = r /\ up[u].pc = "idle"
    BY <1>t, <1>2, <2>1 DEF StreamToTemp, SetUpload, UploadAt
  <2>4. ~ up[u].seen
    BY <1>t, <2>3 DEF UploadOK
  <2>5. UploadOK(u)'
    BY <1>0, <1>t, <2>2, <2>3, <2>4 DEF UploadOK
  <2> QED
    BY <1>1, <2>2, <2>3, <2>5
<1>3. CASE CheckRegistered(u)
  <2>b. PICK b \in BOOLEAN : b <=> (up[u].media \in blobs)
    OBVIOUS
  <2>1. PICK r : r = [up[u] EXCEPT !.pc = "checked", !.seen = b]
    OBVIOUS
  <2>2. r \in UploadRow /\ r.pc = "checked" /\ r.media = up[u].media /\ r.seen = b
    BY <1>t, <2>1 DEF UploadRow, UploadPcs
  <2>3. up' = [up EXCEPT ![u] = r] /\ up'[u] = r /\ up[u].pc = "streamed"
    BY <1>t, <1>3, <2>b, <2>1 DEF CheckRegistered, SetUpload, UploadAt
  <2>4. UploadOK(u)'
    BY <1>0, <1>t, <2>b, <2>2, <2>3 DEF UploadOK
  <2> QED
    BY <1>1, <2>2, <2>3, <2>4
<1>4. CASE UploadInspect(u)
  <2>p. PICK p \in {"placed", "replacing"} :
          p = IF HashMatches(up[u].media) THEN "placed" ELSE "replacing"
    OBVIOUS
  <2>1. PICK r : r = [up[u] EXCEPT !.pc = p, !.placed = FALSE]
    OBVIOUS
  <2>2. /\ r \in UploadRow /\ r.pc = p /\ r.media = up[u].media
        /\ r.seen = up[u].seen /\ ~ r.placed
    BY <1>t, <2>1 DEF UploadRow, UploadPcs
  <2>3. up' = [up EXCEPT ![u] = r] /\ up'[u] = r /\ up[u].pc = "checked"
    BY <1>t, <1>4, <2>p, <2>1 DEF UploadInspect, SetUpload, UploadAt
  <2>4. p = "placed" => Kept(up[u].media)
    BY <2>p DEF HashMatches, Kept
  <2>5. p = "replacing" /\ up[u].seen => up[u].media \in lost
    BY <1>t, <2>p DEF HashMatches, Kept, UploadOK, MediaInv
  <2>6. UploadOK(u)'
    BY <1>0, <1>t, <2>2, <2>3, <2>4, <2>5 DEF UploadOK, Kept
  <2> QED
    BY <1>1, <2>2, <2>3, <2>6
<1>5. CASE UploadFail(u)
  <2>1. PICK r : r = [up[u] EXCEPT !.pc = "failed"]
    OBVIOUS
  <2>2. /\ r \in UploadRow /\ r.pc = "failed" /\ r.media = up[u].media
        /\ r.seen = up[u].seen
    BY <1>t, <2>1 DEF UploadRow, UploadPcs
  <2>3. up' = [up EXCEPT ![u] = r] /\ up'[u] = r
        /\ up[u].pc \in {"streamed", "checked", "replacing", "placed"}
    BY <1>t, <1>5, <2>1 DEF UploadFail, SetUpload
  <2>4. UploadOK(u)'
    BY <1>0, <1>t, <2>2, <2>3 DEF UploadOK
  <2> QED
    BY <1>1, <2>2, <2>3, <2>4
<1> QED
  BY <1>2, <1>3, <1>4, <1>5

\* The bytes are put in place, ...
LEMMA UploadReplaceOK ==
    ASSUME MediaInv, NEW u \in Uploads, UploadReplace(u) PROVE MediaOK
<1>t. /\ up[u] \in UploadRow /\ UploadOK(u) /\ up \in [Uploads -> UploadRow]
      /\ disk \in [Paths -> FileStates] /\ Media \subseteq Paths
  BY MediaTypes
<1>0. UNCHANGED <<lost, active, blobs, assets, repairs, importVars>>
      /\ up[u].pc = "replacing" /\ disk' = [disk EXCEPT ![up[u].media] = "exact"]
  BY DEF UploadReplace, UploadAt
<1>m. up[u].media \in Media
  BY <1>t, <1>0 DEF UploadOK
<1>d. /\ disk' \in [Paths -> FileStates] /\ disk'[up[u].media] = "exact"
      /\ \A p \in Paths : disk'[p] = disk[p] \/ disk'[p] = "exact"
  BY <1>t, <1>0, <1>m DEF FileStates
<1>g. Grows
  BY <1>0, <1>d, GrowsQuietly
<1>r. Registers
  BY <1>0, <1>g DEF MediaInv, StoreTypeOK, Registers, Grows, Paths
<1>1. PICK r : r = [up[u] EXCEPT !.pc = "placed", !.placed = TRUE]
  OBVIOUS
<1>2. /\ r \in UploadRow /\ r.pc = "placed" /\ r.media = up[u].media
      /\ r.seen = up[u].seen
  BY <1>t, <1>1 DEF UploadRow, UploadPcs
<1>3. up' = [up EXCEPT ![u] = r] /\ up'[u] = r
  BY <1>t, <1>1 DEF UploadReplace, SetUpload
<1>4. UploadOK(u)'
  BY <1>0, <1>t, <1>m, <1>d, <1>2, <1>3 DEF UploadOK, Kept
<1>h. assets' \subseteq Uploads /\ repairs' \subseteq Uploads
  BY <1>0 DEF MediaInv, StoreTypeOK
<1> QED
  BY <1>0, <1>g, <1>r, <1>2, <1>3, <1>4, <1>h, UploadStepInv DEF MediaOK

\* ... and registered; a repair of registered bytes is one of lost bytes.
LEMMA UploadCommitOK ==
    ASSUME MediaInv, NEW u \in Uploads, UploadCommit(u) PROVE MediaOK
<1>t. /\ up[u] \in UploadRow /\ UploadOK(u) /\ up \in [Uploads -> UploadRow]
      /\ disk \in [Paths -> FileStates] /\ Media \subseteq Paths
  BY MediaTypes
<1>0. /\ UNCHANGED <<disk, lost, active, importVars>> /\ up[u].pc = "placed"
      /\ blobs' = blobs \cup {up[u].media} /\ assets' = assets \cup {u}
      /\ repairs' = IF up[u].placed /\ up[u].seen THEN repairs \cup {u} ELSE repairs
  BY DEF UploadCommit, UploadAt
<1>m. up[u].media \in Media /\ Kept(up[u].media)
  BY <1>t, <1>0 DEF UploadOK
<1>g. Grows
  BY <1>0, GrowsQuietly
<1>r. Registers
  BY <1>0, <1>m DEF MediaInv, StoreTypeOK, Registers, Kept, BlobPaths
<1>1. PICK r : r = [up[u] EXCEPT !.pc = "done"]
  OBVIOUS
<1>2. /\ r \in UploadRow /\ r.pc = "done" /\ r.media = up[u].media
      /\ r.seen = up[u].seen
  BY <1>t, <1>1 DEF UploadRow, UploadPcs
<1>3. up' = [up EXCEPT ![u] = r] /\ up'[u] = r
  BY <1>t, <1>1 DEF UploadCommit, SetUpload
<1>4. u \in repairs' => up[u].media \in lost
  BY <1>0, <1>t DEF UploadOK
<1>5. UploadOK(u)'
  BY <1>0, <1>t, <1>m, <1>2, <1>3, <1>4 DEF UploadOK
<1>h. /\ assets' \subseteq Uploads /\ repairs' \subseteq Uploads
      /\ \A v \in Uploads \ {u} : (v \in assets' <=> v \in assets)
                                  /\ (v \in repairs' <=> v \in repairs)
  BY <1>0 DEF MediaInv, StoreTypeOK
<1> QED
  BY <1>0, <1>g, <1>r, <1>2, <1>3, <1>5, <1>h, UploadStepInv DEF MediaOK

-----------------------------------------------------------------------------
(* The import of the output.                                               *)

\* A step of an importer that leaves disk, rows and Take alone.
LEMMA ImportMoveInv ==
    ASSUME MediaInv, OneWriter, NEW i \in Importers, NEW r \in ImportRow,
           UNCHANGED <<disk, lost, storeVars, executor, take>>,
           imp' = [imp EXCEPT ![i] = r], ImportOK(i)', owner' \in Importers \cup {NoOne},
           status' \in {"running", "importing", "succeeded"},
           staging' \in {"exact", "torn", "missing"}, executor = "comfy" => staging' # "torn"
    PROVE  MediaOK
<1>0. UNCHANGED <<active, blobs, assets, repairs, up>>
  BY DEF storeVars
<1>g. Grows
  BY <1>0, GrowsQuietly
<1>r. Registers
  BY <1>0, <1>g DEF MediaInv, StoreTypeOK, Registers, Grows, Paths
<1>1. imp' \in [Importers -> ImportRow] /\ \A j \in Importers \ {i} : imp'[j] = imp[j]
  BY MediaTypes
<1>2. take' \in {NoMedia, Output} /\ (take' # NoMedia => take' \in blobs')
  BY <1>0 DEF MediaInv
<1> QED
  BY <1>0, <1>g, <1>r, <1>1, <1>2, ImportStepInv DEF MediaOK

\* While an importer reads, renames or unlinks the staging file, nobody holds
\* it open for writing: under Comfy nobody ever does, and the fake executor's
\* only importer is past its fetch.
LEMMA NobodyWrites ==
    ASSUME MediaInv, OneWriter, NEW i \in Importers, imp[i].pc # "writing"
    PROVE  \A to : Moved(to) = imp
<1>t. imp \in [Importers -> ImportRow] /\ \A j \in Importers : ImportOK(j)
  BY MediaTypes
<1>e. executor \in {"fake", "comfy"} /\ executor \in Executors
  BY DEF MediaInv, StoreTypeOK
<1>1. \A j \in Importers : imp[j].fd # "staging"
  BY <1>t, <1>e DEF OneWriter, ImportOK
<1> QED
  BY <1>t, <1>1 DEF Moved

\* What a plain move of an importer does to its row.
LEMMA ImportGoto ==
    ASSUME MediaInv, NEW i \in Importers, NEW p \in ImportPcs, Goto(i, p)
    PROVE  \E r \in ImportRow : /\ imp' = [imp EXCEPT ![i] = r] /\ imp'[i] = r
                                /\ r.pc = p /\ r.hash = imp[i].hash /\ r.fd = imp[i].fd
<1>t. imp[i] \in ImportRow /\ imp \in [Importers -> ImportRow]
  BY MediaTypes
<1>1. PICK r : r = [imp[i] EXCEPT !.pc = p]
  OBVIOUS
<1>2. r \in ImportRow /\ r.pc = p /\ r.hash = imp[i].hash /\ r.fd = imp[i].fd
  BY <1>t, <1>1 DEF ImportRow
<1>3. imp' = [imp EXCEPT ![i] = r] /\ imp'[i] = r
  BY <1>t, <1>1 DEF Goto
<1> QED
  BY <1>2, <1>3

\* Adoption, the fenced transition, the no-clobber publication and death.
LEMMA ImportMovesOK ==
    ASSUME MediaInv, OneWriter, NEW i \in Importers,
           Adopt(i) \/ EnterImporting(i) \/ PublishNoClobber(i) \/ ImporterDies(i)
    PROVE  MediaOK
<1>t. imp[i] \in ImportRow /\ ImportOK(i) /\ imp \in [Importers -> ImportRow]
  BY MediaTypes
<1>e. /\ executor \in {"fake", "comfy"} /\ owner \in Importers \cup {NoOne}
      /\ status \in {"running", "importing", "succeeded"}
      /\ staging \in {"exact", "torn", "missing"}
      /\ executor = "comfy" => staging # "torn"
  BY DEF MediaInv, StoreTypeOK
<1>1. CASE Adopt(i)
  <2>0. /\ UNCHANGED <<disk, lost, storeVars, executor, status, take, staging>>
        /\ owner' = i /\ imp[i].pc = "idle" /\ Goto(i, "drive")
    BY <1>1 DEF Adopt, ImportAt
  <2>1. PICK r \in ImportRow : /\ imp' = [imp EXCEPT ![i] = r] /\ imp'[i] = r
                               /\ r.pc = "drive" /\ r.hash = imp[i].hash /\ r.fd = imp[i].fd
    BY <2>0, ImportGoto DEF ImportPcs
  <2>2. ImportOK(i)'
    BY <1>t, <2>0, <2>1 DEF ImportOK
  <2> QED
    BY <1>e, <2>0, <2>1, <2>2, ImportMoveInv
<1>2. CASE EnterImporting(i)
  <2>0. /\ UNCHANGED <<disk, lost, storeVars, executor, owner, take, staging>>
        /\ \/ executor = "fake" /\ imp[i].pc = "staged"
           \/ executor = "comfy" /\ imp[i].pc = "drive"
        /\ status' \in {"running", "importing", "succeeded"}
    BY <1>2, <1>e DEF EnterImporting, ImportAt
  <2>p. PICK p \in {"importing", "staged", "stopped"} :
          /\ Goto(i, p)
          /\ p = "importing" => executor = "fake"
          /\ p = "staged" => executor = "comfy"
    BY <1>2, <1>e DEF EnterImporting
  <2>1. PICK r \in ImportRow : /\ imp' = [imp EXCEPT ![i] = r] /\ imp'[i] = r
                               /\ r.pc = p /\ r.hash = imp[i].hash /\ r.fd = imp[i].fd
    BY <2>p, ImportGoto DEF ImportPcs
  <2>2. ImportOK(i)'
    BY <1>t, <2>p, <2>0, <2>1 DEF ImportOK
  <2> QED
    BY <1>e, <2>0, <2>1, <2>2, ImportMoveInv
<1>3. CASE PublishNoClobber(i)
  <2>0. /\ UNCHANGED <<disk, lost, storeVars, executor, owner, status, take>>
        /\ executor = "comfy" /\ imp[i].pc = "staged" /\ staging' = "exact"
        /\ Goto(i, "importing")
    BY <1>3 DEF PublishNoClobber, ImportAt
  <2>1. PICK r \in ImportRow : /\ imp' = [imp EXCEPT ![i] = r] /\ imp'[i] = r
                               /\ r.pc = "importing" /\ r.hash = imp[i].hash /\ r.fd = imp[i].fd
    BY <2>0, ImportGoto DEF ImportPcs
  <2>2. ImportOK(i)'
    BY <1>t, <2>0, <2>1 DEF ImportOK
  <2> QED
    BY <1>e, <2>0, <2>1, <2>2, ImportMoveInv
<1>4. CASE ImporterDies(i)
  <2>0. UNCHANGED <<disk, lost, storeVars, executor, owner, status, take, staging>>
    BY <1>4 DEF ImporterDies
  <2>1. PICK r : r = [imp[i] EXCEPT !.pc = "stopped", !.fd = "closed"]
    OBVIOUS
  <2>2. r \in ImportRow /\ r.pc = "stopped" /\ r.hash = imp[i].hash /\ r.fd = "closed"
    BY <1>t, <2>1 DEF ImportRow, ImportPcs
  <2>3. imp' = [imp EXCEPT ![i] = r] /\ imp'[i] = r
    BY <1>t, <1>4, <2>1 DEF ImporterDies
  <2>4. ImportOK(i)'
    BY <1>t, <2>0, <2>2, <2>3 DEF ImportOK
  <2> QED
    BY <1>e, <2>0, <2>2, <2>3, <2>4, ImportMoveInv
<1> QED
  BY <1>1, <1>2, <1>3, <1>4

\* The fake executor's fetch, and the hashing of what was staged.
LEMMA FetchAndHashOK ==
    ASSUME MediaInv, OneWriter, NEW i \in Importers,
           FakeOpen(i) \/ FakeClose(i) \/ HashStaged(i)
    PROVE  MediaOK
<1>t. imp[i] \in ImportRow /\ ImportOK(i) /\ imp \in [Importers -> ImportRow]
  BY MediaTypes
<1>e. /\ executor \in {"fake", "comfy"} /\ owner \in Importers \cup {NoOne}
      /\ status \in {"running", "importing", "succeeded"}
      /\ staging \in {"exact", "torn", "missing"}
      /\ executor = "comfy" => staging # "torn"
  BY DEF MediaInv, StoreTypeOK
<1>1. CASE FakeOpen(i)
  <2>0. /\ UNCHANGED <<disk, lost, storeVars, executor, owner, status, take>>
        /\ executor = "fake" /\ imp[i].pc = "drive" /\ staging' = "torn"
    BY <1>1 DEF FakeOpen, ImportAt
  <2>1. PICK r : r = [imp[i] EXCEPT !.pc = "writing", !.fd = "staging"]
    OBVIOUS
  <2>2. r \in ImportRow /\ r.pc = "writing" /\ r.hash = imp[i].hash /\ r.fd = "staging"
    BY <1>t, <2>1 DEF ImportRow, ImportPcs
  <2>3. imp' = [imp EXCEPT ![i] = r] /\ imp'[i] = r
    BY <1>t, <1>1, <2>1 DEF FakeOpen
  <2>4. ImportOK(i)'
    BY <1>t, <2>0, <2>2, <2>3 DEF ImportOK
  <2> QED
    BY <1>e, <2>0, <2>2, <2>3, <2>4, ImportMoveInv
<1>2. CASE FakeClose(i)
  <2>0. /\ UNCHANGED <<lost, storeVars, executor, owner, status, take>>
        /\ imp[i].pc = "writing"
    BY <1>2 DEF FakeClose, ImportAt
  <2>f. imp[i].fd = "staging" /\ imp[i].fd \notin Media
    BY <1>t, <2>0 DEF ImportOK
  <2>d. disk' = disk /\ staging' = "exact"
    BY <1>2, <2>f DEF FakeClose
  <2>1. PICK r : r = [imp[i] EXCEPT !.pc = "staged", !.fd = "closed"]
    OBVIOUS
  <2>2. r \in ImportRow /\ r.pc = "staged" /\ r.hash = imp[i].hash /\ r.fd = "closed"
    BY <1>t, <2>1 DEF ImportRow, ImportPcs
  <2>3. imp' = [imp EXCEPT ![i] = r] /\ imp'[i] = r
    BY <1>t, <1>2, <2>1 DEF FakeClose
  <2>4. ImportOK(i)'
    BY <1>t, <2>0, <2>d, <2>2, <2>3 DEF ImportOK
  <2> QED
    BY <1>e, <2>0, <2>d, <2>2, <2>3, <2>4, ImportMoveInv
<1>3. CASE HashStaged(i)
  <2>0. /\ UNCHANGED <<disk, lost, storeVars, executor, owner, status, take, staging>>
        /\ imp[i].pc = "importing"
    BY <1>3 DEF HashStaged, ImportAt
  <2>a. CASE staging # "missing"
              /\ imp' = [imp EXCEPT ![i].pc = "hashed",
                           ![i].hash = IF staging = "exact" THEN Output ELSE Torn]
    <3>s. staging = "exact"
      BY <1>t, <1>e, <2>0, <2>a DEF ImportOK
    <3>1. PICK r : r = [imp[i] EXCEPT !.pc = "hashed", !.hash = Output]
      OBVIOUS
    <3>2. r \in ImportRow /\ r.pc = "hashed" /\ r.hash = Output /\ r.fd = imp[i].fd
      BY <1>t, <3>1 DEF ImportRow, ImportPcs
    <3>3. imp' = [imp EXCEPT ![i] = r] /\ imp'[i] = r
      BY <1>t, <2>a, <3>s, <3>1
    <3>4. ImportOK(i)'
      BY <1>t, <2>0, <3>s, <3>2, <3>3 DEF ImportOK
    <3> QED
      BY <1>e, <2>0, <3>2, <3>3, <3>4, ImportMoveInv
  <2>b. CASE Goto(i, "failed")
    <3>1. PICK r \in ImportRow : /\ imp' = [imp EXCEPT ![i] = r] /\ imp'[i] = r
                                 /\ r.pc = "failed" /\ r.hash = imp[i].hash /\ r.fd = imp[i].fd
      BY <2>b, ImportGoto DEF ImportPcs
    <3>2. ImportOK(i)'
      BY <1>t, <2>0, <3>1 DEF ImportOK
    <3> QED
      BY <1>e, <2>0, <3>1, <3>2, ImportMoveInv
  <2> QED
    BY <1>3, <2>a, <2>b DEF HashStaged
<1> QED
  BY <1>1, <1>2, <1>3

\* place() finds the output in place, and the end of the import.
LEMMA InspectAndFinishOK ==
    ASSUME MediaInv, OneWriter, NEW i \in Importers, ImportInspect(i) \/ FinishImport(i)
    PROVE  MediaOK
<1>t. imp[i] \in ImportRow /\ ImportOK(i) /\ imp \in [Importers -> ImportRow]
  BY MediaTypes
<1>e. /\ executor \in {"fake", "comfy"} /\ owner \in Importers \cup {NoOne}
      /\ status \in {"running", "importing", "succeeded"}
      /\ staging \in {"exact", "torn", "missing"}
      /\ executor = "comfy" => staging # "torn"
  BY DEF MediaInv, StoreTypeOK
<1>1. CASE ImportInspect(i)
  <2>0. /\ UNCHANGED <<disk, lost, storeVars, executor, owner, status, take>>
        /\ imp[i].pc = "hashed" /\ imp[i].hash = Output
    BY <1>1, <1>t DEF ImportInspect, ImportAt, ImportOK
  <2>m. Moved("gone") = imp
    BY <2>0, NobodyWrites
  <2>p. PICK p \in {"placed", "replacing"} :
          /\ Goto(i, p)
          /\ p = "placed" => disk[Output] = "exact" /\ staging' = "missing"
          /\ p = "replacing" => staging' = staging
    BY <1>1, <2>m, <2>0 DEF ImportInspect, HashMatches, Goto
  <2>1. PICK r \in ImportRow : /\ imp' = [imp EXCEPT ![i] = r] /\ imp'[i] = r
                               /\ r.pc = p /\ r.hash = imp[i].hash /\ r.fd = imp[i].fd
    BY <2>p, ImportGoto DEF ImportPcs
  <2>2. ImportOK(i)'
    BY <1>t, <2>p, <2>0, <2>1 DEF ImportOK, Kept
  <2> QED
    BY <1>e, <2>0, <2>p, <2>1, <2>2, ImportMoveInv
<1>2. CASE FinishImport(i)
  <2>0. /\ UNCHANGED <<disk, lost, storeVars, executor, owner, take>>
        /\ imp[i].pc = "published" /\ status' \in {"running", "importing", "succeeded"}
    BY <1>2, <1>e DEF FinishImport, ImportAt
  <2>m. Moved("gone") = imp
    BY <2>0, NobodyWrites
  <2>p. PICK p \in {"done", "failed"} :
          Goto(i, p) /\ (staging' = "missing" \/ staging' = staging)
    BY <1>2, <2>m DEF FinishImport, Goto
  <2>1. PICK r \in ImportRow : /\ imp' = [imp EXCEPT ![i] = r] /\ imp'[i] = r
                               /\ r.pc = p /\ r.hash = imp[i].hash /\ r.fd = imp[i].fd
    BY <2>p, ImportGoto DEF ImportPcs
  <2>2. ImportOK(i)'
    BY <1>t, <2>p, <2>0, <2>1 DEF ImportOK
  <2> QED
    BY <1>e, <2>0, <2>p, <2>1, <2>2, ImportMoveInv
<1> QED
  BY <1>1, <1>2

\* The staged file becomes the stored one: it is the whole output.
LEMMA ImportReplaceOK ==
    ASSUME MediaInv, OneWriter, NEW i \in Importers, ImportReplace(i)
    PROVE  MediaOK
<1>t. /\ imp[i] \in ImportRow /\ ImportOK(i) /\ imp \in [Importers -> ImportRow]
      /\ disk \in [Paths -> FileStates] /\ Output \in Paths
  BY MediaTypes
<1>e. /\ executor \in {"fake", "comfy"} /\ owner \in Importers \cup {NoOne}
      /\ status \in {"running", "importing", "succeeded"}
      /\ staging \in {"exact", "torn", "missing"}
      /\ executor = "comfy" => staging # "torn"
  BY DEF MediaInv, StoreTypeOK
<1>0. /\ UNCHANGED <<lost, storeVars, executor, owner, status, take>>
      /\ imp[i].pc = "replacing" /\ imp[i].hash = Output
  BY <1>t DEF ImportReplace, ImportAt, ImportOK
<1>u. UNCHANGED <<active, blobs, assets, repairs, up>>
  BY <1>0 DEF storeVars
<1>1. CASE staging = "missing"
  <2>0. Goto(i, "failed") /\ UNCHANGED <<disk, staging>>
    BY <1>1 DEF ImportReplace
  <2>1. PICK r \in ImportRow : /\ imp' = [imp EXCEPT ![i] = r] /\ imp'[i] = r
                               /\ r.pc = "failed" /\ r.hash = imp[i].hash /\ r.fd = imp[i].fd
    BY <2>0, ImportGoto DEF ImportPcs
  <2>2. ImportOK(i)'
    BY <1>t, <1>0, <2>0, <2>1 DEF ImportOK
  <2> QED
    BY <1>e, <1>0, <2>0, <2>1, <2>2, ImportMoveInv
<1>2. CASE staging # "missing"
  <2>s. staging = "exact"
    BY <1>t, <1>e, <1>0, <1>2 DEF ImportOK
  <2>m. \A to : Moved(to) = imp
    BY <1>0, NobodyWrites
  <2>0. disk' = [disk EXCEPT ![Output] = "exact"] /\ staging' = "missing" /\ Goto(i, "placed")
    BY <1>0, <1>2, <2>s, <2>m DEF ImportReplace, Goto
  <2>1. PICK r \in ImportRow : /\ imp' = [imp EXCEPT ![i] = r] /\ imp'[i] = r
                               /\ r.pc = "placed" /\ r.hash = imp[i].hash /\ r.fd = imp[i].fd
    BY <2>0, ImportGoto DEF ImportPcs
  <2>d. /\ disk' \in [Paths -> FileStates] /\ disk'[Output] = "exact"
        /\ \A p \in Paths : disk'[p] = disk[p] \/ disk'[p] = "exact"
    BY <1>t, <2>0 DEF FileStates
  <2>g. Grows
    BY <1>0, <1>u, <2>d, GrowsQuietly
  <2>r. Registers
    BY <1>u, <2>g DEF MediaInv, StoreTypeOK, Registers, Grows, Paths
  <2>2. ImportOK(i)'
    BY <1>t, <1>0, <2>0, <2>d, <2>1 DEF ImportOK, Kept
  <2>3. imp' \in [Importers -> ImportRow] /\ \A j \in Importers \ {i} : imp'[j] = imp[j]
    BY <1>t, <2>1
  <2>4. take' \in {NoMedia, Output} /\ (take' # NoMedia => take' \in blobs')
    BY <1>0, <1>u DEF MediaInv
  <2> QED
    BY <1>0, <1>u, <1>e, <2>0, <2>g, <2>r, <2>2, <2>3, <2>4, ImportStepInv DEF MediaOK
<1> QED
  BY <1>1, <1>2

\* The Take and the row of its bytes.
LEMMA PublishTakeOK ==
    ASSUME MediaInv, OneWriter, NEW i \in Importers, PublishTake(i)
    PROVE  MediaOK
<1>t. /\ imp[i] \in ImportRow /\ ImportOK(i) /\ imp \in [Importers -> ImportRow]
      /\ Output \in Paths /\ Output \in Media
  BY MediaTypes
<1>e. /\ executor \in {"fake", "comfy"} /\ owner \in Importers \cup {NoOne}
      /\ status \in {"running", "importing", "succeeded"}
      /\ staging \in {"exact", "torn", "missing"}
      /\ executor = "comfy" => staging # "torn"
      /\ take \in {NoMedia, Output} /\ (take # NoMedia => take \in blobs)
  BY DEF MediaInv, StoreTypeOK
<1>0. /\ UNCHANGED <<disk, lost, active, assets, repairs, up, executor, owner, status, staging>>
      /\ imp[i].pc = "placed" /\ imp[i].hash = Output /\ Kept(Output)
  BY <1>t DEF PublishTake, ImportAt, ImportOK
<1>p. PICK p \in {"published", "stopped"} : Goto(i, p)
  BY DEF PublishTake
<1>b. /\ blobs' = blobs \cup {Output} \/ blobs' = blobs
      /\ take' \in {NoMedia, Output} /\ (take' # NoMedia => take' \in blobs')
  BY <1>0, <1>e DEF PublishTake
<1>1. PICK r \in ImportRow : /\ imp' = [imp EXCEPT ![i] = r] /\ imp'[i] = r
                             /\ r.pc = p /\ r.hash = imp[i].hash /\ r.fd = imp[i].fd
  BY <1>p, ImportGoto DEF ImportPcs
<1>g. Grows
  BY <1>0, <1>b, GrowsQuietly
<1>r. Registers
  BY <1>0, <1>b, <1>t DEF MediaInv, StoreTypeOK, Registers, Kept, BlobPaths
<1>2. ImportOK(i)'
  BY <1>t, <1>0, <1>p, <1>1 DEF ImportOK, Kept
<1>3. imp' \in [Importers -> ImportRow] /\ \A j \in Importers \ {i} : imp'[j] = imp[j]
  BY <1>t, <1>1
<1> QED
  BY <1>0, <1>b, <1>e, <1>g, <1>r, <1>2, <1>3, ImportStepInv DEF MediaOK

\* The media half of the invariant survives every step of the store ...
LEMMA StoreStepOK ==
    ASSUME MediaInv, OneWriter, StoreStep PROVE MediaOK
<1>1. ASSUME NEW u \in Uploads,
             \/ \E m \in Media \ {Torn} : StreamToTemp(u, m)
             \/ CheckRegistered(u) \/ UploadInspect(u) \/ UploadReplace(u)
             \/ UploadCommit(u) \/ UploadFail(u)
      PROVE  MediaOK
  BY <1>1, UploadMovesOK, UploadReplaceOK, UploadCommitOK
<1>2. CASE DeleteProject
  <2>0. active' = FALSE /\ UNCHANGED <<disk, lost, blobs, assets, repairs, up, importVars>>
    BY <1>2 DEF DeleteProject
  <2>g. Grows
    BY <2>0, GrowsQuietly
  <2>1. UNCHANGED <<executor, owner, status, take, staging, imp>>
    BY <2>0 DEF importVars
  <2>2. \A u \in Uploads : UploadOK(u)'
    BY <2>0, <2>g, MediaTypes, UploadFrame
  <2>3. \A i \in Importers : ImportOK(i)'
    BY <2>0, <2>1 DEF MediaInv, ImportOK, Kept
  <2>4. StoreTypeOK'
    BY <2>0, <2>1 DEF MediaInv, StoreTypeOK, DiskTypeOK
  <2>5. MediaInv'
    BY <2>0, <2>1, <2>2, <2>3, <2>4 DEF MediaInv, Kept
  <2> QED
    BY <2>g, <2>5 DEF MediaOK
<1>3. ASSUME NEW i \in Importers,
             \/ Adopt(i) \/ FakeOpen(i) \/ FakeClose(i) \/ EnterImporting(i)
             \/ PublishNoClobber(i) \/ HashStaged(i) \/ ImportInspect(i)
             \/ ImportReplace(i) \/ PublishTake(i) \/ FinishImport(i)
             \/ ImporterDies(i)
      PROVE  MediaOK
  BY <1>3, ImportMovesOK, FetchAndHashOK, InspectAndFinishOK, ImportReplaceOK, PublishTakeOK
<1> QED
  BY <1>1, <1>2, <1>3 DEF StoreStep

\* ... and every disk fault.
LEMMA DiskFaultOK ==
    ASSUME MediaInv, NEW q \in Paths, DiskFault(q), UNCHANGED <<storeVars, importVars>>
    PROVE  MediaOK
<1>t. disk \in [Paths -> FileStates] /\ lost \subseteq Paths
  BY MediaTypes
<1>0. lost' = lost \cup {q} /\ q \notin lost /\ UNCHANGED <<active, blobs, assets, repairs, up>>
  BY DEF DiskFault, storeVars
<1>s. PICK s \in {"missing", "corrupt"} : disk' = [disk EXCEPT ![q] = s]
  BY DEF DiskFault
<1>d. disk' \in [Paths -> FileStates] /\ \A p \in Paths \ {q} : disk'[p] = disk[p]
  BY <1>t, <1>s DEF FileStates
<1>g. Grows
  BY <1>t, <1>0, <1>d DEF Grows, Kept
<1>r. Registers
  BY <1>0, <1>g DEF MediaInv, StoreTypeOK, Registers, Grows, Paths
<1> QED
  BY <1>0, <1>g, <1>r, MediaFrame DEF MediaOK

-----------------------------------------------------------------------------
(* The inductive invariant: generation requests.                           *)

RequestRow == [pc : RequestPcs, d1 : Releases \cup {NoRelease},
               read : [Kinds -> Releases \cup {NoRelease}],
               placed : SUBSET Kinds, rev : Revisions \cup {NoRevision}]

\* How far a request has got: its capture is coherent, its revision is captured,
\* its release has passed the gate, its observation is registered.
Coherently == {"captured", "revised", "observed", "rendered", "listed", "spatial",
               "streamed", "registering", "ready", "done"}
Revised == Coherently \ {"captured"}
Gated == Revised \ {"revised"}
Spatially == {"spatial", "streamed", "registering", "ready", "done"}

\* The runtime whose media the request binds.
Rt(q) == IF q \in generations THEN made[q] ELSE runtime

\* One release is captured, whole, and placed before the gate opens.
CaptureOK(q) ==
    /\ req[q].pc \in {"reading", "read"} => req[q].d1 \in Releases
    /\ req[q].pc \in Coherently =>
         req[q].d1 \in Releases /\ \A k \in Kinds : req[q].read[k] = req[q].d1
    /\ req[q].pc \in {"idle", "reading", "read", "captured"} => req[q].placed = {}
    /\ req[q].pc \in Revised => Rev(q) \in Revisions
    /\ req[q].pc \in Revised => \A k \in req[q].placed : Kept(<<k, req[q].read[k]>>)
    /\ req[q].pc \in Gated => req[q].placed = Kinds

\* The schema of the revision selects the plane, and the profile offers it.
PlaneOK(q) ==
    /\ req[q].pc \in {"observed", "rendered", "listed"} => OfSchema(q, 6)
    /\ req[q].pc \in {"spatial", "streamed", "registering"} => ~ OfSchema(q, 4)
    /\ req[q].pc \in Gated /\ OfSchema(q, 5) => profile[Release(q)] # "flat"
    /\ req[q].pc \in Gated /\ OfSchema(q, 6) =>
         profile[Release(q)] = Rt(q) /\ Negotiate(Rev(q), Release(q)) = "SUPPORTED"

\* Bytes are placed, then listed, then named by the rows of the derived tables.
RenderOK(q) ==
    /\ req[q].pc = "rendered" => Kept(ObservationBytes(Rev(q), Rt(q)))
    /\ req[q].pc = "listed" => ObservationBytes(Rev(q), Rt(q)) \in blobs
    /\ req[q].pc \in Spatially /\ OfSchema(q, 6) =>
         /\ ObservationBytes(Rev(q), Rt(q)) \in blobs
         /\ [rev |-> Rev(q), contract |-> Rt(q), package |-> Release(q)] \in observations
    /\ req[q].pc = "streamed" => \A p \in Rendered(Rev(q), Rt(q)) : Kept(p)
    /\ req[q].pc \in {"registering", "ready", "done"} /\ ~ OfSchema(q, 4) =>
         Rendered(Rev(q), Rt(q)) \subseteq blobs
    /\ registered[q] # {} => req[q].pc \in {"registering", "ready", "done", "refused"}
    /\ req[q].pc = "registering" =>
         \A s \in registered[q] : StreamRow(s, Rev(q), Rt(q)) \in streams
    /\ req[q].pc \in {"ready", "done"} /\ ~ OfSchema(q, 4) =>
         \A s \in Streams : StreamRow(s, Rev(q), Rt(q)) \in streams

\* The worker runs committed rows, and refuses or sends unverified only on lost bytes.
RunOK(q) ==
    /\ q \in generations <=> req[q].pc = "done"
    /\ ran[q] # "queued" => q \in generations
    /\ ran[q] = "rejected" => (Captured(q) \cup Bound(q)) \cap lost # {} \/ Stranded(q)
    /\ ran[q] = "sent unverified" =>
         OfSchema(q, 6) /\ (Bound(q) \ Superseded(q)) \cap lost # {}

RequestOK(q) == CaptureOK(q) /\ PlaneOK(q) /\ RenderOK(q) /\ RunOK(q)

\* What the derived tables name is registered.
RowsOK ==
    /\ \A o \in observations : ObservationBytes(o.rev, o.contract) \in blobs
    /\ \A t \in streams : <<t.stream, t.pack, t.runtime>> \in blobs

RequestInv == RequestTypeOK /\ RowsOK /\ \A q \in Requests : RequestOK(q)

\* The types of the request half, in the form the proofs below use them.
LEMMA RequestTypes ==
    ASSUME RequestInv
    PROVE  /\ installed \in [Files -> Releases] /\ target \in Releases
           /\ req \in [Requests -> RequestRow] /\ profile \in [Releases -> Profiles]
           /\ runtime \in Runtimes /\ generations \subseteq Requests
           /\ made \in [Requests -> Runtimes] /\ ran \in [Requests -> RunStates]
           /\ registered \in [Requests -> SUBSET Streams]
           /\ \A q \in Requests : req[q] \in RequestRow /\ RequestOK(q) /\ Rt(q) \in Runtimes
BY DEF RequestInv, RequestTypeOK, ArtifactTypeOK, RequestRow, Rt

\* Where control media live.
LEMMA RenderedPaths ==
    ASSUME NEW rev \in Revisions, NEW rt \in Runtimes
    PROVE  /\ Rendered(rev, rt) \subseteq BlobPaths /\ Rendered(rev, rt) \subseteq Paths
           /\ Schema[rev] = 6 => /\ ObservationBytes(rev, rt) \in BlobPaths
                                 /\ ObservationBytes(rev, rt) \in Paths
BY RequestAssumption DEF Rendered, BlobPaths, Paths

\* What a request binds depends on its capture and its runtime only.
LEMMA SameCapture ==
    ASSUME NEW q \in Requests, req'[q].read = req[q].read, req'[q].d1 = req[q].d1,
           req'[q].rev = req[q].rev
    PROVE  /\ Captured(q)' = Captured(q) /\ Release(q)' = Release(q) /\ Rev(q)' = Rev(q)
           /\ \A n : OfSchema(q, n)' <=> OfSchema(q, n)
           /\ profile' = profile => (Stranded(q)' <=> Stranded(q))
           /\ made'[q] = made[q] => Bound(q)' = Bound(q) /\ Superseded(q)' = Superseded(q)
<1>1. Rev(q)' = Rev(q) /\ Release(q)' = Release(q)
  BY DEF Rev, Release
<1>2. Captured(q)' = Captured(q)
  BY DEF Captured
<1>3. \A n : OfSchema(q, n)' <=> OfSchema(q, n)
  BY <1>1 DEF OfSchema
<1>4. ASSUME profile' = profile PROVE Stranded(q)' <=> Stranded(q)
  BY <1>1, <1>3, <1>4 DEF Stranded
<1>5. ASSUME made'[q] = made[q] PROVE Bound(q)' = Bound(q) /\ Superseded(q)' = Superseded(q)
  BY <1>1, <1>3, <1>5 DEF Bound, BoundStreams, BoundObservation, Superseded
<1> QED
  BY <1>1, <1>2, <1>3, <1>4, <1>5

-----------------------------------------------------------------------------
(* A request under the steps of the others.                                *)

\* The rows of the derived tables only grow.
RowsGrow == observations \subseteq observations' /\ streams \subseteq streams'

\* The captured artifacts of a revised request have paths.
LEMMA CapturedPaths ==
    ASSUME RequestInv, NEW q \in Requests, req[q].pc \in Revised
    PROVE  /\ \A k \in Kinds : <<k, req[q].read[k]>> \in Artifacts /\ <<k, req[q].read[k]>> \in Paths
           /\ Captured(q) \subseteq Artifacts
<1>1. CaptureOK(q) /\ req[q] \in RequestRow
  BY RequestTypes DEF RequestOK
<1>2. \A k \in Kinds : req[q].read[k] \in Releases
  BY <1>1 DEF CaptureOK, Revised, Coherently
<1> QED
  BY <1>2 DEF Artifacts, Paths, Captured

\* A request stays well formed when a step leaves its own state alone: what it
\* read, rendered or committed is still there.
LEMMA RequestFrame ==
    ASSUME MediaInv, RequestInv, Grows, RowsGrow, NEW q \in Requests,
           profile' = profile, req'[q] = req[q], registered'[q] = registered[q],
           made'[q] = made[q], ran'[q] = ran[q], q \in generations' <=> q \in generations,
           runtime' = runtime \/ ~ InFlight(q)
    PROVE  RequestOK(q)'
<1>t. RequestOK(q) /\ req[q] \in RequestRow /\ Rt(q) \in Runtimes
  BY RequestTypes
<1>1. /\ Captured(q)' = Captured(q) /\ Release(q)' = Release(q) /\ Rev(q)' = Rev(q)
      /\ \A n : OfSchema(q, n)' <=> OfSchema(q, n)
      /\ Stranded(q)' <=> Stranded(q)
      /\ Bound(q)' = Bound(q) /\ Superseded(q)' = Superseded(q)
  BY SameCapture
<1>r. req[q].pc \in Revised => Rt(q)' = Rt(q)
  <2>1. q \in generations <=> req[q].pc = "done"
    BY <1>t DEF RequestOK, RunOK
  <2> QED
    BY <2>1 DEF Rt, InFlight, Revised, Coherently
<1>c. CaptureOK(q)'
  <2>1. req[q].pc \in Revised => \A k \in req[q].placed : <<k, req[q].read[k]>> \in Paths
    BY <1>t, CapturedPaths DEF RequestRow
  <2>2. CaptureOK(q)
    BY <1>t DEF RequestOK
  <2> QED
    BY <1>1, <2>1, <2>2 DEF CaptureOK, Grows
<1>p. PlaneOK(q)'
  <2>1. PlaneOK(q)
    BY <1>t DEF RequestOK
  <2> QED
    BY <1>1, <1>r, <2>1 DEF PlaneOK, Gated
<1>n. RenderOK(q)'
  <2>1. RenderOK(q) /\ PlaneOK(q) /\ CaptureOK(q)
    BY <1>t DEF RequestOK
  <2>2. Spatially \subseteq Revised /\ {"rendered", "listed", "streamed", "registering", "ready", "done"} \subseteq Revised
    BY DEF Spatially, Revised, Coherently
  <2>3. req[q].pc = "rendered" => Rev(q) \in Revisions /\ Schema[Rev(q)] = 6
    BY <2>1, <2>2 DEF CaptureOK, PlaneOK, OfSchema
  <2>4. req[q].pc = "rendered" => Kept(ObservationBytes(Rev(q), Rt(q)))'
    BY <1>t, <1>1, <1>r, <2>1, <2>2, <2>3, RenderedPaths DEF RenderOK, Grows
  <2>5. req[q].pc = "streamed" => \A p \in Rendered(Rev(q), Rt(q)) : Kept(p)'
    BY <1>t, <2>1, <2>2, RenderedPaths DEF RenderOK, CaptureOK, Grows
  <2>6. blobs \subseteq blobs'
    BY DEF Grows
  <2> QED
    BY <1>1, <1>r, <2>1, <2>2, <2>4, <2>5, <2>6 DEF RenderOK, RowsGrow
<1>u. RunOK(q)'
  BY <1>t, <1>1 DEF RequestOK, RunOK, Grows
<1> QED
  BY <1>c, <1>p, <1>n, <1>u DEF RequestOK

\* Nothing happens to the requests.
LEMMA RequestsFrame ==
    ASSUME MediaInv, RequestInv, Grows, UNCHANGED <<artifactVars, requestVars>>
    PROVE  RequestInv'
<1>0. UNCHANGED <<installed, target, req, profile, runtime, observations, streams,
                  registered, generations, made, ran>>
  BY DEF artifactVars, requestVars
<1>1. \A q \in Requests : RequestOK(q)'
  BY <1>0, RequestFrame DEF RowsGrow
<1>2. RequestTypeOK'
  BY <1>0 DEF RequestInv, RequestTypeOK, ArtifactTypeOK
<1>3. RowsOK'
  BY <1>0 DEF RequestInv, RowsOK, Grows
<1> QED
  BY <1>1, <1>2, <1>3 DEF RequestInv

\* One request moves; media grow, rows grow.
LEMMA RequestStepInv ==
    ASSUME MediaInv, RequestInv, Grows, RowsGrow, NEW q \in Requests, NEW r \in RequestRow,
           req' = [req EXCEPT ![q] = r], RequestOK(q)', RowsOK',
           UNCHANGED <<installed, target, profile, runtime, ran>>,
           observations' \subseteq [rev : Revisions, contract : Runtimes, package : Releases],
           streams' \subseteq [pack : {Pack[v] : v \in Revisions}, stream : Streams,
                               runtime : Runtimes],
           registered' \in [Requests -> SUBSET Streams], made' \in [Requests -> Runtimes],
           generations' \subseteq Requests,
           \A v \in Requests \ {q} : /\ registered'[v] = registered[v]
                                     /\ v \in generations' <=> v \in generations
                                     /\ made'[v] = made[v]
    PROVE  RequestInv'
<1>t. req \in [Requests -> RequestRow]
  BY RequestTypes
<1>1. req' \in [Requests -> RequestRow] /\ \A v \in Requests \ {q} : req'[v] = req[v]
  BY <1>t
<1>2. \A v \in Requests : RequestOK(v)'
  BY <1>1, RequestFrame
<1>3. RequestTypeOK'
  BY <1>1 DEF RequestInv, RequestTypeOK, ArtifactTypeOK, RequestRow
<1> QED
  BY <1>2, <1>3 DEF RequestInv

-----------------------------------------------------------------------------
(* Requests: one lemma per group of steps.                                 *)

\* What a step of a request or of an installation keeps.
RequestsOK == RequestInv' /\ MediaOK /\ RowsGrow

\* Steps that write exact bytes, or none, and register nothing.
LEMMA PlacesOK ==
    ASSUME MediaInv, UNCHANGED <<lost, storeVars, importVars>>,
           \/ disk' = disk
           \/ /\ disk' \in [Paths -> FileStates]
              /\ \A p \in Paths : disk'[p] = disk[p] \/ disk'[p] = "exact"
    PROVE  MediaOK
<1>0. UNCHANGED <<active, blobs, assets, repairs, up>>
  BY DEF storeVars
<1>g. Grows
  BY <1>0, GrowsQuietly
<1>r. Registers
  BY <1>0, <1>g DEF MediaInv, StoreTypeOK, Registers, Grows, Paths
<1> QED
  BY <1>0, <1>g, <1>r, MediaFrame DEF MediaOK

\* Steps that register bytes that are there.
LEMMA ListsOK ==
    ASSUME MediaInv, UNCHANGED <<disk, lost, active, assets, repairs, up, importVars>>,
           NEW S, S \subseteq BlobPaths, \A m \in S : Kept(m), blobs' = blobs \cup S
    PROVE  MediaOK
<1>g. Grows
  BY GrowsQuietly
<1>r. Registers
  BY DEF MediaInv, StoreTypeOK, Registers, Kept
<1> QED
  BY <1>g, <1>r, MediaFrame DEF MediaOK

\* What a plain move of a request does to its row.
LEMMA RequestGoto ==
    ASSUME RequestInv, NEW q \in Requests, NEW p \in RequestPcs, Move(q, p)
    PROVE  \E r \in RequestRow :
              /\ req' = [req EXCEPT ![q] = r] /\ req'[q] = r /\ r.pc = p
              /\ r.d1 = req[q].d1 /\ r.read = req[q].read
              /\ r.placed = req[q].placed /\ r.rev = req[q].rev
<1>t. req[q] \in RequestRow /\ req \in [Requests -> RequestRow]
  BY RequestTypes
<1>1. PICK r : r = [req[q] EXCEPT !.pc = p]
  OBVIOUS
<1>2. /\ r \in RequestRow /\ r.pc = p
      /\ r.d1 = req[q].d1 /\ r.read = req[q].read
      /\ r.placed = req[q].placed /\ r.rev = req[q].rev
  BY <1>t, <1>1 DEF RequestRow
<1>3. req' = [req EXCEPT ![q] = r] /\ req'[q] = r
  BY <1>t, <1>1 DEF Move
<1> QED
  BY <1>2, <1>3

\* A step of a request that touches no row of any table.
LEMMA RequestMoveInv ==
    ASSUME MediaInv, RequestInv, MediaOK, NEW q \in Requests, NEW r \in RequestRow,
           req' = [req EXCEPT ![q] = r], RequestOK(q)',
           UNCHANGED <<installed, target, requestVars>>
    PROVE  RequestsOK
<1>0. UNCHANGED <<profile, runtime, observations, streams, registered, generations, made, ran>>
  BY DEF requestVars
<1>1. RowsOK'
  BY <1>0 DEF RequestInv, RowsOK, MediaOK, Grows
<1>2. RowsGrow
  BY <1>0 DEF RowsGrow
<1>3. RequestInv'
  BY <1>0, <1>1, <1>2, RequestStepInv, RequestTypes DEF MediaOK, RequestInv, RequestTypeOK
<1> QED
  BY <1>2, <1>3 DEF RequestsOK

\* A row the worker or the tables know nothing of yet.
LEMMA NotYetRun ==
    ASSUME RequestInv, NEW q \in Requests, req[q].pc # "done"
    PROVE  q \notin generations /\ ran[q] = "queued" /\ Rt(q) = runtime
<1>1. RunOK(q)
  BY RequestTypes DEF RequestOK
<1> QED
  BY <1>1 DEF RunOK, Rt

\* The operator rewrites the installed release.
LEMMA InstallOK ==
    ASSUME MediaInv, RequestInv, UNCHANGED <<storeVars, importVars, requestVars>>,
           (\E r \in Releases : BeginInstall(r)) \/ (\E f \in Files : InstallFile(f))
    PROVE  RequestsOK
<1>0. UNCHANGED <<disk, lost, req>> /\ installed' \in [Files -> Releases] /\ target' \in Releases
  BY RequestTypes DEF BeginInstall, InstallFile
<1>1. UNCHANGED <<profile, runtime, observations, streams, registered, generations, made, ran>>
  BY DEF requestVars
<1>m. MediaOK
  BY <1>0, PlacesOK
<1>g. RowsGrow
  BY <1>1 DEF RowsGrow
<1>2. \A q \in Requests : RequestOK(q)'
  BY <1>0, <1>1, <1>m, <1>g, RequestFrame DEF MediaOK
<1>3. RequestTypeOK'
  BY <1>0, <1>1 DEF RequestInv, RequestTypeOK, ArtifactTypeOK
<1>4. RowsOK'
  BY <1>1, <1>m DEF RequestInv, RowsOK, MediaOK, Grows
<1> QED
  BY <1>m, <1>g, <1>2, <1>3, <1>4 DEF RequestsOK, RequestInv

\* A request reads the installed release and decides whether it saw one release.
LEMMA CaptureReleaseOK ==
    ASSUME MediaInv, RequestInv, UNCHANGED <<storeVars, importVars, requestVars>>,
           NEW q \in Requests,
           ReadDescriptor(q) \/ FinishCapture(q) \/ \E k \in Kinds : ReadArtifact(q, k)
    PROVE  RequestsOK
<1>t. /\ req[q] \in RequestRow /\ RequestOK(q) /\ req \in [Requests -> RequestRow]
      /\ installed \in [Files -> Releases]
  BY RequestTypes
<1>0. UNCHANGED <<disk, lost, installed, target>>
  BY DEF ReadDescriptor, FinishCapture, ReadArtifact
<1>m. MediaOK
  BY <1>0, PlacesOK
<1>v. UNCHANGED <<profile, runtime, observations, streams, registered, generations, made, ran>>
  BY DEF requestVars
<1>1. ASSUME NEW r \in RequestRow, req' = [req EXCEPT ![q] = r], RequestOK(q)'
      PROVE  RequestsOK
  BY <1>0, <1>1, <1>m, RequestMoveInv
<1>2. CASE ReadDescriptor(q)
  <2>1. PICK r : r = [req[q] EXCEPT !.pc = "reading", !.d1 = installed["descriptor"]]
    OBVIOUS
  <2>2. r \in RequestRow /\ r.pc = "reading" /\ r.d1 \in Releases /\ r.placed = req[q].placed
    BY <1>t, <2>1 DEF RequestRow, RequestPcs, Files
  <2>3. req' = [req EXCEPT ![q] = r] /\ req'[q] = r /\ req[q].pc = "idle"
    BY <1>t, <1>2, <2>1 DEF ReadDescriptor, RequestAt
  <2>4. q \notin generations /\ ran[q] = "queued" /\ registered[q] = {}
    BY <1>t, <2>3, NotYetRun DEF RequestOK, RenderOK
  <2>5. RequestOK(q)'
    BY <1>t, <1>v, <2>2, <2>3, <2>4 DEF RequestOK, CaptureOK, PlaneOK, RenderOK, RunOK,
          Coherently, Revised, Gated, Spatially
  <2> QED
    BY <1>1, <2>2, <2>3, <2>5
<1>3. ASSUME NEW k \in Kinds, ReadArtifact(q, k) PROVE RequestsOK
  <2>p. PICK p \in {"read", "reading"} :
          p = IF \A j \in Kinds \ {k} : req[q].read[j] # NoRelease THEN "read" ELSE "reading"
    OBVIOUS
  <2>1. PICK r : r = [req[q] EXCEPT !.read[k] = installed[k], !.pc = p]
    OBVIOUS
  <2>2. r \in RequestRow /\ r.pc = p /\ r.d1 = req[q].d1 /\ r.placed = req[q].placed
    BY <1>t, <2>1 DEF RequestRow, RequestPcs, Files
  <2>3. req' = [req EXCEPT ![q] = r] /\ req'[q] = r /\ req[q].pc = "reading"
    BY <1>t, <1>3, <2>p, <2>1 DEF ReadArtifact, RequestAt
  <2>4. q \notin generations /\ ran[q] = "queued" /\ registered[q] = {}
    BY <1>t, <2>3, NotYetRun DEF RequestOK, RenderOK
  <2>5. RequestOK(q)'
    BY <1>t, <1>v, <2>2, <2>3, <2>4 DEF RequestOK, CaptureOK, PlaneOK, RenderOK, RunOK,
          Coherently, Revised, Gated, Spatially
  <2> QED
    BY <1>1, <2>2, <2>3, <2>5
<1>4. CASE FinishCapture(q)
  <2>p. PICK p \in {"captured", "refused"} : p = IF Coherent(q) THEN "captured" ELSE "refused"
    OBVIOUS
  <2>1. PICK r : r = [req[q] EXCEPT !.pc = p]
    OBVIOUS
  <2>2. r \in RequestRow /\ r.pc = p /\ r.d1 = req[q].d1 /\ r.read = req[q].read
        /\ r.placed = req[q].placed
    BY <1>t, <2>1 DEF RequestRow, RequestPcs
  <2>3. req' = [req EXCEPT ![q] = r] /\ req'[q] = r /\ req[q].pc = "read"
    BY <1>t, <1>4, <2>p, <2>1 DEF FinishCapture, RequestAt
  <2>4. q \notin generations /\ ran[q] = "queued" /\ registered[q] = {}
    BY <1>t, <2>3, NotYetRun DEF RequestOK, RenderOK
  <2>c. /\ p = "captured" => \A k \in Kinds : req[q].read[k] = req[q].d1
        /\ req[q].d1 \in Releases
    BY <1>t, <2>p, <2>3 DEF Coherent, RequestOK, CaptureOK
  <2>5. RequestOK(q)'
    BY <1>t, <1>v, <2>2, <2>3, <2>4, <2>c DEF RequestOK, CaptureOK, PlaneOK, RenderOK, RunOK,
          Coherently, Revised, Gated, Spatially
  <2> QED
    BY <1>1, <2>2, <2>3, <2>5
<1> QED
  BY <1>2, <1>3, <1>4

\* The captured release gets its place, artifact by artifact.
LEMMA PlaceArtifactOK ==
    ASSUME MediaInv, RequestInv, UNCHANGED <<storeVars, importVars, requestVars>>,
           NEW q \in Requests, NEW k \in Kinds, PlaceArtifact(q, k)
    PROVE  RequestsOK
<1>t. /\ req[q] \in RequestRow /\ RequestOK(q) /\ req \in [Requests -> RequestRow]
      /\ disk \in [Paths -> FileStates]
  BY RequestTypes, MediaTypes
<1>0. /\ UNCHANGED <<lost, installed, target>> /\ req[q].pc = "revised"
      /\ disk' = [disk EXCEPT ![<<k, req[q].read[k]>>] = "exact"]
  BY DEF PlaceArtifact, RequestAt
<1>a. \A j \in Kinds : <<j, req[q].read[j]>> \in Paths
  BY <1>0, CapturedPaths DEF Revised, Coherently
<1>d. /\ disk' \in [Paths -> FileStates] /\ disk'[<<k, req[q].read[k]>>] = "exact"
      /\ \A p \in Paths : disk'[p] = disk[p] \/ disk'[p] = "exact"
  BY <1>t, <1>0, <1>a DEF FileStates
<1>m. MediaOK
  BY <1>0, <1>d, PlacesOK
<1>v. UNCHANGED <<profile, runtime, observations, streams, registered, generations, made, ran>>
  BY DEF requestVars
<1>1. PICK r : r = [req[q] EXCEPT !.placed = @ \cup {k}]
  OBVIOUS
<1>2. /\ r \in RequestRow /\ r.pc = "revised" /\ r.d1 = req[q].d1 /\ r.read = req[q].read
      /\ r.placed = req[q].placed \cup {k} /\ r.rev = req[q].rev
  BY <1>t, <1>0, <1>1 DEF RequestRow
<1>3. req' = [req EXCEPT ![q] = r] /\ req'[q] = r
  BY <1>t, <1>1 DEF PlaceArtifact
<1>4. q \notin generations /\ ran[q] = "queued" /\ registered[q] = {}
  BY <1>t, <1>0, NotYetRun DEF RequestOK, RenderOK
<1>5. \A j \in req[q].placed \cup {k} : Kept(<<j, req[q].read[j]>>)'
  <2>1. Kept(<<k, req[q].read[k]>>)'
    BY <1>0, <1>2, <1>3, <1>d DEF Kept
  <2>2. \A j \in req[q].placed : Kept(<<j, req[q].read[j]>>) /\ <<j, req[q].read[j]>> \in Paths
    BY <1>t, <1>0, <1>a DEF RequestOK, CaptureOK, RequestRow, Revised, Coherently
  <2>3. \A j \in req[q].placed : Kept(<<j, req[q].read[j]>>)'
    BY <1>2, <1>3, <1>m, <2>2 DEF MediaOK, Grows, Kept
  <2> QED
    BY <2>1, <2>3
<1>6. CaptureOK(q)'
  BY <1>t, <1>0, <1>2, <1>3, <1>5 DEF RequestOK, CaptureOK, Coherently, Revised, Gated, Rev
<1>7. PlaneOK(q)' /\ RenderOK(q)' /\ RunOK(q)'
  BY <1>v, <1>2, <1>3, <1>4 DEF PlaneOK, RenderOK, RunOK, Coherently, Revised, Gated, Spatially
<1> QED
  BY <1>0, <1>m, <1>2, <1>3, <1>6, <1>7, RequestMoveInv DEF RequestOK

\* The revision is captured, the gates open or refuse.
LEMMA GateOK ==
    ASSUME MediaInv, RequestInv, NEW q \in Requests,
           (\E rev \in Revisions : CaptureRevision(q, rev)) \/ RefuseRequest(q) \/ Gate(q)
    PROVE  RequestsOK
<1>t. req[q] \in RequestRow /\ RequestOK(q) /\ req \in [Requests -> RequestRow]
  BY RequestTypes
<1>0. UNCHANGED <<disk, lost, storeVars, importVars, installed, target, requestVars>>
  BY DEF CaptureRevision, RefuseRequest, Gate, OnlyRequest, requestVars
<1>v. UNCHANGED <<profile, runtime, observations, streams, registered, generations, made, ran>>
  BY <1>0 DEF requestVars
<1>m. MediaOK
  BY <1>0, PlacesOK
<1>1. ASSUME NEW r \in RequestRow, req' = [req EXCEPT ![q] = r], RequestOK(q)'
      PROVE  RequestsOK
  BY <1>0, <1>1, <1>m, RequestMoveInv
<1>2. ASSUME NEW rev \in Revisions, CaptureRevision(q, rev) PROVE RequestsOK
  <2>p. PICK p \in {"refused", "revised"} : p = IF Schema[rev] = 7 THEN "refused" ELSE "revised"
    OBVIOUS
  <2>1. PICK r : r = [req[q] EXCEPT !.rev = rev, !.pc = p]
    OBVIOUS
  <2>2. /\ r \in RequestRow /\ r.pc = p /\ r.d1 = req[q].d1 /\ r.read = req[q].read
        /\ r.placed = req[q].placed /\ r.rev = rev
    BY <1>t, <2>1 DEF RequestRow, RequestPcs
  <2>3. req' = [req EXCEPT ![q] = r] /\ req'[q] = r /\ req[q].pc = "captured"
    BY <1>t, <1>2, <2>p, <2>1 DEF CaptureRevision, RequestAt
  <2>4. q \notin generations /\ ran[q] = "queued" /\ registered[q] = {}
    BY <1>t, <2>3, NotYetRun DEF RequestOK, RenderOK
  <2>5. CaptureOK(q)'
    BY <1>t, <2>2, <2>3 DEF RequestOK, CaptureOK, Coherently, Revised, Gated, Rev
  <2>6. PlaneOK(q)' /\ RenderOK(q)' /\ RunOK(q)'
    BY <1>v, <2>2, <2>3, <2>4 DEF PlaneOK, RenderOK, RunOK, Coherently, Revised, Gated, Spatially
  <2> QED
    BY <1>1, <2>2, <2>3, <2>5, <2>6 DEF RequestOK
<1>3. CASE RefuseRequest(q)
  <2>0. Move(q, "refused") /\ req[q].pc # "done"
    BY <1>3 DEF RefuseRequest, InFlight
  <2>1. PICK r \in RequestRow : req' = [req EXCEPT ![q] = r] /\ req'[q] = r /\ r.pc = "refused"
    BY <2>0, RequestGoto DEF RequestPcs
  <2>2. q \notin generations /\ ran[q] = "queued"
    BY <2>0, NotYetRun
  <2>3. RequestOK(q)'
    BY <1>v, <2>1, <2>2 DEF RequestOK, CaptureOK, PlaneOK, RenderOK, RunOK,
          Coherently, Revised, Gated, Spatially
  <2> QED
    BY <1>1, <2>1, <2>3
<1>4. CASE Gate(q)
  <2>0. req[q].pc = "revised" /\ req[q].placed = Kinds
    BY <1>4 DEF Gate, RequestAt
  <2>p. PICK p \in {"ready", "spatial", "observed", "refused"} :
          /\ Move(q, p)
          /\ p = "ready" => OfSchema(q, 4)
          /\ p = "spatial" => OfSchema(q, 5) /\ profile[Release(q)] # "flat"
          /\ p = "observed" => /\ OfSchema(q, 6) /\ profile[Release(q)] = runtime
                               /\ Negotiate(Rev(q), Release(q)) = "SUPPORTED"
    <3>1. CASE OfSchema(q, 4)
      BY <1>4, <3>1 DEF Gate
    <3>2. CASE OfSchema(q, 5) /\ profile[Release(q)] # "flat" /\ ~ OfSchema(q, 4)
      BY <1>4, <3>2 DEF Gate
    <3>3. CASE /\ OfSchema(q, 6) /\ profile[Release(q)] = runtime
               /\ Negotiate(Rev(q), Release(q)) = "SUPPORTED" /\ ~ OfSchema(q, 4)
               /\ ~ (OfSchema(q, 5) /\ profile[Release(q)] # "flat")
      BY <1>4, <3>3 DEF Gate
    <3>4. CASE /\ ~ (/\ OfSchema(q, 6) /\ profile[Release(q)] = runtime
                     /\ Negotiate(Rev(q), Release(q)) = "SUPPORTED")
               /\ ~ OfSchema(q, 4) /\ ~ (OfSchema(q, 5) /\ profile[Release(q)] # "flat")
      BY <1>4, <3>4 DEF Gate
    <3> QED
      BY <3>1, <3>2, <3>3, <3>4
  <2>1. PICK r \in RequestRow :
              /\ req' = [req EXCEPT ![q] = r] /\ req'[q] = r /\ r.pc = p
              /\ r.d1 = req[q].d1 /\ r.read = req[q].read
              /\ r.placed = req[q].placed /\ r.rev = req[q].rev
    BY <2>p, RequestGoto DEF RequestPcs
  <2>2. q \notin generations /\ ran[q] = "queued" /\ registered[q] = {} /\ Rt(q) = runtime
    BY <1>t, <2>0, NotYetRun DEF RequestOK, RenderOK
  <2>s. /\ Release(q)' = Release(q) /\ Rev(q)' = Rev(q) /\ Rt(q)' = runtime
        /\ \A n : OfSchema(q, n)' <=> OfSchema(q, n)
    BY <1>v, <2>1, <2>2, SameCapture DEF Rt
  <2>x. /\ ~ (OfSchema(q, 4) /\ OfSchema(q, 5)) /\ ~ (OfSchema(q, 4) /\ OfSchema(q, 6))
        /\ ~ (OfSchema(q, 5) /\ OfSchema(q, 6))
    BY DEF OfSchema
  <2>3. CaptureOK(q)'
    BY <1>t, <1>0, <2>0, <2>1, <2>s DEF RequestOK, CaptureOK, Coherently, Revised, Gated, Kept
  <2>4. PlaneOK(q)'
    BY <1>v, <2>1, <2>p, <2>s, <2>x DEF PlaneOK, Gated, Revised, Coherently
  <2>5. RenderOK(q)'
    BY <1>v, <2>1, <2>2, <2>p, <2>s, <2>x DEF RenderOK, Spatially
  <2>6. RunOK(q)'
    BY <1>v, <2>1, <2>2 DEF RunOK
  <2> QED
    BY <1>1, <2>1, <2>3, <2>4, <2>5, <2>6 DEF RequestOK
<1> QED
  BY <1>2, <1>3, <1>4

\* The observation: bytes, then the row of the bytes, ...
LEMMA ObservationBytesOK ==
    ASSUME MediaInv, RequestInv, NEW q \in Requests, RenderObservation(q) \/ ListObservation(q)
    PROVE  RequestsOK
<1>t. /\ req[q] \in RequestRow /\ RequestOK(q) /\ req \in [Requests -> RequestRow]
      /\ disk \in [Paths -> FileStates] /\ runtime \in Runtimes
  BY RequestTypes, MediaTypes
<1>0. UNCHANGED <<lost, active, assets, repairs, up, importVars, installed, target, requestVars>>
  BY DEF RenderObservation, ListObservation, OnlyRequest, requestVars, storeVars
<1>v. UNCHANGED <<profile, runtime, observations, streams, registered, generations, made, ran>>
  BY <1>0 DEF requestVars
<1>p. req[q].pc \in {"observed", "rendered"}
  BY DEF RenderObservation, ListObservation, RequestAt
<1>r. q \notin generations /\ ran[q] = "queued" /\ registered[q] = {} /\ Rt(q) = runtime
  BY <1>t, <1>p, NotYetRun DEF RequestOK, RenderOK
<1>6. OfSchema(q, 6) /\ Rev(q) \in Revisions /\ Schema[Rev(q)] = 6
  BY <1>t, <1>p DEF RequestOK, CaptureOK, PlaneOK, Revised, Coherently, OfSchema
<1>b. ObservationBytes(Rev(q), runtime) \in BlobPaths /\ ObservationBytes(Rev(q), runtime) \in Paths
  BY <1>t, <1>6, RenderedPaths
<1>1. ASSUME NEW p \in {"rendered", "listed"}, Move(q, p), MediaOK,
             p = "rendered" => Kept(ObservationBytes(Rev(q), runtime))',
             p = "listed" => ObservationBytes(Rev(q), runtime) \in blobs'
      PROVE  RequestsOK
  <2>1. PICK r \in RequestRow :
              /\ req' = [req EXCEPT ![q] = r] /\ req'[q] = r /\ r.pc = p
              /\ r.d1 = req[q].d1 /\ r.read = req[q].read
              /\ r.placed = req[q].placed /\ r.rev = req[q].rev
    BY <1>1, RequestGoto DEF RequestPcs
  <2>s. /\ Release(q)' = Release(q) /\ Rev(q)' = Rev(q) /\ Rt(q)' = runtime
        /\ \A n : OfSchema(q, n)' <=> OfSchema(q, n)
    BY <1>v, <1>r, <2>1, SameCapture DEF Rt
  <2>2. \A k \in Kinds : <<k, req[q].read[k]>> \in Paths
    BY <1>p, CapturedPaths DEF Revised, Coherently
  <2>3. CaptureOK(q)'
    <3>1. \A k \in Kinds : Kept(<<k, req[q].read[k]>>) => Kept(<<k, req[q].read[k]>>)'
      BY <1>1, <2>1, <2>2 DEF MediaOK, Grows, Kept
    <3>2. /\ req[q].d1 \in Releases /\ \A k \in Kinds : req[q].read[k] = req[q].d1
          /\ req[q].placed = Kinds /\ \A k \in Kinds : Kept(<<k, req[q].read[k]>>)
      BY <1>t, <1>p DEF RequestOK, CaptureOK, Revised, Coherently, Gated
    <3> QED
      BY <1>6, <2>1, <2>s, <3>1, <3>2 DEF CaptureOK, Kept
  <2>4. PlaneOK(q)'
    <3>1. profile[Release(q)] = runtime /\ Negotiate(Rev(q), Release(q)) = "SUPPORTED"
      BY <1>t, <1>r, <1>p, <1>6 DEF RequestOK, PlaneOK, Gated, Revised, Coherently
    <3>2. ~ OfSchema(q, 5)
      BY <1>6 DEF OfSchema
    <3> QED
      BY <1>v, <1>6, <2>1, <2>s, <3>1, <3>2 DEF PlaneOK
  <2>5. RenderOK(q)'
    BY <1>v, <1>1, <1>r, <2>1, <2>s DEF RenderOK, Spatially
  <2>6. RunOK(q)'
    BY <1>v, <1>r, <2>1 DEF RunOK
  <2> QED
    BY <1>0, <1>1, <2>1, <2>3, <2>4, <2>5, <2>6, RequestMoveInv DEF RequestOK
<1>2. CASE RenderObservation(q)
  <2>1. /\ disk' = [disk EXCEPT ![ObservationBytes(Rev(q), runtime)] = "exact"]
        /\ UNCHANGED storeVars /\ Move(q, "rendered")
    BY <1>2 DEF RenderObservation, OnlyRequest
  <2>2. /\ disk' \in [Paths -> FileStates] /\ disk'[ObservationBytes(Rev(q), runtime)] = "exact"
        /\ \A p \in Paths : disk'[p] = disk[p] \/ disk'[p] = "exact"
    BY <1>t, <1>b, <2>1 DEF FileStates
  <2>3. MediaOK
    BY <1>0, <2>1, <2>2, PlacesOK
  <2>4. req'[q].rev = req[q].rev
    BY <1>t, <2>1 DEF Move, RequestRow
  <2>5. Kept(ObservationBytes(Rev(q), runtime))'
    BY <1>v, <2>2, <2>4 DEF Kept, Rev
  <2> QED
    BY <1>1, <2>1, <2>3, <2>5
<1>3. CASE ListObservation(q)
  <2>1. /\ blobs' = blobs \cup {ObservationBytes(Rev(q), runtime)}
        /\ UNCHANGED disk /\ Move(q, "listed") /\ req[q].pc = "rendered"
    BY <1>3 DEF ListObservation, RequestAt
  <2>2. Kept(ObservationBytes(Rev(q), runtime))
    BY <1>t, <1>r, <2>1 DEF RequestOK, RenderOK
  <2>3. MediaOK
    <3>1. PICK S : S = {ObservationBytes(Rev(q), runtime)}
      OBVIOUS
    <3>2. S \subseteq BlobPaths /\ (\A m \in S : Kept(m)) /\ blobs' = blobs \cup S
      BY <1>b, <2>1, <2>2, <3>1
    <3> QED
      BY <1>0, <2>1, <3>2, ListsOK
  <2>4. req'[q].rev = req[q].rev
    BY <1>t, <2>1 DEF Move, RequestRow
  <2> QED
    BY <1>1, <2>1, <2>3
<1> QED
  BY <1>2, <1>3

\* ... then the artifact row, which converges or refuses.
LEMMA ConvergeOK ==
    ASSUME MediaInv, RequestInv, NEW q \in Requests, ConvergeObservation(q)
    PROVE  RequestsOK
<1>t. /\ req[q] \in RequestRow /\ RequestOK(q) /\ req \in [Requests -> RequestRow]
      /\ runtime \in Runtimes
  BY RequestTypes
<1>0. /\ UNCHANGED <<disk, lost, storeVars, importVars, installed, target, profile, runtime,
                     streams, registered, generations, made, ran>>
      /\ req[q].pc = "listed"
  BY DEF ConvergeObservation, OnlyRequest, RequestAt
<1>m. MediaOK
  BY <1>0, PlacesOK
<1>r. q \notin generations /\ ran[q] = "queued" /\ registered[q] = {} /\ Rt(q) = runtime
  BY <1>t, <1>0, NotYetRun DEF RequestOK, RenderOK
<1>6. /\ OfSchema(q, 6) /\ Rev(q) \in Revisions /\ Schema[Rev(q)] = 6 /\ Release(q) \in Releases
      /\ ObservationBytes(Rev(q), runtime) \in blobs
  BY <1>t, <1>0, <1>r DEF RequestOK, CaptureOK, PlaneOK, RenderOK, Revised, Coherently, OfSchema,
        Release
<1>p. PICK p \in {"spatial", "disagreed"} :
        /\ Move(q, p)
        /\ p = "spatial" => observations' = observations \cup {ObservationRow(q)}
        /\ p = "disagreed" => observations' = observations
  BY DEF ConvergeObservation
<1>o. /\ observations \subseteq observations'
      /\ observations' \subseteq [rev : Revisions, contract : Runtimes, package : Releases]
      /\ \A o \in observations' : ObservationBytes(o.rev, o.contract) \in blobs
      /\ p = "spatial" =>
           [rev |-> Rev(q), contract |-> runtime, package |-> Release(q)] \in observations'
  BY <1>t, <1>6, <1>p DEF ObservationRow, RequestInv, RequestTypeOK, RowsOK
<1>1. PICK r \in RequestRow :
            /\ req' = [req EXCEPT ![q] = r] /\ req'[q] = r /\ r.pc = p
            /\ r.d1 = req[q].d1 /\ r.read = req[q].read
            /\ r.placed = req[q].placed /\ r.rev = req[q].rev
  BY <1>p, RequestGoto DEF RequestPcs
<1>s. /\ Release(q)' = Release(q) /\ Rev(q)' = Rev(q) /\ Rt(q)' = runtime
      /\ \A n : OfSchema(q, n)' <=> OfSchema(q, n)
  BY <1>0, <1>r, <1>1, SameCapture DEF Rt
<1>x. ~ OfSchema(q, 5) /\ ~ OfSchema(q, 4) /\ blobs' = blobs
  BY <1>0, <1>6 DEF OfSchema, storeVars
<1>3. CaptureOK(q)'
  BY <1>t, <1>0, <1>1, <1>s, <1>p DEF RequestOK, CaptureOK, Revised, Coherently, Gated, Kept
<1>4. PlaneOK(q)'
  <2>1. profile[Release(q)] = runtime /\ Negotiate(Rev(q), Release(q)) = "SUPPORTED"
    BY <1>t, <1>0, <1>r, <1>6 DEF RequestOK, PlaneOK, Gated, Revised, Coherently
  <2> QED
    BY <1>0, <1>x, <1>1, <1>s, <1>p, <2>1 DEF PlaneOK
<1>5. RenderOK(q)'
  BY <1>0, <1>r, <1>1, <1>s, <1>p, <1>x, <1>o, <1>6 DEF RenderOK, Spatially
<1>7. RunOK(q)'
  BY <1>0, <1>r, <1>1, <1>p DEF RunOK
<1>g. RowsGrow
  BY <1>0, <1>o DEF RowsGrow
<1>w. RowsOK'
  BY <1>0, <1>o, <1>x DEF RowsOK, RequestInv
<1>2. RequestInv'
  BY <1>0, <1>m, <1>g, <1>w, <1>o, <1>1, <1>3, <1>4, <1>5, <1>7, RequestStepInv
     DEF MediaOK, RequestOK, RequestInv, RequestTypeOK
<1> QED
  BY <1>m, <1>g, <1>2 DEF RequestsOK

\* The depth streams: bytes, then the rows of the bytes, ...
LEMMA StreamBytesOK ==
    ASSUME MediaInv, RequestInv, NEW q \in Requests, RenderStreams(q) \/ ListStreams(q)
    PROVE  RequestsOK
<1>t. /\ req[q] \in RequestRow /\ RequestOK(q) /\ req \in [Requests -> RequestRow]
      /\ disk \in [Paths -> FileStates] /\ runtime \in Runtimes
  BY RequestTypes, MediaTypes
<1>0. UNCHANGED <<lost, active, assets, repairs, up, importVars, installed, target, requestVars>>
  BY DEF RenderStreams, ListStreams, OnlyRequest, requestVars, storeVars
<1>v. UNCHANGED <<profile, runtime, observations, streams, registered, generations, made, ran>>
  BY <1>0 DEF requestVars
<1>p. req[q].pc \in {"spatial", "streamed"}
  BY DEF RenderStreams, ListStreams, RequestAt
<1>r. q \notin generations /\ ran[q] = "queued" /\ registered[q] = {} /\ Rt(q) = runtime
  BY <1>t, <1>p, NotYetRun DEF RequestOK, RenderOK
<1>6. ~ OfSchema(q, 4) /\ Rev(q) \in Revisions
  BY <1>t, <1>p DEF RequestOK, CaptureOK, PlaneOK, Revised, Coherently
<1>b. Rendered(Rev(q), runtime) \subseteq BlobPaths /\ Rendered(Rev(q), runtime) \subseteq Paths
  BY <1>t, <1>6, RenderedPaths
<1>1. ASSUME NEW p \in {"streamed", "registering"}, Move(q, p), MediaOK,
             p = "streamed" => \A s \in Rendered(Rev(q), runtime) : Kept(s)',
             p = "registering" => Rendered(Rev(q), runtime) \subseteq blobs'
      PROVE  RequestsOK
  <2>1. PICK r \in RequestRow :
              /\ req' = [req EXCEPT ![q] = r] /\ req'[q] = r /\ r.pc = p
              /\ r.d1 = req[q].d1 /\ r.read = req[q].read
              /\ r.placed = req[q].placed /\ r.rev = req[q].rev
    BY <1>1, RequestGoto DEF RequestPcs
  <2>s. /\ Release(q)' = Release(q) /\ Rev(q)' = Rev(q) /\ Rt(q)' = runtime
        /\ \A n : OfSchema(q, n)' <=> OfSchema(q, n)
    BY <1>v, <1>r, <2>1, SameCapture DEF Rt
  <2>2. \A k \in Kinds : <<k, req[q].read[k]>> \in Paths
    BY <1>p, CapturedPaths DEF Revised, Coherently
  <2>3. CaptureOK(q)'
    <3>1. \A k \in Kinds : Kept(<<k, req[q].read[k]>>) => Kept(<<k, req[q].read[k]>>)'
      BY <1>1, <2>1, <2>2 DEF MediaOK, Grows, Kept
    <3>2. /\ req[q].d1 \in Releases /\ \A k \in Kinds : req[q].read[k] = req[q].d1
          /\ req[q].placed = Kinds /\ \A k \in Kinds : Kept(<<k, req[q].read[k]>>)
      BY <1>t, <1>p DEF RequestOK, CaptureOK, Revised, Coherently, Gated
    <3> QED
      BY <1>6, <2>1, <2>s, <3>1, <3>2 DEF CaptureOK, Kept
  <2>4. PlaneOK(q)'
    <3>1. PlaneOK(q) /\ req[q].pc \in Gated
      BY <1>t, <1>p DEF RequestOK, Gated, Revised, Coherently
    <3> QED
      BY <1>v, <1>r, <1>6, <2>1, <2>s, <3>1 DEF PlaneOK
  <2>5. RenderOK(q)'
    <3>1. OfSchema(q, 6) =>
            /\ ObservationBytes(Rev(q), runtime) \in blobs
            /\ [rev |-> Rev(q), contract |-> runtime, package |-> Release(q)] \in observations
      BY <1>t, <1>p, <1>r DEF RequestOK, RenderOK, Spatially
    <3>2. blobs \subseteq blobs'
      BY <1>1 DEF MediaOK, Grows
    <3>3. p = "streamed" => \A s \in Rendered(Rev(q), Rt(q))' : Kept(s)'
      BY <1>1, <2>s, <2>1
    <3> QED
      BY <1>v, <1>1, <1>r, <2>1, <2>s, <3>1, <3>2, <3>3 DEF RenderOK, Spatially
  <2>6. RunOK(q)'
    BY <1>v, <1>r, <2>1 DEF RunOK
  <2> QED
    BY <1>0, <1>1, <2>1, <2>3, <2>4, <2>5, <2>6, RequestMoveInv DEF RequestOK
<1>2. CASE RenderStreams(q)
  <2>1. /\ disk' = [p \in Paths |-> IF p \in Rendered(Rev(q), runtime) THEN "exact" ELSE disk[p]]
        /\ UNCHANGED storeVars /\ Move(q, "streamed")
    BY <1>2 DEF RenderStreams, OnlyRequest
  <2>2. /\ disk' \in [Paths -> FileStates]
        /\ \A p \in Rendered(Rev(q), runtime) : disk'[p] = "exact"
        /\ \A p \in Paths : disk'[p] = disk[p] \/ disk'[p] = "exact"
    BY <1>t, <1>b, <2>1 DEF FileStates
  <2>3. MediaOK
    BY <1>0, <2>1, <2>2, PlacesOK
  <2>4. req'[q].rev = req[q].rev
    BY <1>t, <2>1 DEF Move, RequestRow
  <2>5. \A s \in Rendered(Rev(q), runtime) : Kept(s)'
    BY <2>2 DEF Kept
  <2> QED
    BY <1>1, <2>1, <2>3, <2>5
<1>3. CASE ListStreams(q)
  <2>1. /\ blobs' = blobs \cup Rendered(Rev(q), runtime)
        /\ UNCHANGED disk /\ Move(q, "registering") /\ req[q].pc = "streamed"
    BY <1>3 DEF ListStreams, RequestAt
  <2>2. \A s \in Rendered(Rev(q), runtime) : Kept(s)
    BY <1>t, <1>r, <2>1 DEF RequestOK, RenderOK
  <2>3. MediaOK
    <3>1. PICK S : S = Rendered(Rev(q), runtime)
      OBVIOUS
    <3>2. S \subseteq BlobPaths /\ (\A m \in S : Kept(m)) /\ blobs' = blobs \cup S
      BY <1>b, <2>1, <2>2, <3>1
    <3> QED
      BY <1>0, <2>1, <3>2, ListsOK
  <2> QED
    BY <1>1, <2>1, <2>3
<1> QED
  BY <1>2, <1>3

\* ... then stream by stream the row that names them.
LEMMA RegisterOK ==
    ASSUME MediaInv, RequestInv, NEW q \in Requests, NEW s \in Streams, RegisterStream(q, s)
    PROVE  RequestsOK
<1>t. /\ req[q] \in RequestRow /\ RequestOK(q) /\ req \in [Requests -> RequestRow]
      /\ runtime \in Runtimes /\ registered \in [Requests -> SUBSET Streams]
  BY RequestTypes
<1>0. /\ UNCHANGED <<disk, lost, storeVars, importVars, installed, target, profile, runtime,
                     observations, generations, made, ran>>
      /\ req[q].pc = "registering"
  BY DEF RegisterStream, OnlyRequest, RequestAt
<1>m. MediaOK
  BY <1>0, PlacesOK
<1>r. q \notin generations /\ ran[q] = "queued" /\ Rt(q) = runtime
  BY <1>t, <1>0, NotYetRun
<1>6. /\ ~ OfSchema(q, 4) /\ Rev(q) \in Revisions
      /\ Rendered(Rev(q), runtime) \subseteq blobs
      /\ \A z \in registered[q] : StreamRow(z, Rev(q), runtime) \in streams
  BY <1>t, <1>0, <1>r DEF RequestOK, CaptureOK, PlaneOK, RenderOK, Revised, Coherently
<1>b. StreamBytes(s, Rev(q), runtime) \in blobs
  BY <1>6 DEF Rendered
<1>p. PICK p \in {"ready", "registering", "refused"} :
        /\ Move(q, p)
        /\ p # "refused" => /\ streams' = streams \cup {StreamRow(s, Rev(q), runtime)}
                            /\ registered' = [registered EXCEPT ![q] = @ \cup {s}]
        /\ p = "refused" => UNCHANGED <<streams, registered>>
        /\ p = "ready" => registered[q] \cup {s} = Streams
  BY DEF RegisterStream
<1>o. /\ streams \subseteq streams'
      /\ streams' \subseteq [pack : {Pack[v] : v \in Revisions}, stream : Streams,
                             runtime : Runtimes]
      /\ \A z \in streams' : <<z.stream, z.pack, z.runtime>> \in blobs
      /\ p # "refused" => StreamRow(s, Rev(q), runtime) \in streams'
  BY <1>t, <1>6, <1>b, <1>p DEF StreamRow, StreamBytes, RequestInv, RequestTypeOK, RowsOK
<1>e. /\ registered' \in [Requests -> SUBSET Streams]
      /\ \A v \in Requests \ {q} : registered'[v] = registered[v]
      /\ p # "refused" => registered'[q] = registered[q] \cup {s}
  BY <1>t, <1>p
<1>1. PICK r \in RequestRow :
            /\ req' = [req EXCEPT ![q] = r] /\ req'[q] = r /\ r.pc = p
            /\ r.d1 = req[q].d1 /\ r.read = req[q].read
            /\ r.placed = req[q].placed /\ r.rev = req[q].rev
  BY <1>p, RequestGoto DEF RequestPcs
<1>s. /\ Release(q)' = Release(q) /\ Rev(q)' = Rev(q) /\ Rt(q)' = runtime
      /\ \A n : OfSchema(q, n)' <=> OfSchema(q, n)
  BY <1>0, <1>r, <1>1, SameCapture DEF Rt
<1>x. blobs' = blobs
  BY <1>0 DEF storeVars
<1>3. CaptureOK(q)'
  BY <1>t, <1>0, <1>1, <1>s, <1>p DEF RequestOK, CaptureOK, Revised, Coherently, Gated, Kept
<1>4. PlaneOK(q)'
  <2>1. PlaneOK(q) /\ req[q].pc \in Gated
    BY <1>t, <1>0 DEF RequestOK, Gated, Revised, Coherently
  <2> QED
    BY <1>0, <1>r, <1>6, <1>1, <1>s, <1>p, <2>1 DEF PlaneOK, Gated, Revised, Coherently
<1>5. RenderOK(q)'
  <2>1. OfSchema(q, 6) =>
          /\ ObservationBytes(Rev(q), runtime) \in blobs
          /\ [rev |-> Rev(q), contract |-> runtime, package |-> Release(q)] \in observations
    BY <1>t, <1>0, <1>r DEF RequestOK, RenderOK, Spatially
  <2>2. p # "refused" =>
          \A z \in registered[q] \cup {s} : StreamRow(z, Rev(q), runtime) \in streams'
    BY <1>6, <1>o
  <2> QED
    BY <1>0, <1>1, <1>s, <1>p, <1>x, <1>e, <1>6, <2>1, <2>2 DEF RenderOK, Spatially
<1>7. RunOK(q)'
  BY <1>0, <1>r, <1>1, <1>p DEF RunOK
<1>g. RowsGrow
  BY <1>0, <1>o DEF RowsGrow
<1>w. RowsOK'
  BY <1>0, <1>o, <1>x DEF RowsOK, RequestInv
<1>2. RequestInv'
  BY <1>0, <1>m, <1>g, <1>w, <1>o, <1>e, <1>1, <1>3, <1>4, <1>5, <1>7, RequestStepInv
     DEF MediaOK, RequestOK, RequestInv, RequestTypeOK
<1> QED
  BY <1>m, <1>g, <1>2 DEF RequestsOK

\* The generation row is inserted and pins the runtime that rendered for it.
LEMMA InsertOK ==
    ASSUME MediaInv, RequestInv, NEW q \in Requests, InsertGeneration(q)
    PROVE  RequestsOK
<1>t. /\ req[q] \in RequestRow /\ RequestOK(q) /\ req \in [Requests -> RequestRow]
      /\ runtime \in Runtimes /\ made \in [Requests -> Runtimes] /\ generations \subseteq Requests
  BY RequestTypes
<1>0. /\ UNCHANGED <<disk, lost, storeVars, importVars, installed, target, profile, runtime,
                     observations, streams, registered, ran>>
      /\ req[q].pc = "ready" /\ Move(q, "done")
      /\ generations' = generations \cup {q} /\ made' = [made EXCEPT ![q] = runtime]
  BY DEF InsertGeneration, OnlyRequest, RequestAt
<1>m. MediaOK
  BY <1>0, PlacesOK
<1>r. q \notin generations /\ ran[q] = "queued" /\ Rt(q) = runtime
  BY <1>t, <1>0, NotYetRun
<1>e. /\ made' \in [Requests -> Runtimes] /\ made'[q] = runtime
      /\ \A v \in Requests \ {q} : made'[v] = made[v] /\ (v \in generations' <=> v \in generations)
      /\ generations' \subseteq Requests /\ q \in generations'
  BY <1>t, <1>0
<1>1. PICK r \in RequestRow :
            /\ req' = [req EXCEPT ![q] = r] /\ req'[q] = r /\ r.pc = "done"
            /\ r.d1 = req[q].d1 /\ r.read = req[q].read
            /\ r.placed = req[q].placed /\ r.rev = req[q].rev
  BY <1>0, RequestGoto DEF RequestPcs
<1>s. /\ Release(q)' = Release(q) /\ Rev(q)' = Rev(q) /\ Rt(q)' = runtime
      /\ \A n : OfSchema(q, n)' <=> OfSchema(q, n)
  BY <1>e, <1>1, SameCapture DEF Rt
<1>x. blobs' = blobs
  BY <1>0 DEF storeVars
<1>3. CaptureOK(q)'
  BY <1>t, <1>0, <1>1, <1>s DEF RequestOK, CaptureOK, Revised, Coherently, Gated, Kept
<1>4. PlaneOK(q)'
  <2>1. PlaneOK(q) /\ req[q].pc \in Gated
    BY <1>t, <1>0 DEF RequestOK, Gated, Revised, Coherently
  <2> QED
    BY <1>0, <1>r, <1>1, <1>s, <2>1 DEF PlaneOK, Gated, Revised, Coherently
<1>5. RenderOK(q)'
  BY <1>t, <1>0, <1>r, <1>1, <1>s, <1>x DEF RequestOK, RenderOK, Spatially
<1>7. RunOK(q)'
  BY <1>0, <1>r, <1>1, <1>e DEF RunOK
<1>g. RowsGrow
  BY <1>0 DEF RowsGrow
<1>w. RowsOK'
  BY <1>0, <1>x DEF RowsOK, RequestInv
<1>2. RequestInv'
  BY <1>0, <1>m, <1>g, <1>w, <1>e, <1>1, <1>3, <1>4, <1>5, <1>7, RequestStepInv
     DEF MediaOK, RequestOK, RequestInv, RequestTypeOK
<1> QED
  BY <1>m, <1>g, <1>2 DEF RequestsOK

\* Where everything a committed generation needs is.
LEMMA InputsKept ==
    ASSUME MediaInv, RequestInv, NEW q \in generations
    PROVE  /\ q \in Requests /\ req[q].pc = "done" /\ Rt(q) = made[q]
           /\ \A a \in Captured(q) \cup Bound(q) : Kept(a)
           /\ Bound(q) \subseteq blobs
           /\ ~ OfSchema(q, 4) => \A s \in Streams : StreamRow(s, Rev(q), made[q]) \in streams
<1>1. q \in Requests /\ RequestOK(q)
  BY RequestTypes
<1>2. req[q].pc = "done" /\ Rt(q) = made[q]
  BY <1>1 DEF RequestOK, RunOK, Rt
<1>3. \A k \in Kinds : Kept(<<k, req[q].read[k]>>)
  BY <1>1, <1>2 DEF RequestOK, CaptureOK, Revised, Coherently, Gated
<1>4. \A a \in Captured(q) : Kept(a)
  BY <1>3 DEF Captured
<1>5. ~ OfSchema(q, 4) => \A s \in Streams : StreamRow(s, Rev(q), made[q]) \in streams
  BY <1>1, <1>2 DEF RequestOK, RenderOK
<1>6. BoundStreams(q) \subseteq blobs
  BY <1>1, <1>2 DEF RequestOK, RenderOK, BoundStreams
<1>7. BoundObservation(q) \subseteq blobs
  BY <1>1, <1>2 DEF RequestOK, RenderOK, BoundObservation, Spatially
<1>8. Bound(q) \subseteq blobs
  BY <1>6, <1>7 DEF Bound
<1>9. \A m \in blobs : Kept(m)
  BY DEF MediaInv
<1> QED
  BY <1>1, <1>2, <1>4, <1>5, <1>8, <1>9

\* The worker records how far it got with a generation.
LEMMA RunStepInv ==
    ASSUME MediaInv, RequestInv, NEW q \in generations, NEW v \in RunStates,
           ran' = [ran EXCEPT ![q] = v],
           UNCHANGED <<disk, lost, storeVars, importVars, artifactVars, profile, runtime,
                       observations, streams, registered, generations, made>>,
           v = "rejected" => (Captured(q) \cup Bound(q)) \cap lost # {} \/ Stranded(q),
           v = "sent unverified" => OfSchema(q, 6) /\ (Bound(q) \ Superseded(q)) \cap lost # {}
    PROVE  RequestsOK
<1>0. UNCHANGED <<installed, target, req, blobs>>
  BY DEF artifactVars, storeVars
<1>t. q \in Requests /\ RequestOK(q) /\ ran \in [Requests -> RunStates]
  BY RequestTypes
<1>m. MediaOK
  BY PlacesOK
<1>g. RowsGrow
  BY DEF RowsGrow
<1>1. ran' \in [Requests -> RunStates] /\ ran'[q] = v /\ \A z \in Requests \ {q} : ran'[z] = ran[z]
  BY <1>t
<1>2. \A z \in Requests \ {q} : RequestOK(z)'
  BY <1>0, <1>1, <1>m, <1>g, RequestFrame DEF MediaOK
<1>s. /\ Captured(q)' = Captured(q) /\ Release(q)' = Release(q) /\ Rev(q)' = Rev(q)
      /\ \A n : OfSchema(q, n)' <=> OfSchema(q, n)
      /\ Stranded(q)' <=> Stranded(q)
      /\ Bound(q)' = Bound(q) /\ Superseded(q)' = Superseded(q)
  BY <1>0, <1>t, SameCapture
<1>3. CaptureOK(q)'
  BY <1>0, <1>t, <1>s DEF RequestOK, CaptureOK, Kept
<1>4. PlaneOK(q)'
  BY <1>0, <1>t, <1>s DEF RequestOK, PlaneOK, Rt
<1>5. RenderOK(q)'
  BY <1>0, <1>t, <1>s DEF RequestOK, RenderOK, Rt, Kept
<1>6. RunOK(q)'
  BY <1>0, <1>t, <1>1, <1>s DEF RequestOK, RunOK
<1>7. RequestOK(q)'
  BY <1>3, <1>4, <1>5, <1>6 DEF RequestOK
<1>8. RequestTypeOK'
  BY <1>0, <1>1 DEF RequestInv, RequestTypeOK, ArtifactTypeOK
<1>9. RowsOK'
  BY <1>0 DEF RequestInv, RowsOK
<1> QED
  BY <1>m, <1>g, <1>2, <1>7, <1>8, <1>9 DEF RequestsOK, RequestInv

\* The worker verifies: it rejects only what a fault took, or a stranded profile.
LEMMA VerifyOK ==
    ASSUME MediaInv, RequestInv, NEW q \in Requests, Verify(q)
    PROVE  RequestsOK
<1>0. q \in generations
  BY DEF Verify
<1>k. /\ req[q].pc = "done" /\ Rt(q) = made[q]
      /\ \A a \in Captured(q) \cup Bound(q) : Kept(a)
      /\ Bound(q) \subseteq blobs
      /\ ~ OfSchema(q, 4) => \A s \in Streams : StreamRow(s, Rev(q), made[q]) \in streams
  BY <1>0, InputsKept
<1>t. RequestOK(q) /\ profile[Release(q)] \in Profiles
  BY <1>k, RequestTypes DEF RequestOK, CaptureOK, Release, Coherently
<1>v. PICK v \in {"verified", "rejected"} : v = IF Verified(q) THEN "verified" ELSE "rejected"
  OBVIOUS
<1>1. ASSUME (Captured(q) \cup Bound(q)) \cap lost = {}, ~ Stranded(q) PROVE Verified(q)
  <2>1. \A a \in Captured(q) \cup Bound(q) : HashMatches(a)
    BY <1>k, <1>1 DEF Kept, HashMatches
  <2>2. ~ OfSchema(q, 4) => StreamsVerify(q)
    BY <1>k, <2>1 DEF StreamsVerify, Bound
  <2>3. OfSchema(q, 5) => profile[Release(q)] = "spatial"
    BY <1>t, <1>k, <1>1 DEF Stranded, Profiles, RequestOK, PlaneOK, Gated, Revised, Coherently
  <2>4. OfSchema(q, 6) => profile[Release(q)] = made[q] /\ Negotiate(Rev(q), Release(q)) = "SUPPORTED"
    BY <1>t, <1>k DEF RequestOK, PlaneOK, Gated, Revised, Coherently
  <2>5. OfSchema(q, 6) => \E o \in observations : o.rev = Rev(q) /\ o.contract = made[q]
    <3>1. OfSchema(q, 6) =>
            [rev |-> Rev(q), contract |-> made[q], package |-> Release(q)] \in observations
      BY <1>t, <1>k DEF RequestOK, RenderOK, Spatially
    <3> QED
      BY <3>1
  <2>6. OfSchema(q, 6) => ObservationVerifies(q)
    BY <1>k, <2>1, <2>4, <2>5 DEF ObservationVerifies, Bound
  <2>7. ~ (OfSchema(q, 4) /\ OfSchema(q, 5)) /\ ~ (OfSchema(q, 4) /\ OfSchema(q, 6))
    BY DEF OfSchema
  <2> QED
    BY <2>1, <2>2, <2>3, <2>6, <2>7 DEF Verified
<1>2. ran' = [ran EXCEPT ![q] = v]
  BY <1>v DEF Verify
<1>3. v = "rejected" => (Captured(q) \cup Bound(q)) \cap lost # {} \/ Stranded(q)
  BY <1>v, <1>1
<1> QED
  BY <1>0, <1>2, <1>3, RunStepInv DEF Verify, RunStates

\* The worker uploads: what leaves unverified is an observation that rotted.
LEMMA TransportOK ==
    ASSUME MediaInv, RequestInv, NEW q \in Requests, Transport(q)
    PROVE  RequestsOK
<1>0. q \in generations
  BY RequestTypes DEF Transport, RequestOK, RunOK
<1>k. \A a \in Captured(q) \cup Bound(q) : Kept(a)
  BY <1>0, InputsKept
<1>d. PICK states : states = {disk[p] : p \in Bound(q) \ Superseded(q)}
  OBVIOUS
<1>r. ran' = [ran EXCEPT ![q] =
                 CASE states \subseteq {"exact"} -> "sent"
                   [] OfSchema(q, 6) /\ "corrupt" \in states /\ "missing" \notin states
                        -> "sent unverified"
                   [] OTHER -> "rejected"]
  BY <1>d DEF Transport
<1>1. ~ (states \subseteq {"exact"}) => (Bound(q) \ Superseded(q)) \cap lost # {}
  BY <1>k, <1>d DEF Kept
<1>v. PICK v \in {"sent", "sent unverified", "rejected"} :
        /\ ran' = [ran EXCEPT ![q] = v]
        /\ v = "sent unverified" => OfSchema(q, 6) /\ ~ (states \subseteq {"exact"})
        /\ v = "rejected" => ~ (states \subseteq {"exact"})
  <2>1. CASE states \subseteq {"exact"}
    BY <1>r, <2>1
  <2>2. CASE OfSchema(q, 6) /\ "corrupt" \in states /\ "missing" \notin states
    BY <1>r, <2>2
  <2>3. CASE /\ ~ (states \subseteq {"exact"})
             /\ ~ (OfSchema(q, 6) /\ "corrupt" \in states /\ "missing" \notin states)
    BY <1>r, <2>3
  <2> QED
    BY <2>1, <2>2, <2>3
<1> QED
  BY <1>0, <1>1, <1>v, RunStepInv DEF Transport, RunStates

\* Another version of the program: requests in flight die, rows stay.
LEMMA UpgradeOK ==
    ASSUME MediaInv, RequestInv, NEW rt \in Runtimes, Upgrade(rt)
    PROVE  RequestsOK
<1>t. req \in [Requests -> RequestRow] /\ \A q \in Requests : RequestOK(q)
  BY RequestTypes
<1>0. /\ UNCHANGED <<disk, lost, storeVars, importVars, installed, target, profile,
                     observations, streams, registered, generations, made, ran>>
      /\ runtime' = rt /\ rt \in Runtimes
  BY DEF Upgrade
<1>m. MediaOK
  BY <1>0, PlacesOK
<1>g. RowsGrow
  BY <1>0 DEF RowsGrow
<1>1. ASSUME NEW q \in Requests PROVE req'[q] \in RequestRow /\ RequestOK(q)'
  <2>1. CASE InFlight(q)
    <3>1. PICK r : r = [req[q] EXCEPT !.pc = "refused"]
      OBVIOUS
    <3>2. r \in RequestRow /\ r.pc = "refused"
      BY <1>t, <3>1 DEF RequestRow, RequestPcs
    <3>3. req'[q] = r
      BY <2>1, <3>1 DEF Upgrade
    <3>4. q \notin generations /\ ran[q] = "queued"
      BY <2>1, NotYetRun DEF InFlight
    <3>5. RequestOK(q)'
      BY <1>0, <3>2, <3>3, <3>4 DEF RequestOK, CaptureOK, PlaneOK, RenderOK, RunOK,
            Coherently, Revised, Gated, Spatially
    <3> QED
      BY <3>2, <3>3, <3>5
  <2>2. CASE ~ InFlight(q)
    <3>1. req'[q] = req[q]
      BY <2>2 DEF Upgrade
    <3> QED
      BY <1>0, <1>t, <1>m, <1>g, <2>2, <3>1, RequestFrame DEF MediaOK
  <2> QED
    BY <2>1, <2>2
<1>2. req' \in [Requests -> RequestRow]
  BY <1>1 DEF Upgrade
<1>3. RequestTypeOK'
  BY <1>0, <1>2 DEF RequestInv, RequestTypeOK, ArtifactTypeOK, RequestRow
<1>4. RowsOK'
  BY <1>0 DEF RequestInv, RowsOK, storeVars
<1> QED
  BY <1>m, <1>g, <1>1, <1>3, <1>4 DEF RequestsOK, RequestInv

\* Every step of the requests, the installations and the worker.
LEMMA RequestingOK ==
    ASSUME MediaInv, RequestInv, Requesting
    PROVE  RequestsOK
<1>1. CASE ArtifactStep /\ UNCHANGED <<storeVars, importVars, requestVars>>
  <2>1. ASSUME NEW q \in Requests,
               ReadDescriptor(q) \/ FinishCapture(q) \/ \E k \in Kinds : ReadArtifact(q, k)
        PROVE  RequestsOK
    BY <1>1, <2>1, CaptureReleaseOK
  <2>2. ASSUME NEW q \in Requests, NEW k \in Kinds, PlaceArtifact(q, k) PROVE RequestsOK
    BY <1>1, <2>2, PlaceArtifactOK
  <2>3. ASSUME (\E r \in Releases : BeginInstall(r)) \/ (\E f \in Files : InstallFile(f))
        PROVE  RequestsOK
    BY <1>1, <2>3, InstallOK
  <2> QED
    BY <1>1, <2>1, <2>2, <2>3 DEF ArtifactStep
<1>2. CASE RequestStep
  BY <1>2, GateOK, ObservationBytesOK, ConvergeOK, StreamBytesOK, RegisterOK, InsertOK,
     VerifyOK, TransportOK, UpgradeOK DEF RequestStep
<1> QED
  BY <1>1, <1>2 DEF Requesting

-----------------------------------------------------------------------------
(* The instance: bytes, rows and requests together.                        *)

CoreInv == MediaInv /\ RequestInv

\* Nothing is placed or requested at first.
LEMMA CoreInit == ASSUME Init PROVE CoreInv
<1>1. MediaInv
  <2>1. /\ disk = [p \in Paths |-> "missing"] /\ lost = {} /\ blobs = {} /\ assets = {} /\ repairs = {}
        /\ up = [u \in Uploads |-> [pc |-> "idle", media |-> NoMedia, seen |-> FALSE,
                                    placed |-> FALSE]]
        /\ imp = [i \in Importers |-> [pc |-> "idle", hash |-> NoMedia, fd |-> "closed"]]
        /\ active = TRUE /\ executor \in Executors /\ owner = NoOne /\ status = "running"
        /\ take = NoMedia /\ staging = "missing"
    BY DEF Init, DiskInit, StoreInit
  <2>2. StoreTypeOK
    BY <2>1 DEF StoreTypeOK, DiskTypeOK, FileStates, UploadPcs, ImportPcs
  <2>3. \A u \in Uploads : UploadOK(u)
    BY <2>1 DEF UploadOK
  <2>4. \A i \in Importers : ImportOK(i)
    BY <2>1 DEF ImportOK
  <2> QED
    BY <2>1, <2>2, <2>3, <2>4 DEF MediaInv
<1>2. RequestInv
  <2>1. /\ \E r \in Releases : installed = [f \in Files |-> r] /\ target = r
        /\ req = [q \in Requests |-> [pc |-> "idle", d1 |-> NoRelease,
                                      read |-> [k \in Kinds |-> NoRelease], placed |-> {},
                                      rev |-> NoRevision]]
        /\ profile \in [Releases -> Profiles] /\ runtime \in Runtimes
        /\ observations = {} /\ streams = {} /\ generations = {}
        /\ registered = [q \in Requests |-> {}] /\ made = [q \in Requests |-> runtime]
        /\ ran = [q \in Requests |-> "queued"]
    BY DEF Init, ArtifactInit, RequestInit
  <2>2. RequestTypeOK
    BY <2>1 DEF RequestTypeOK, ArtifactTypeOK, RequestPcs, RunStates
  <2>3. ASSUME NEW q \in Requests PROVE RequestOK(q)
    <3>1. /\ req[q].pc = "idle" /\ req[q].placed = {} /\ registered[q] = {}
          /\ ran[q] = "queued" /\ q \notin generations
      BY <2>1
    <3> QED
      BY <3>1 DEF RequestOK, CaptureOK, PlaneOK, RenderOK, RunOK, Coherently, Revised, Gated,
            Spatially
  <2>4. RowsOK
    BY <2>1 DEF RowsOK
  <2> QED
    BY <2>2, <2>3, <2>4 DEF RequestInv
<1> QED
  BY <1>1, <1>2 DEF CoreInv

\* Every step keeps the bytes, the rows and the requests, and only adds rows.
LEMMA CoreNextOK ==
    ASSUME CoreInv, OneWriter, [Next]_vars
    PROVE  CoreInv' /\ Grows /\ RowsGrow
<1> USE DEF CoreInv
<1>1. CASE Writing
  <2>1. MediaOK /\ UNCHANGED <<artifactVars, requestVars>>
    BY <1>1, StoreStepOK DEF Writing
  <2>2. RequestInv'
    BY <2>1, RequestsFrame DEF MediaOK
  <2> QED
    BY <2>1, <2>2 DEF MediaOK, RowsGrow, requestVars
<1>2. CASE Requesting
  BY <1>2, RequestingOK DEF RequestsOK, MediaOK
<1>3. CASE UNCHANGED instanceVars
  <2>1. UNCHANGED <<disk, lost, storeVars, importVars, artifactVars, requestVars>>
    BY <1>3 DEF instanceVars
  <2>2. MediaOK
    BY <2>1, PlacesOK
  <2>3. RequestInv'
    BY <2>1, <2>2, RequestsFrame DEF MediaOK
  <2> QED
    BY <2>1, <2>2, <2>3 DEF MediaOK, RowsGrow, requestVars
<1>4. CASE Faulting
  <2>1. MediaOK /\ UNCHANGED <<artifactVars, requestVars>>
    BY <1>4, DiskFaultOK DEF Faulting
  <2>2. RequestInv'
    BY <2>1, RequestsFrame DEF MediaOK
  <2> QED
    BY <2>1, <2>2 DEF MediaOK, RowsGrow, requestVars
<1>5. CASE BackupStep
  BY <1>3, <1>5 DEF BackupStep, Snapshot, OpenBackup, CopyVerified, VerifyStage, CheckAbsent,
     Rename, JobDies, HashSource, VaultFault
<1> QED
  BY <1>1, <1>2, <1>3, <1>4, <1>5 DEF Next, vars

\* The instance invariant holds for any number of uploads, owners, requests,
\* releases, revisions, runtimes and disk faults.
THEOREM CoreHolds ==
    ASSUME OneWriter PROVE Spec => []CoreInv
<1>1. Init => CoreInv
  BY CoreInit
<1>2. CoreInv /\ [Next]_vars => CoreInv'
  BY CoreNextOK
<1> QED
  BY <1>1, <1>2, PTL DEF Spec

\* A registered row has its exact bytes on disk unless a disk fault took them, a
\* logged repair is one, and a published Take is the executor's whole output
\* (assets/upload.py, generation/importer.py: bytes first, rows afterwards).
THEOREM StoreKeepsItsWord ==
    ASSUME OneWriter PROVE Spec => []BytesKept
<1>1. CoreInv => BytesKept
  <2> SUFFICES ASSUME CoreInv PROVE BytesKept
    OBVIOUS
  <2>1. RegisteredBytesKept
    BY DEF CoreInv, MediaInv, RegisteredBytesKept, Kept
  <2>2. repairs \subseteq Uploads /\ \A u \in Uploads : UploadOK(u)
    BY DEF CoreInv, MediaInv, StoreTypeOK
  <2>3. RepairsAreHonest
    BY <2>2 DEF RepairsAreHonest, UploadOK
  <2>4. TakeIsWhole
    BY DEF CoreInv, MediaInv, TakeIsWhole
  <2> QED
    BY <2>1, <2>3, <2>4 DEF BytesKept
<1> QED
  BY <1>1, CoreHolds, PTL

\* No step of the program spoils bytes that are in place, registered or not:
\* only a disk fault takes them (assets/blob_store.py: an identical file wins,
\* everything else is replaced by one rename).
THEOREM PlacedBytesStayInPlace ==
    ASSUME OneWriter PROVE Spec => PlacedBytesStay
<1>1. ASSUME CoreInv, [Next]_vars
      PROVE  [\A m \in BlobPaths : disk[m] = "exact" /\ disk'[m] # "exact"
                                     => m \in lost' \ lost]_StoreVars
  BY <1>1, CoreNextOK DEF Grows, Paths
<1> QED
  BY <1>1, CoreHolds, PTL DEF Spec, PlacedBytesStay

\* A generation can be run from what it captured: one release, whole, with the
\* control media its own capture rendered, whatever is installed and whichever
\* version of the program runs by then (generation/service.py,
\* spatial/worker_inputs.py, worker/comfy_pipeline.py).
THEOREM GenerationsStayRunnable ==
    ASSUME OneWriter PROVE Spec => []ReleasesKept
<1>1. CoreInv => ReleasesKept
  <2> SUFFICES ASSUME CoreInv PROVE ReleasesKept
    OBVIOUS
  <2>t. MediaInv /\ RequestInv /\ generations \subseteq Requests
    BY RequestTypes DEF CoreInv
  <2>0. ASSUME NEW q \in generations
        PROVE  /\ q \in Requests /\ RequestOK(q) /\ req[q].pc = "done" /\ Rt(q) = made[q]
               /\ \A a \in Captured(q) \cup Bound(q) : Kept(a)
    BY <2>t, InputsKept, RequestTypes
  <2>1. CapturedIsOneRelease
    BY <2>0 DEF CapturedIsOneRelease, RequestOK, CaptureOK, Coherently
  <2>2. NamedArtifactsKept
    BY <2>0 DEF NamedArtifactsKept, NamedArtifacts, Kept
  <2>3. ReplayAccepts /\ TransportIsExact
    BY <2>0 DEF ReplayAccepts, TransportIsExact, RequestOK, RunOK
  <2>4. ASSUME NEW q \in generations, OfSchema(q, 6)
        PROVE  /\ [rev |-> Rev(q), contract |-> made[q], package |-> Release(q)] \in observations
               /\ Readiness(Rev(q), Release(q)) = "supported"
               /\ Inspectable(q) \/ Captured(q) \cap lost # {}
    <3>1. [rev |-> Rev(q), contract |-> made[q], package |-> Release(q)] \in observations
      BY <2>0, <2>4 DEF RequestOK, RenderOK, Spatially
    <3>2. profile[Release(q)] = made[q] /\ Negotiate(Rev(q), Release(q)) = "SUPPORTED"
      BY <2>0, <2>4 DEF RequestOK, PlaneOK, Gated, Revised, Coherently
    <3>3. Readiness(Rev(q), Release(q)) = "supported"
      BY <2>0, <2>t, <3>2, RequestTypes DEF Readiness
    <3>4. \E o \in observations : o.rev = Rev(q) /\ o.contract = made[q]
      BY <3>1
    <3>5. Inspectable(q) \/ Captured(q) \cap lost # {}
      BY <2>0, <3>2, <3>4 DEF Inspectable, Kept, HashMatches
    <3> QED
      BY <3>1, <3>3, <3>5
  <2>5. ObservationsAreOwn
    BY <2>4 DEF ObservationsAreOwn
  <2> QED
    BY <2>t, <2>1, <2>2, <2>3, <2>5 DEF ReleasesKept, RequestInv
<1> QED
  BY <1>1, CoreHolds, PTL

-----------------------------------------------------------------------------
(* What a snapshot names: rows whose bytes are kept, and it only grows.    *)

\* Every content a snapshot of this moment names is kept.
LEMMA LiveKept ==
    ASSUME CoreInv
    PROVE  /\ CurrentDb \in Database /\ Live(CurrentDb) \subseteq Paths
           /\ \A p \in Live(CurrentDb) : Kept(p)
<1>t. MediaInv /\ RequestInv /\ StoreTypeOK
  BY DEF CoreInv, MediaInv
<1>1. {up[u].media : u \in assets} \subseteq blobs
  BY <1>t, MediaTypes DEF StoreTypeOK, UploadOK
<1>2. {take} \ {NoMedia} \subseteq blobs
  BY <1>t DEF MediaInv
<1>3. DerivedLive \subseteq blobs
  BY <1>t DEF RequestInv, RowsOK, DerivedLive
<1>4. LiveBlobs \subseteq blobs /\ blobs \subseteq BlobPaths
  BY <1>t, <1>1, <1>2, <1>3 DEF LiveBlobs, StoreTypeOK
<1>5. \A a \in NamedArtifacts : a \in Artifacts /\ Kept(a)
  <2>1. ASSUME NEW q \in generations, NEW a \in Captured(q) PROVE a \in Artifacts /\ Kept(a)
    <3>1. q \in Requests /\ req[q].pc = "done" /\ Kept(a)
      BY <1>t, <2>1, InputsKept
    <3>2. Captured(q) \subseteq Artifacts
      BY <1>t, <3>1, CapturedPaths DEF Revised, Coherently
    <3> QED
      BY <2>1, <3>1, <3>2
  <2> QED
    BY <2>1 DEF NamedArtifacts
<1>6. \A p \in LiveBlobs : p \in BlobPaths /\ Kept(p)
  BY <1>t, <1>4 DEF MediaInv
<1> QED
  BY <1>5, <1>6 DEF CurrentDb, Database, Live, Paths

\* Uploads that are committed stay as they are, a Take stays.
LEMMA MediaRowsStay ==
    ASSUME CoreInv, StoreStep
    PROVE  /\ {up[u].media : u \in assets} \subseteq {up[u].media : u \in assets}'
           /\ {take} \ {NoMedia} \subseteq ({take} \ {NoMedia})'
<1>t. MediaInv /\ up \in [Uploads -> UploadRow] /\ assets \subseteq Uploads
  BY MediaTypes DEF CoreInv, MediaInv, StoreTypeOK
<1>d. \A u \in assets : up[u].pc = "done"
  BY <1>t, MediaTypes DEF UploadOK
<1>1. CASE \E u \in Uploads :
              \/ \E m \in Media \ {Torn} : StreamToTemp(u, m)
              \/ CheckRegistered(u) \/ UploadInspect(u) \/ UploadReplace(u)
              \/ UploadCommit(u) \/ UploadFail(u)
  <2>1. PICK u \in Uploads :
              \/ \E m \in Media \ {Torn} : StreamToTemp(u, m)
              \/ CheckRegistered(u) \/ UploadInspect(u) \/ UploadReplace(u)
              \/ UploadCommit(u) \/ UploadFail(u)
    BY <1>1
  <2>2. up[u].pc # "done" /\ assets \subseteq assets' /\ \E r : up' = [up EXCEPT ![u] = r]
    BY <2>1 DEF StreamToTemp, CheckRegistered, UploadInspect, UploadReplace, UploadCommit,
          UploadFail, UploadAt, SetUpload
  <2>3. \A v \in assets : v \in assets' /\ up'[v] = up[v]
    BY <1>t, <1>d, <2>2
  <2>4. take' = take
    BY <2>1 DEF StreamToTemp, CheckRegistered, UploadInspect, UploadReplace, UploadCommit,
          UploadFail, importVars
  <2> QED
    BY <2>3, <2>4
<1>2. CASE DeleteProject
  BY <1>2 DEF DeleteProject, importVars
<1>3. ASSUME NEW i \in Importers,
             \/ Adopt(i) \/ FakeOpen(i) \/ FakeClose(i) \/ EnterImporting(i)
             \/ PublishNoClobber(i) \/ HashStaged(i) \/ ImportInspect(i)
             \/ ImportReplace(i) \/ PublishTake(i) \/ FinishImport(i) \/ ImporterDies(i)
      PROVE  UNCHANGED <<assets, up>> /\ (take # NoMedia => take' = take)
  BY <1>3 DEF Adopt, FakeOpen, FakeClose, EnterImporting, PublishNoClobber, HashStaged,
        ImportInspect, ImportReplace, PublishTake, FinishImport, ImporterDies, storeVars
<1>4. CASE \E i \in Importers :
              \/ Adopt(i) \/ FakeOpen(i) \/ FakeClose(i) \/ EnterImporting(i)
              \/ PublishNoClobber(i) \/ HashStaged(i) \/ ImportInspect(i)
              \/ ImportReplace(i) \/ PublishTake(i) \/ FinishImport(i) \/ ImporterDies(i)
  BY <1>3, <1>4
<1> QED
  BY <1>1, <1>2, <1>4 DEF StoreStep

\* Committed generations stay, with what they captured.
LEMMA GenerationsStay ==
    ASSUME CoreInv, Requesting
    PROVE  NamedArtifacts \subseteq NamedArtifacts' /\ UNCHANGED <<assets, up, take>>
<1>t. RequestInv /\ req \in [Requests -> RequestRow] /\ generations \subseteq Requests
  BY RequestTypes DEF CoreInv
<1>d. \A q \in generations : req[q].pc = "done"
  BY <1>t, RequestTypes DEF RequestOK, RunOK
<1>1. ASSUME generations \subseteq generations', \A q \in generations : req'[q].read = req[q].read
      PROVE  NamedArtifacts \subseteq NamedArtifacts'
  <2>1. \A q \in generations : Captured(q)' = Captured(q)
    BY <1>1 DEF Captured
  <2> QED
    BY <1>1, <2>1 DEF NamedArtifacts
<1>2. CASE ArtifactStep /\ UNCHANGED <<storeVars, importVars, requestVars>>
  <2>1. UNCHANGED <<assets, up, take, generations>>
    BY <1>2 DEF storeVars, importVars, requestVars
  <2>a. ASSUME NEW q \in Requests,
               \/ ReadDescriptor(q) \/ FinishCapture(q)
               \/ \E k \in Kinds : ReadArtifact(q, k) \/ PlaceArtifact(q, k)
        PROVE  \E r : req[q].pc # "done" /\ req' = [req EXCEPT ![q] = r]
    <3>1. CASE ReadDescriptor(q)
      BY <3>1 DEF ReadDescriptor, RequestAt
    <3>2. CASE FinishCapture(q)
      BY <3>2 DEF FinishCapture, RequestAt
    <3>3. ASSUME NEW k \in Kinds, ReadArtifact(q, k)
          PROVE  \E r : req[q].pc # "done" /\ req' = [req EXCEPT ![q] = r]
      BY <3>3 DEF ReadArtifact, RequestAt
    <3>4. ASSUME NEW k \in Kinds, PlaceArtifact(q, k)
          PROVE  \E r : req[q].pc # "done" /\ req' = [req EXCEPT ![q] = r]
      BY <3>4 DEF PlaceArtifact, RequestAt
    <3> QED
      BY <2>a, <3>1, <3>2, <3>3, <3>4
  <2>2. (\E q \in Requests : \E r : req[q].pc # "done" /\ req' = [req EXCEPT ![q] = r]) \/ req' = req
    BY <1>2, <2>a DEF ArtifactStep, BeginInstall, InstallFile
  <2>3. \A q \in generations : req'[q] = req[q]
    BY <1>t, <1>d, <2>2
  <2> QED
    BY <1>1, <2>1, <2>3
<1>3. CASE \E q \in Requests :
              \/ \E rev \in Revisions : CaptureRevision(q, rev)
              \/ RefuseRequest(q) \/ Gate(q)
              \/ RenderObservation(q) \/ ListObservation(q) \/ ConvergeObservation(q)
              \/ RenderStreams(q) \/ ListStreams(q)
              \/ \E s \in Streams : RegisterStream(q, s)
              \/ InsertGeneration(q) \/ Verify(q) \/ Transport(q)
  <2>1. PICK q \in Requests :
              \/ \E rev \in Revisions : CaptureRevision(q, rev)
              \/ RefuseRequest(q) \/ Gate(q)
              \/ RenderObservation(q) \/ ListObservation(q) \/ ConvergeObservation(q)
              \/ RenderStreams(q) \/ ListStreams(q)
              \/ \E s \in Streams : RegisterStream(q, s)
              \/ InsertGeneration(q) \/ Verify(q) \/ Transport(q)
    BY <1>3
  <2>2. UNCHANGED <<assets, up, take>> /\ generations \subseteq generations'
    BY <2>1 DEF CaptureRevision, RefuseRequest, Gate, RenderObservation, ListObservation,
          ConvergeObservation, RenderStreams, ListStreams, RegisterStream, InsertGeneration,
          Verify, Transport, OnlyRequest, storeVars, importVars, requestVars
  <2>3. (\E r : req[q].pc # "done" /\ req' = [req EXCEPT ![q] = r]) \/ req' = req
    BY <2>1 DEF CaptureRevision, RefuseRequest, Gate, RenderObservation, ListObservation,
          ConvergeObservation, RenderStreams, ListStreams, RegisterStream, InsertGeneration,
          Verify, Transport, RequestAt, Move, InFlight, artifactVars
  <2>4. \A z \in generations : req'[z] = req[z]
    BY <1>t, <1>d, <2>3
  <2> QED
    BY <1>1, <2>2, <2>4
<1>4. ASSUME NEW rt \in Runtimes, Upgrade(rt)
      PROVE  NamedArtifacts \subseteq NamedArtifacts' /\ UNCHANGED <<assets, up, take>>
  <2>1. UNCHANGED <<assets, up, take, generations>>
    BY <1>4 DEF Upgrade, storeVars, importVars
  <2>2. \A q \in generations : req'[q] = req[q]
    BY <1>t, <1>d, <1>4 DEF Upgrade, InFlight
  <2> QED
    BY <1>1, <2>1, <2>2
<1> QED
  BY <1>2, <1>3, <1>4 DEF Requesting, RequestStep

\* What the database refers to only grows.
LEMMA LiveGrows ==
    ASSUME CoreInv, OneWriter, [Next]_vars
    PROVE  /\ Live(CurrentDb) \subseteq Live(CurrentDb)'
           /\ UNCHANGED instanceVars => Live(CurrentDb)' = Live(CurrentDb)
<1>1. RowsGrow
  BY CoreNextOK
<1>2. DerivedLive \subseteq DerivedLive'
  BY <1>1 DEF RowsGrow, DerivedLive
<1>3. ASSUME UNCHANGED instanceVars
      PROVE  LiveBlobs' = LiveBlobs /\ NamedArtifacts' = NamedArtifacts
  <2>1. UNCHANGED <<up, assets, take, observations, streams, generations, req>>
    BY <1>3 DEF instanceVars, storeVars, importVars, artifactVars, requestVars
  <2>2. DerivedLive' = DerivedLive
    BY <2>1 DEF DerivedLive
  <2>3. LiveBlobs' = LiveBlobs
    BY <2>1, <2>2 DEF LiveBlobs
  <2>4. NamedArtifacts' = NamedArtifacts
    BY <2>1 DEF NamedArtifacts, Captured
  <2> QED
    BY <2>3, <2>4
<1>4. CASE Writing
  <2>1. UNCHANGED <<req, generations>>
    BY <1>4 DEF Writing, artifactVars, requestVars
  <2>2. NamedArtifacts' = NamedArtifacts
    BY <2>1 DEF NamedArtifacts, Captured
  <2>3. LiveBlobs \subseteq LiveBlobs'
    BY <1>2, <1>4, MediaRowsStay DEF Writing, LiveBlobs
  <2> QED
    BY <1>3, <2>2, <2>3 DEF Live, CurrentDb
<1>5. CASE Requesting
  <2>1. LiveBlobs \subseteq LiveBlobs' /\ NamedArtifacts \subseteq NamedArtifacts'
    BY <1>2, <1>5, GenerationsStay DEF LiveBlobs
  <2> QED
    BY <1>3, <2>1 DEF Live, CurrentDb
<1>6. CASE UNCHANGED instanceVars
  BY <1>3, <1>6 DEF Live, CurrentDb
<1>7. CASE Faulting
  <2>1. UNCHANGED <<up, assets, take, observations, streams, generations, req>>
    BY <1>7 DEF Faulting, storeVars, importVars, artifactVars, requestVars
  <2>2. NamedArtifacts' = NamedArtifacts
    BY <2>1 DEF NamedArtifacts, Captured
  <2>3. LiveBlobs \subseteq LiveBlobs'
    BY <1>2, <2>1 DEF LiveBlobs
  <2> QED
    BY <1>3, <2>2, <2>3 DEF Live, CurrentDb
<1>8. CASE BackupStep
  BY <1>6, <1>8 DEF BackupStep, Snapshot, OpenBackup, CopyVerified, VerifyStage, CheckAbsent,
     Rename, JobDies, HashSource, VaultFault
<1> QED
  BY <1>4, <1>5, <1>6, <1>7, <1>8 DEF Next, vars

-----------------------------------------------------------------------------
(* The inductive invariant: backups and restores.                          *)

Commands == Backups \cup Restores
JobRow == [pc : JobPcs, db : Database, files : [Paths -> FileStates], checking : SUBSET Paths]

\* A command copies what its database names; the database is an earlier one of
\* the instance, or the one in the vault; what is staged is complete.
JobOK(j) ==
    /\ \A p \in Paths : job[j].files[p] # "corrupt"
    /\ job[j].checking \subseteq Live(job[j].db)
    /\ job[j].pc = "idle" => job[j].checking = {}
    /\ job[j].pc \in {"copying", "staged", "publishing"} =>
         IF j \in Backups THEN Live(job[j].db) \subseteq Live(CurrentDb)
         ELSE vault # NoTree /\ job[j].db = vault.db
    /\ job[j].pc \in {"staged", "publishing"} => Complete(job[j].db, job[j].files)
    /\ job[j].pc = "corrupt" => IF j \in Backups THEN lost # {} ELSE vaultFaults > 0

VaultOK ==
    /\ vault # NoTree /\ vaultFaults = 0 => Complete(vault.db, vault.files)
    /\ root # NoTree => vault # NoTree

JobsInv ==
    /\ job \in [Commands -> JobRow]
    /\ vault \in Tree \cup {NoTree} /\ root \in Tree \cup {NoTree} /\ vaultFaults \in Nat
    /\ \A j \in Commands : JobOK(j)
    /\ VaultOK /\ RestoredIsComplete

\* A tree of files is never the absent one.
LEMMA TreesExist == ASSUME NEW t \in Tree PROVE t # NoTree
<1>1. "files" \in DOMAIN t
  BY DEF Tree
<1>2. "files" \notin DOMAIN NoTree
  BY DEF NoTree
<1> QED
  BY <1>1, <1>2

\* A command under the steps of everything else.
LEMMA JobFrame ==
    ASSUME JobsInv, NEW j \in Commands, job'[j] = job[j], lost \subseteq lost',
           Live(CurrentDb) \subseteq Live(CurrentDb)',
           vaultFaults' \in Nat, vaultFaults' >= vaultFaults,
           vault # NoTree => vault' # NoTree /\ vault'.db = vault.db
    PROVE  JobOK(j)'
BY DEF JobsInv, JobOK

\* One command moves; instance and trees stay.
LEMMA JobStepInv ==
    ASSUME JobsInv, UNCHANGED <<lost, vault, vaultFaults, root>>,
           Live(CurrentDb)' = Live(CurrentDb),
           NEW j \in Commands, NEW r \in JobRow, job' = [job EXCEPT ![j] = r], JobOK(j)'
    PROVE  JobsInv'
<1>1. /\ job' \in [Commands -> JobRow] /\ \A k \in Commands \ {j} : job'[k] = job[k]
      /\ vaultFaults \in Nat
  BY DEF JobsInv
<1>2. \A k \in Commands : JobOK(k)'
  BY <1>1, JobFrame
<1> QED
  BY <1>1, <1>2 DEF JobsInv, VaultOK, RestoredIsComplete

\* The instance moves; commands and trees stay.
LEMMA JobsFrame ==
    ASSUME JobsInv, UNCHANGED backupVars, lost \subseteq lost',
           Live(CurrentDb) \subseteq Live(CurrentDb)'
    PROVE  JobsInv'
<1>0. UNCHANGED <<job, vault, vaultFaults, root>> /\ vaultFaults \in Nat
  BY DEF backupVars, JobsInv
<1>1. \A k \in Commands : JobOK(k)'
  BY <1>0, JobFrame
<1> QED
  BY <1>0, <1>1 DEF JobsInv, VaultOK, RestoredIsComplete

\* A command reports corruption.
LEMMA FailInv ==
    ASSUME JobsInv, UNCHANGED <<lost, vault, vaultFaults, root>>,
           Live(CurrentDb)' = Live(CurrentDb), NEW j \in Commands, Fail(j),
           IF j \in Backups THEN lost # {} ELSE vaultFaults > 0
    PROVE  JobsInv'
<1>t. job[j] \in JobRow /\ job \in [Commands -> JobRow]
  BY DEF JobsInv
<1>1. PICK r : r = [job[j] EXCEPT !.pc = "corrupt", !.files = Empty, !.checking = {}]
  OBVIOUS
<1>2. r \in JobRow /\ r.pc = "corrupt" /\ r.files = Empty /\ r.checking = {}
  BY <1>t, <1>1 DEF JobRow, JobPcs, Empty, FileStates
<1>3. job' = [job EXCEPT ![j] = r] /\ job'[j] = r
  BY <1>t, <1>1 DEF Fail
<1>4. JobOK(j)'
  BY <1>2, <1>3 DEF JobOK, Empty
<1> QED
  BY <1>2, <1>3, <1>4, JobStepInv

\* A source that fails its hash was hit by a fault.
LEMMA SourceFaults ==
    ASSUME CoreInv, JobsInv, NEW j \in Commands, NEW p \in Live(job[j].db),
           job[j].pc = "copying", SourceFiles(j)[p] # "exact"
    PROVE  IF j \in Backups THEN lost # {} ELSE vaultFaults > 0
<1>j. JobOK(j) /\ VaultOK /\ vaultFaults \in Nat
  BY DEF JobsInv
<1>1. CASE j \in Backups
  <2>1. p \in Live(CurrentDb) /\ disk[p] # "exact"
    BY <1>1, <1>j DEF JobOK, SourceFiles
  <2> QED
    BY <1>1, <2>1, LiveKept DEF Kept
<1>2. CASE j \notin Backups
  <2>1. vault # NoTree /\ p \in Live(vault.db) /\ vault.files[p] # "exact"
    BY <1>2, <1>j DEF JobOK, SourceFiles
  <2> QED
    BY <1>2, <1>j, <2>1 DEF VaultOK, Complete
<1> QED
  BY <1>1, <1>2

\* The steps of a command that leave the trees alone.
LEMMA CopyStepsOK ==
    ASSUME CoreInv, JobsInv, Live(CurrentDb)' = Live(CurrentDb), UNCHANGED instanceVars,
           NEW j \in Commands,
           \/ \E p \in Paths : HashSource(j, p)
           \/ CopyVerified(j) \/ VerifyStage(j) \/ CheckAbsent(j) \/ JobDies(j)
    PROVE  JobsInv'
<1>t. /\ job[j] \in JobRow /\ job \in [Commands -> JobRow] /\ JobOK(j)
      /\ Live(job[j].db) \subseteq Paths
  BY DEF JobsInv, JobRow, Database, Live, Paths
<1>0. UNCHANGED <<lost, vault, vaultFaults, root>>
  BY DEF HashSource, CopyVerified, VerifyStage, CheckAbsent, JobDies, instanceVars
<1>s. ASSUME NEW r \in JobRow, job' = [job EXCEPT ![j] = r], JobOK(j)' PROVE JobsInv'
  BY <1>0, <1>s, JobStepInv
<1>1. ASSUME NEW p \in Paths, HashSource(j, p) PROVE JobsInv'
  <2>0. job[j].pc = "copying" /\ p \in Live(job[j].db)
    BY <1>1 DEF HashSource, JobAt
  <2>1. CASE SourceFiles(j)[p] = "exact"
    <3>1. PICK r : r = [job[j] EXCEPT !.checking = {p}]
      OBVIOUS
    <3>2. /\ r \in JobRow /\ r.pc = "copying" /\ r.db = job[j].db /\ r.files = job[j].files
          /\ r.checking = {p}
      BY <1>t, <2>0, <3>1 DEF JobRow
    <3>3. job' = [job EXCEPT ![j] = r] /\ job'[j] = r
      BY <1>t, <1>1, <2>1, <3>1 DEF HashSource
    <3>4. JobOK(j)'
      BY <1>0, <1>t, <2>0, <3>2, <3>3 DEF JobOK
    <3> QED
      BY <1>s, <3>2, <3>3, <3>4
  <2>2. CASE SourceFiles(j)[p] # "exact"
    BY <1>0, <1>1, <2>0, <2>2, SourceFaults, FailInv DEF HashSource
  <2> QED
    BY <2>1, <2>2
<1>2. CASE CopyVerified(j)
  <2>0. PICK p \in job[j].checking :
          IF SourceFiles(j)[p] = "exact"
          THEN job' = [job EXCEPT ![j].files[p] = "exact", ![j].checking = {}]
          ELSE Fail(j)
    BY <1>2 DEF CopyVerified
  <2>p. p \in Live(job[j].db) /\ p \in Paths /\ job[j].pc = "copying"
    BY <1>2, <1>t, <2>0 DEF CopyVerified, JobAt, JobOK
  <2>1. CASE SourceFiles(j)[p] = "exact"
    <3>1. PICK r : r = [job[j] EXCEPT !.files[p] = "exact", !.checking = {}]
      OBVIOUS
    <3>2. /\ r \in JobRow /\ r.pc = "copying" /\ r.db = job[j].db /\ r.checking = {}
          /\ r.files = [job[j].files EXCEPT ![p] = "exact"]
      BY <1>t, <2>p, <3>1 DEF JobRow, FileStates
    <3>3. job' = [job EXCEPT ![j] = r] /\ job'[j] = r
      BY <1>t, <2>0, <2>1, <3>1
    <3>f. \A x \in Paths : r.files[x] # "corrupt"
      BY <1>t, <2>p, <3>2 DEF JobOK, JobRow
    <3>4. JobOK(j)'
      BY <1>0, <1>t, <2>p, <3>2, <3>3, <3>f DEF JobOK
    <3> QED
      BY <1>s, <3>2, <3>3, <3>4
  <2>2. CASE SourceFiles(j)[p] # "exact"
    BY <1>0, <2>0, <2>p, <2>2, SourceFaults, FailInv
  <2> QED
    BY <2>1, <2>2
<1>3. CASE VerifyStage(j)
  <2>0. /\ job[j].pc = "copying" /\ job[j].checking = {}
        /\ \A p \in Live(job[j].db) : job[j].files[p] # "missing"
    BY <1>3 DEF VerifyStage, JobAt
  <2>1. Complete(job[j].db, job[j].files)
    BY <1>t, <2>0 DEF Complete, JobOK, JobRow, FileStates
  <2>2. PICK r : r = [job[j] EXCEPT !.pc = "staged"]
    OBVIOUS
  <2>3. /\ r \in JobRow /\ r.pc = "staged" /\ r.db = job[j].db /\ r.files = job[j].files
        /\ r.checking = job[j].checking
    BY <1>t, <2>2 DEF JobRow, JobPcs
  <2>4. job' = [job EXCEPT ![j] = r] /\ job'[j] = r
    BY <1>t, <1>3, <2>1, <2>2 DEF VerifyStage
  <2>5. JobOK(j)'
    BY <1>0, <1>t, <2>0, <2>1, <2>3, <2>4 DEF JobOK
  <2> QED
    BY <1>s, <2>3, <2>4, <2>5
<1>4. CASE CheckAbsent(j)
  <2>0. job[j].pc = "staged"
    BY <1>4 DEF CheckAbsent, JobAt
  <2>p. PICK p \in {"publishing", "failed"} :
          p = IF Destination(j) = NoTree THEN "publishing" ELSE "failed"
    OBVIOUS
  <2>2. PICK r : r = [job[j] EXCEPT !.pc = p]
    OBVIOUS
  <2>3. /\ r \in JobRow /\ r.pc = p /\ r.db = job[j].db /\ r.files = job[j].files
        /\ r.checking = job[j].checking
    BY <1>t, <2>2 DEF JobRow, JobPcs
  <2>4. job' = [job EXCEPT ![j] = r] /\ job'[j] = r
    BY <1>t, <1>4, <2>p, <2>2 DEF CheckAbsent
  <2>5. JobOK(j)'
    BY <1>0, <1>t, <2>0, <2>3, <2>4 DEF JobOK
  <2> QED
    BY <1>s, <2>3, <2>4, <2>5
<1>5. CASE JobDies(j)
  <2>2. PICK r : r = [job[j] EXCEPT !.pc = "failed", !.checking = {}]
    OBVIOUS
  <2>3. /\ r \in JobRow /\ r.pc = "failed" /\ r.db = job[j].db /\ r.files = job[j].files
        /\ r.checking = {}
    BY <1>t, <2>2 DEF JobRow, JobPcs
  <2>4. job' = [job EXCEPT ![j] = r] /\ job'[j] = r
    BY <1>t, <1>5, <2>2 DEF JobDies
  <2>5. JobOK(j)'
    BY <1>0, <1>t, <2>3, <2>4 DEF JobOK
  <2> QED
    BY <1>s, <2>3, <2>4, <2>5
<1> QED
  BY <1>1, <1>2, <1>3, <1>4, <1>5

\* A backup takes its snapshot, a restore verifies the backup it is given.
LEMMA OpeningOK ==
    ASSUME CoreInv, JobsInv, Live(CurrentDb)' = Live(CurrentDb), UNCHANGED instanceVars,
           (\E b \in Backups : Snapshot(b)) \/ (\E r \in Restores : OpenBackup(r))
    PROVE  JobsInv'
<1>0. UNCHANGED <<lost, vault, vaultFaults, root>>
  BY DEF Snapshot, OpenBackup, instanceVars
<1>1. ASSUME NEW b \in Backups, Snapshot(b) PROVE JobsInv'
  <2>t. /\ b \in Commands /\ job[b] \in JobRow /\ job \in [Commands -> JobRow] /\ JobOK(b)
        /\ job[b].pc = "idle"
    BY <1>1 DEF JobsInv, Commands, Snapshot, JobAt
  <2>d. PICK d \in Database : d = CurrentDb
    BY LiveKept
  <2>1. PICK r : r = [job[b] EXCEPT !.pc = "copying", !.db = d]
    OBVIOUS
  <2>2. /\ r \in JobRow /\ r.pc = "copying" /\ r.db = d /\ r.files = job[b].files
        /\ r.checking = job[b].checking
    BY <2>t, <2>1 DEF JobRow, JobPcs
  <2>3. job' = [job EXCEPT ![b] = r] /\ job'[b] = r
    BY <2>t, <1>1, <2>d, <2>1 DEF Snapshot
  <2>4. Live(d) = Live(CurrentDb)'
    BY <2>d
  <2>5. JobOK(b)'
    BY <1>0, <1>1, <2>t, <2>2, <2>3, <2>4 DEF JobOK
  <2> QED
    BY <1>0, <2>t, <2>2, <2>3, <2>5, JobStepInv
<1>2. ASSUME NEW s \in Restores, OpenBackup(s) PROVE JobsInv'
  <2>t. /\ s \in Commands /\ s \notin Backups /\ job[s] \in JobRow
        /\ job \in [Commands -> JobRow] /\ JobOK(s)
        /\ job[s].pc = "idle" /\ vault # NoTree /\ vault \in Tree /\ VaultOK
        /\ vaultFaults \in Nat
    BY <1>2, BackupAssumption DEF JobsInv, Commands, OpenBackup, JobAt
  <2>1. CASE Complete(vault.db, vault.files)
    <3>1. PICK r : r = [job[s] EXCEPT !.pc = "copying", !.db = vault.db]
      OBVIOUS
    <3>2. /\ r \in JobRow /\ r.pc = "copying" /\ r.db = vault.db /\ r.files = job[s].files
          /\ r.checking = job[s].checking
      BY <2>t, <3>1 DEF JobRow, JobPcs, Tree
    <3>3. job' = [job EXCEPT ![s] = r] /\ job'[s] = r
      BY <2>t, <1>2, <2>1, <3>1 DEF OpenBackup
    <3>5. JobOK(s)'
      BY <1>0, <2>t, <3>2, <3>3 DEF JobOK
    <3> QED
      BY <1>0, <2>t, <3>2, <3>3, <3>5, JobStepInv
  <2>2. CASE ~ Complete(vault.db, vault.files)
    <3>1. Fail(s) /\ vaultFaults > 0
      BY <1>2, <2>t, <2>2 DEF OpenBackup, VaultOK
    <3> QED
      BY <1>0, <2>t, <3>1, FailInv
  <2> QED
    BY <2>1, <2>2
<1> QED
  BY <1>1, <1>2

\* Publication: the staged tree appears where nothing was.
LEMMA RenameOK ==
    ASSUME CoreInv, JobsInv, Live(CurrentDb)' = Live(CurrentDb), UNCHANGED instanceVars,
           NEW j \in Commands, Rename(j)
    PROVE  JobsInv'
<1>t. /\ job[j] \in JobRow /\ job \in [Commands -> JobRow] /\ JobOK(j)
      /\ job[j].pc = "publishing" /\ vaultFaults \in Nat /\ VaultOK
      /\ Complete(job[j].db, job[j].files)
  BY DEF JobsInv, Rename, JobAt, JobOK
<1>0. UNCHANGED <<lost, vaultFaults>>
  BY DEF Rename, instanceVars
<1>p. PICK p \in {"done", "failed"} : p = IF Destination(j) = NoTree THEN "done" ELSE "failed"
  OBVIOUS
<1>1. PICK r : r = [job[j] EXCEPT !.pc = p]
  OBVIOUS
<1>2. /\ r \in JobRow /\ r.pc = p /\ r.db = job[j].db /\ r.files = job[j].files
      /\ r.checking = job[j].checking
  BY <1>t, <1>1 DEF JobRow, JobPcs
<1>3. job' = [job EXCEPT ![j] = r] /\ job'[j] = r
  BY <1>t, <1>p, <1>1 DEF Rename
<1>4. JobOK(j)'
  BY <1>0, <1>t, <1>2, <1>3 DEF JobOK
<1>5. CASE Destination(j) # NoTree
  <2>1. UNCHANGED <<vault, root>>
    BY <1>5 DEF Rename
  <2> QED
    BY <1>0, <1>2, <1>3, <1>4, <2>1, JobStepInv
<1>6. CASE Destination(j) = NoTree
  <2>t. PICK t \in Tree : t = [db |-> job[j].db, files |-> job[j].files]
    BY <1>t DEF Tree, JobRow
  <2>n. t # NoTree /\ t.db = job[j].db /\ t.files = job[j].files
    BY <2>t, TreesExist
  <2>j. job' \in [Commands -> JobRow] /\ \A k \in Commands \ {j} : job'[k] = job[k]
    BY <1>t, <1>2, <1>3
  <2>1. CASE j \in Backups
    <3>1. vault = NoTree /\ vault' = t /\ root' = root /\ root = NoTree
      BY <1>6, <1>t, <2>t, <2>1 DEF Rename, Destination, VaultOK
    <3>2. \A k \in Commands \ {j} : JobOK(k)'
      BY <1>0, <1>t, <2>j, <2>n, <3>1, JobFrame
    <3> QED
      BY <1>0, <1>t, <1>4, <2>j, <2>n, <3>1, <3>2 DEF JobsInv, VaultOK, RestoredIsComplete
  <2>2. CASE j \notin Backups
    <3>1. vault # NoTree /\ job[j].db = vault.db /\ vault' = vault /\ root' = t
      BY <1>6, <1>t, <2>t, <2>2 DEF Rename, Destination, JobOK
    <3>2. \A k \in Commands \ {j} : JobOK(k)'
      BY <1>0, <1>t, <2>j, <2>n, <3>1, JobFrame
    <3> QED
      BY <1>0, <1>t, <1>4, <2>j, <2>n, <3>1, <3>2 DEF JobsInv, VaultOK, RestoredIsComplete
  <2> QED
    BY <2>1, <2>2
<1> QED
  BY <1>5, <1>6

\* Damage to the published backup.
LEMMA VaultFaultOK ==
    ASSUME JobsInv, Live(CurrentDb)' = Live(CurrentDb), UNCHANGED instanceVars,
           NEW p \in Paths, VaultFault(p)
    PROVE  JobsInv'
<1>t. /\ vault \in Tree /\ vault # NoTree /\ vaultFaults \in Nat
      /\ UNCHANGED <<lost, job, root>> /\ vaultFaults' = vaultFaults + 1
  BY DEF JobsInv, VaultFault, instanceVars
<1>s. PICK s \in {"missing", "corrupt"} : vault' = [vault EXCEPT !.files[p] = s]
  BY DEF VaultFault
<1>1. vault' \in Tree /\ vault'.db = vault.db
  BY <1>t, <1>s DEF Tree, FileStates
<1>2. vault' # NoTree
  BY <1>1, TreesExist
<1>3. \A k \in Commands : JobOK(k)'
  BY <1>t, <1>1, <1>2, JobFrame
<1> QED
  BY <1>t, <1>1, <1>2, <1>3 DEF JobsInv, VaultOK, RestoredIsComplete

\* No command runs at first, and no tree exists.
LEMMA JobsInit == ASSUME Init PROVE JobsInv
<1>1. /\ job = [j \in Commands |-> [pc |-> "idle", db |-> NoDb, files |-> Empty, checking |-> {}]]
      /\ vault = NoTree /\ vaultFaults = 0 /\ root = NoTree
  BY DEF Init, BackupInit, Commands
<1>2. NoDb \in Database /\ Empty \in [Paths -> FileStates]
  BY DEF NoDb, Database, Empty, FileStates
<1>3. job \in [Commands -> JobRow]
  BY <1>1, <1>2 DEF JobRow, JobPcs
<1>4. \A j \in Commands : JobOK(j)
  BY <1>1 DEF JobOK, Empty
<1> QED
  BY <1>1, <1>3, <1>4 DEF JobsInv, VaultOK, RestoredIsComplete

\* Every step keeps what the commands have copied in line with their snapshots.
LEMMA JobsNextOK ==
    ASSUME CoreInv, JobsInv, OneWriter, [Next]_vars
    PROVE  JobsInv'
<1>l. /\ Live(CurrentDb) \subseteq Live(CurrentDb)'
      /\ UNCHANGED instanceVars => Live(CurrentDb)' = Live(CurrentDb)
      /\ lost \subseteq lost'
  BY LiveGrows, CoreNextOK DEF Grows
<1>1. CASE UNCHANGED backupVars
  BY <1>l, <1>1, JobsFrame
<1>2. CASE BackupStep
  <2>0. UNCHANGED instanceVars
    BY <1>2 DEF BackupStep, Snapshot, OpenBackup, CopyVerified, VerifyStage, CheckAbsent,
       Rename, JobDies, HashSource, VaultFault
  <2>1. ASSUME NEW j \in Commands,
               \/ \E p \in Paths : HashSource(j, p)
               \/ CopyVerified(j) \/ VerifyStage(j) \/ CheckAbsent(j) \/ JobDies(j)
        PROVE  JobsInv'
    BY <1>l, <2>0, <2>1, CopyStepsOK
  <2>2. ASSUME (\E b \in Backups : Snapshot(b)) \/ (\E r \in Restores : OpenBackup(r))
        PROVE  JobsInv'
    BY <1>l, <2>0, <2>2, OpeningOK
  <2>3. ASSUME NEW j \in Commands, Rename(j) PROVE JobsInv'
    BY <1>l, <2>0, <2>3, RenameOK
  <2>4. ASSUME NEW p \in Paths, VaultFault(p) PROVE JobsInv'
    BY <1>l, <2>0, <2>4, VaultFaultOK
  <2> QED
    BY <1>2, <2>1, <2>2, <2>3, <2>4 DEF BackupStep, Commands
<1> QED
  BY <1>1, <1>2 DEF Next, Writing, Requesting, Faulting, vars

\* The whole invariant, for any number of commands as well.
StorageInv == CoreInv /\ JobsInv

\* The invariant of rows, bytes, requests and commands, under every interleaving.
THEOREM StorageHolds ==
    ASSUME OneWriter PROVE Spec => []StorageInv
<1>1. Init => StorageInv
  BY CoreInit, JobsInit DEF StorageInv
<1>2. StorageInv /\ [Next]_vars => StorageInv'
  BY CoreNextOK, JobsNextOK DEF StorageInv
<1> QED
  BY <1>1, <1>2, PTL DEF Spec

\* A restored root holds the backup's database and every byte it names, and a
\* reported corruption is one: a backup of the running instance finds the bytes
\* of every row its snapshot holds (recovery/backup.py).
THEOREM RestoreDelivers ==
    ASSUME OneWriter PROVE Spec => []RestoreSound
<1>1. StorageInv => RestoreSound
  <2> SUFFICES ASSUME StorageInv PROVE RestoreSound
    OBVIOUS
  <2>1. BackupTypeOK
    BY DEF StorageInv, CoreInv, MediaInv, RequestInv, JobsInv, BackupTypeOK, Commands, JobRow
  <2>2. RestoredIsComplete
    BY DEF StorageInv, JobsInv
  <2>3. CorruptionIsReal
    BY BackupAssumption DEF StorageInv, JobsInv, JobOK, CorruptionIsReal, JobAt, Commands
  <2> QED
    BY <2>1, <2>2, <2>3 DEF RestoreSound
<1> QED
  BY <1>1, StorageHolds, PTL

-----------------------------------------------------------------------------
(* The backup implements CertifiedCopy.                                    *)

\* A copy is never the absent tree.
LEMMA CopiesExist == ASSUME NEW rows, NEW bytes PROVE [rows |-> rows, bytes |-> bytes] # NoTree
<1>1. "rows" \in DOMAIN [rows |-> rows, bytes |-> bytes]
  OBVIOUS
<1>2. "rows" \notin DOMAIN NoTree
  BY DEF NoTree
<1> QED
  BY <1>1, <1>2

\* The vault appears complete, or loses bytes to a fault, or stays.
LEMMA VaultSteps ==
    ASSUME CoreInv, JobsInv, OneWriter, BackupStep
    PROVE  \/ /\ vault = NoTree /\ vault' \in Tree
              /\ Live(vault'.db) \subseteq Live(CurrentDb) /\ Complete(vault'.db, vault'.files)
           \/ /\ vault \in Tree /\ vault' \in Tree /\ vault'.db = vault.db
              /\ \A p \in Paths : vault'.files[p] = "exact" => vault.files[p] = "exact"
           \/ vault' = vault
<1>1. ASSUME NEW j \in Commands, Rename(j), vault' # vault
      PROVE  /\ vault = NoTree /\ vault' \in Tree
             /\ Live(vault'.db) \subseteq Live(CurrentDb) /\ Complete(vault'.db, vault'.files)
  <2>1. JobOK(j) /\ job[j] \in JobRow /\ job[j].pc = "publishing"
    BY <1>1 DEF JobsInv, Rename, JobAt
  <2>2. /\ j \in Backups /\ vault = NoTree
        /\ vault' = [db |-> job[j].db, files |-> job[j].files]
    BY <1>1 DEF Rename, Destination
  <2>3. vault' \in Tree /\ vault'.db = job[j].db /\ vault'.files = job[j].files
    BY <2>1, <2>2 DEF Tree, JobRow
  <2> QED
    BY <2>1, <2>2, <2>3 DEF JobOK
<1>2. ASSUME NEW p \in Paths, VaultFault(p)
      PROVE  /\ vault \in Tree /\ vault' \in Tree /\ vault'.db = vault.db
             /\ \A q \in Paths : vault'.files[q] = "exact" => vault.files[q] = "exact"
  <2>1. vault \in Tree
    BY <1>2 DEF JobsInv, VaultFault
  <2>2. PICK s \in {"missing", "corrupt"} : vault' = [vault EXCEPT !.files[p] = s]
    BY <1>2 DEF VaultFault
  <2>3. /\ vault' \in Tree /\ vault'.db = vault.db
        /\ vault'.files = [vault.files EXCEPT ![p] = s]
    BY <2>1, <2>2 DEF Tree, FileStates
  <2> QED
    BY <2>1, <2>3 DEF Tree
<1> QED
  BY <1>1, <1>2 DEF BackupStep, Snapshot, OpenBackup, CopyVerified, VerifyStage, CheckAbsent,
     JobDies, HashSource, Commands

\* A published backup is one certified copy: made while uploads and requests
\* run, by any number of commands at once, killed anywhere, it appears complete
\* or not at all and is never replaced (recovery/backup.py).
THEOREM BackupImplementsCertifiedCopy ==
    ASSUME OneWriter PROVE Spec => BackupCertifies
<1>1. Init => Copy!Init
  <2> SUFFICES ASSUME Init PROVE Copy!Init
    OBVIOUS
  <2>1. /\ assets = {} /\ take = NoMedia /\ observations = {} /\ streams = {} /\ generations = {}
        /\ vault = NoTree
    BY DEF Init, StoreInit, RequestInit, BackupInit
  <2>2. LiveNow = {} /\ PublishedCopy = NoTree
    BY <2>1 DEF LiveNow, Live, CurrentDb, LiveBlobs, DerivedLive, NamedArtifacts, PublishedCopy
  <2> QED
    BY <2>2 DEF Copy!Init
<1>l. CoreInv => LiveNow \subseteq Paths
  BY LiveKept DEF LiveNow
<1>k. CoreInv' => (LiveNow \subseteq Paths)'
  BY <1>l, PTL
<1>2. ASSUME StorageInv, [Next]_vars
      PROVE  [Copy!Next]_<<LiveNow, PublishedCopy>>
  <2>i. CoreInv /\ JobsInv
    BY <1>2 DEF StorageInv
  <2>l. /\ LiveNow \subseteq LiveNow' /\ LiveNow' \subseteq Paths
        /\ UNCHANGED instanceVars => LiveNow' = LiveNow
    <3>1. CoreInv'
      BY <1>2, <2>i, CoreNextOK
    <3> QED
      BY <1>2, <1>k, <2>i, <3>1, LiveGrows DEF LiveNow
  <2>1. CASE vault' = vault
    <3>1. PublishedCopy' = PublishedCopy
      BY <2>1 DEF PublishedCopy, AsCopy
    <3>2. Copy!Grow
      BY <2>l, <3>1 DEF Copy!Grow
    <3> QED
      BY <3>2 DEF Copy!Next
  <2>2. CASE BackupStep /\ vault' # vault
    <3>0. LiveNow' = LiveNow
      BY <2>2, <2>l DEF BackupStep, Snapshot, OpenBackup, CopyVerified, VerifyStage, CheckAbsent,
         Rename, JobDies, HashSource, VaultFault
    <3>1. CASE /\ vault = NoTree /\ vault' \in Tree
               /\ Live(vault'.db) \subseteq Live(CurrentDb) /\ Complete(vault'.db, vault'.files)
      <4>1. PublishedCopy = NoTree /\ PublishedCopy' = AsCopy(vault')
        BY <3>1, TreesExist DEF PublishedCopy, AsCopy
      <4>2. PICK rows : rows = Live(vault'.db)
        OBVIOUS
      <4>3. PICK bytes : bytes = {p \in Paths : vault'.files[p] = "exact"}
        OBVIOUS
      <4>4. PublishedCopy' = [rows |-> rows, bytes |-> bytes]
        BY <4>1, <4>2, <4>3 DEF AsCopy
      <4>5. rows \in SUBSET LiveNow /\ bytes \in SUBSET Paths
        BY <3>1, <4>2, <4>3 DEF LiveNow
      <4>6. rows \subseteq bytes
        BY <2>i, <3>1, <4>2, <4>3, LiveKept DEF Complete
      <4>7. Copy!Certified(PublishedCopy')
        BY <4>4, <4>6 DEF Copy!Certified
      <4>8. \E rs \in SUBSET LiveNow : \E bs \in SUBSET Paths :
               PublishedCopy' = [rows |-> rs, bytes |-> bs] /\ Copy!Certified(PublishedCopy')
        BY <4>4, <4>5, <4>7
      <4>9. Copy!Certify
        BY <3>0, <4>1, <4>8 DEF Copy!Certify
      <4> QED
        BY <4>9 DEF Copy!Next
    <3>2. CASE /\ vault \in Tree /\ vault' \in Tree /\ vault'.db = vault.db
               /\ \A p \in Paths : vault'.files[p] = "exact" => vault.files[p] = "exact"
      <4>1. PICK rows, before, after :
              /\ rows = Live(vault.db)
              /\ before = {p \in Paths : vault.files[p] = "exact"}
              /\ after = {p \in Paths : vault'.files[p] = "exact"}
        OBVIOUS
      <4>2. /\ PublishedCopy = [rows |-> rows, bytes |-> before]
            /\ PublishedCopy' = [rows |-> rows, bytes |-> after]
        BY <3>2, <4>1, TreesExist DEF PublishedCopy, AsCopy
      <4>3. after \in SUBSET before
        BY <3>2, <4>1
      <4>4. PublishedCopy # NoTree
        BY <4>2, CopiesExist
      <4>5. PublishedCopy' = [PublishedCopy EXCEPT !.bytes = after] /\ PublishedCopy.bytes = before
        BY <4>2
      <4>6. Copy!Damage
        BY <3>0, <4>3, <4>4, <4>5 DEF Copy!Damage
      <4> QED
        BY <4>6 DEF Copy!Next
    <3> QED
      BY <1>2, <2>i, <2>2, <3>1, <3>2, VaultSteps
  <2> QED
    BY <1>2, <2>1, <2>2 DEF Next, Writing, Requesting, Faulting, vars, backupVars
<1> QED
  BY <1>1, <1>2, StorageHolds, PTL DEF Spec, BackupCertifies, Copy!Spec
=============================================================================
