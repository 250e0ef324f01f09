---------------------------- MODULE BackupProofs ----------------------------
(***************************************************************************)
(* Proofs about FileStore and BackupPipeline, for any number of uploads,   *)
(* downloads, contents, blocks, foreign messages, restarts and worker      *)
(* stops.                                                                  *)
(*                                                                         *)
(* The first half is about the store alone.  Its step lemmas also allow    *)
(* steps that leave the store as it is, so they serve BackupPipeline,      *)
(* which the second half and the theorems are about.  Last, each step of   *)
(* BackupPipeline is one of BackupPromise's or a stutter.                  *)
(***************************************************************************)
EXTENDS BackupPipeline, FiniteSetTheorems, SequenceTheorems, TLAPS

-----------------------------------------------------------------------------
(* The store: what a step may change, and what has an object. *)

tree == <<object, files, handlers, crashes>>

\* What was begun has an object, and what is read has one.
ObjectsKept ==
  /\ \A r \in Uploads : uploads[r].hash # None => object[uploads[r].hash] # None
  /\ \A d \in Downloads : downloads[d].pc = "read" => object[downloads[d].hash] # None

StoreInv == StoreTypeOK /\ ObjectsKept

Bytes == Seq({Good, Zero})

-----------------------------------------------------------------------------
LEMMA WriteBlockDoes ==
  ASSUME NEW s \in Bytes, NEW p \in Nat
  PROVE  /\ WriteBlock(s, p) \in Bytes
         /\ Len(WriteBlock(s, p)) = IF p + 1 > Len(s) THEN p + 1 ELSE Len(s)
         /\ \A j \in 1 .. Len(WriteBlock(s, p)) :
              WriteBlock(s, p)[j] = IF j = p + 1 THEN Good ELSE IF j <= Len(s) THEN s[j] ELSE Zero
<1> DEFINE n == IF p + 1 > Len(s) THEN p + 1 ELSE Len(s)
<1>1. Len(s) \in Nat /\ \A k \in 1 .. Len(s) : s[k] \in {Good, Zero}
  BY DEF Bytes
<1>2. n \in Nat
  BY <1>1
<1>3. WriteBlock(s, p) \in [1 .. n -> {Good, Zero}]
  BY <1>1 DEF WriteBlock
<1>4. WriteBlock(s, p) \in Bytes
  BY <1>2, <1>3, SeqDef DEF Bytes
<1>5. DOMAIN WriteBlock(s, p) = 1 .. n
  BY DEF WriteBlock
<1>6. Len(WriteBlock(s, p)) = n
  BY <1>2, <1>4, <1>5, LenProperties DEF Bytes
<1> QED
  BY <1>4, <1>6 DEF WriteBlock

LEMMA NoneIsNoBytes == None \notin Bytes /\ None \notin Keys /\ None \notin FileRow /\ <<>> \in Bytes
  BY ValueAssumption DEF Bytes

\* One request takes a step: the others keep theirs.

UploadsOK   == uploads \in [Uploads -> UploadReq] /\ \A r \in Uploads : UploadLocals(uploads[r])
DownloadsOK == downloads \in [Downloads -> DownloadReq]
               /\ \A d \in Downloads : DownloadLocals(downloads[d])

LEMMA UploadsStep ==
  ASSUME UploadsOK, NEW r \in Uploads, NEW q \in UploadReq, UploadLocals(q),
         uploads' = [uploads EXCEPT ![r] = q]
  PROVE  UploadsOK'
  BY DEF UploadsOK

LEMMA DownloadsStep ==
  ASSUME DownloadsOK, NEW d \in Downloads, NEW q \in DownloadReq, DownloadLocals(q),
         downloads' = [downloads EXCEPT ![d] = q]
  PROVE  DownloadsOK'
  BY DEF DownloadsOK

\* What an upload at work knows.
LEMMA UploadAtWork ==
  ASSUME StoreInv, NEW r \in Uploads, uploads[r].pc # "idle"
  PROVE  /\ uploads[r] \in UploadReq
         /\ uploads[r].hash \in Keys /\ uploads[r].uid \in Users /\ uploads[r].name \in Names
         /\ object[uploads[r].hash] \in Bytes
  BY DEF StoreInv, StoreTypeOK, UploadLocals, UploadReq, ObjectsKept, Bytes

-----------------------------------------------------------------------------
(* What each kind of step may change: the requests. *)

\* Requests only move on: a hash, once known, stays, and at never goes back.
UploadsGrow ==
  \A r \in Uploads : uploads[r].hash # None =>
    uploads'[r].hash = uploads[r].hash /\ uploads'[r].at >= uploads[r].at

\* Only the pc of a request moves; it does not become "write".
LEMMA UploadPcStep ==
  ASSUME UploadsOK, NEW r \in Uploads, uploads[r].pc # "idle",
         NEW p \in {"insert", "publish", "ok", "failed", "lost"}, NEW b \in BOOLEAN,
         uploads' = [uploads EXCEPT ![r].pc = p, ![r].published = b]
  PROVE  UploadsOK' /\ UploadsGrow
<1> DEFINE q == [uploads[r] EXCEPT !.pc = p, !.published = b]
<1>1. uploads[r] \in UploadReq /\ uploads[r].hash # None
  BY DEF UploadsOK, UploadLocals
<1>2. q \in UploadReq /\ q.hash = uploads[r].hash /\ q.at = uploads[r].at
      /\ q.uid = uploads[r].uid /\ q.name = uploads[r].name /\ q.pc = p
  BY <1>1 DEF UploadReq
<1>3. UploadLocals(q)
  BY <1>1, <1>2 DEF UploadsOK, UploadLocals
<1>4. uploads' = [uploads EXCEPT ![r] = q]
  BY DEF UploadsOK, UploadReq
<1> HIDE DEF q
<1>5. UploadsOK'
  BY <1>2, <1>3, <1>4, UploadsStep
<1>6. UploadsGrow
  BY <1>2, <1>4 DEF UploadsGrow, UploadsOK, UploadReq
<1> QED
  BY <1>5, <1>6

\* A download moves without forgetting what it is about.
DownloadPc == {"idle", "open", "read", "ok", "failed", "lost"}

LEMMA DownloadPcStep ==
  ASSUME DownloadsOK, NEW d \in Downloads, downloads[d].pc # "idle",
         NEW p \in DownloadPc, downloads' = [downloads EXCEPT ![d].pc = p]
  PROVE  DownloadsOK'
<1> DEFINE q == [downloads[d] EXCEPT !.pc = p]
<1>1. q \in DownloadReq /\ DownloadLocals(q)
  BY DEF DownloadsOK, DownloadReq, DownloadLocals, DownloadPc
<1> QED
  BY <1>1, DownloadsStep

\* No object goes away.
ObjectsStay == \A k \in Keys : object[k] # None => object'[k] # None

LEMMA ObjectWritten ==
  ASSUME object \in [Keys -> Bytes \cup {None}], NEW k \in Keys, NEW b \in Bytes,
         object' = [object EXCEPT ![k] = b]
  PROVE  /\ object' \in [Keys -> Bytes \cup {None}]
         /\ ObjectsStay /\ object'[k] # None
  BY NoneIsNoBytes DEF ObjectsStay

-----------------------------------------------------------------------------
(* Types. *)

\* The parts of StoreInv that a step has to keep.
LEMMA StoreInvParts ==
  StoreInv => /\ object \in [Keys -> Bytes \cup {None}]
              /\ files \in [Uploads -> FileRow \cup {None}]
              /\ UploadsOK /\ DownloadsOK /\ crashes \in 0 .. MaxCrashes
              /\ ObjectsKept
  BY DEF StoreInv, StoreTypeOK, UploadsOK, DownloadsOK, Bytes

LEMMA StoreInvNext ==
  ASSUME object' \in [Keys -> Bytes \cup {None}], files' \in [Uploads -> FileRow \cup {None}],
         UploadsOK', DownloadsOK', crashes' \in 0 .. MaxCrashes, ObjectsKept'
  PROVE  StoreInv'
  BY DEF StoreInv, StoreTypeOK, UploadsOK, DownloadsOK, Bytes

LEMMA UploadKeeps ==
  ASSUME StoreInv, NEW r \in Uploads, FileUpload(r)
  PROVE  StoreInv' /\ UploadsGrow
<1>1. /\ object \in [Keys -> Bytes \cup {None}] /\ files \in [Uploads -> FileRow \cup {None}]
      /\ UploadsOK /\ DownloadsOK /\ ObjectsKept /\ crashes \in 0 .. MaxCrashes
  BY StoreInvParts
<1>2. UNCHANGED <<downloads, crashes>>
  BY DEF FileUpload, UploadStep, BeginPut, PutBlock, PutUnflushed, InsertRow, UploadFault, Publish
<1>3. DownloadsOK' /\ crashes' \in 0 .. MaxCrashes
  BY <1>1, <1>2 DEF DownloadsOK
<1>4. ASSUME NEW u \in Users, NEW n \in Names, NEW k \in Keys, BeginPut(r, u, n, k)
      PROVE  StoreInv' /\ UploadsGrow
  <2> DEFINE q == [pc |-> "write", uid |-> u, name |-> n, hash |-> k, at |-> 0, published |-> FALSE]
  <2>1. q \in UploadReq /\ UploadLocals(q)
    BY NoneIsNoBytes, BlocksAssumption DEF UploadReq, UploadLocals
  <2>2. uploads' = [uploads EXCEPT ![r] = q] /\ uploads[r].pc = "idle"
        /\ object' = [object EXCEPT ![k] = <<>>] /\ files' = files
    BY <1>4 DEF BeginPut
  <2>3. uploads[r].hash = None
    BY <1>1, <2>2 DEF UploadsOK, UploadLocals
  <2>4. q.hash = k
    OBVIOUS
  <2> HIDE DEF q
  <2>5. UploadsOK'
    BY <1>1, <2>1, <2>2, UploadsStep
  <2>6. object' \in [Keys -> Bytes \cup {None}] /\ ObjectsStay /\ object'[k] # None
    BY <1>1, <2>2, ObjectWritten, NoneIsNoBytes
  <2>7. UploadsGrow
    <3> SUFFICES ASSUME NEW s \in Uploads, uploads[s].hash # None
                 PROVE  uploads'[s].hash = uploads[s].hash /\ uploads'[s].at >= uploads[s].at
      BY DEF UploadsGrow
    <3>1. uploads'[s] = uploads[s] /\ uploads[s].at \in 0 .. Blocks
      BY <1>1, <2>2, <2>3 DEF UploadsOK, UploadReq
    <3> QED
      BY <3>1, BlocksAssumption
  <2>8. ObjectsKept'
    BY <1>1, <1>2, <2>2, <2>4, <2>6 DEF ObjectsKept, ObjectsStay, UploadsOK, UploadReq, UploadLocals,
       DownloadsOK, DownloadLocals
  <2> QED
    BY <1>1, <1>3, <2>2, <2>5, <2>6, <2>7, <2>8, StoreInvNext
<1>5. CASE PutBlock(r)
  <2>1. uploads[r].pc = "write" /\ uploads[r] \in UploadReq /\ uploads[r].hash \in Keys
        /\ object[uploads[r].hash] \in Bytes /\ uploads[r].at \in Nat /\ uploads[r].at < Blocks
    BY <1>1, <1>5, UploadAtWork, BlocksAssumption DEF PutBlock, UploadsOK, UploadLocals, UploadReq
  <2> DEFINE p == IF uploads[r].at + 1 = Blocks THEN "insert" ELSE "write"
             q == [uploads[r] EXCEPT !.at = @ + 1, !.pc = p]
             w == WriteBlock(object[uploads[r].hash], uploads[r].at)
  <2>2. q \in UploadReq /\ q.hash = uploads[r].hash /\ q.at = uploads[r].at + 1
        /\ UploadLocals(q)
    <3>1. p \in {"insert", "write"} /\ (p = "write" => uploads[r].at + 1 < Blocks)
      BY <2>1, BlocksAssumption
    <3>2. uploads[r].at + 1 \in 0 .. Blocks
      BY <2>1, BlocksAssumption
    <3>3. UploadLocals(uploads[r])
      BY <1>1 DEF UploadsOK
    <3> HIDE DEF p
    <3>4. /\ q.pc = p /\ q.at = uploads[r].at + 1 /\ q.hash = uploads[r].hash
          /\ q.uid = uploads[r].uid /\ q.name = uploads[r].name /\ q \in UploadReq
      BY <2>1, <3>1, <3>2 DEF UploadReq
    <3>5. UploadLocals(q)
      BY <2>1, <3>1, <3>3, <3>4, NoneIsNoBytes DEF UploadLocals
    <3> QED
      BY <3>4, <3>5
  <2>3. uploads' = [uploads EXCEPT ![r] = q] /\ object' = [object EXCEPT ![uploads[r].hash] = w]
        /\ files' = files
    BY <1>1, <1>5, <2>1 DEF PutBlock, UploadsOK, UploadReq
  <2>4. w \in Bytes
    BY <2>1, WriteBlockDoes
  <2> HIDE DEF p, q, w
  <2>5. UploadsOK'
    BY <1>1, <2>2, <2>3, UploadsStep
  <2>6. object' \in [Keys -> Bytes \cup {None}] /\ ObjectsStay
    BY <1>1, <2>1, <2>3, <2>4, ObjectWritten
  <2>7. UploadsGrow
    <3> SUFFICES ASSUME NEW s \in Uploads
                 PROVE  uploads'[s].hash = uploads[s].hash /\ uploads'[s].at >= uploads[s].at
      BY DEF UploadsGrow
    <3>1. uploads[s].at \in Int
      BY <1>1, BlocksAssumption DEF UploadsOK, UploadReq
    <3> QED
      BY <1>1, <2>1, <2>2, <2>3, <3>1 DEF UploadsOK
  <2>8. ObjectsKept'
    BY <1>1, <1>2, <2>2, <2>3, <2>6 DEF ObjectsKept, ObjectsStay, UploadsOK, UploadReq, UploadLocals,
       DownloadsOK, DownloadLocals
  <2> QED
    BY <1>1, <1>3, <2>3, <2>5, <2>6, <2>7, <2>8, StoreInvNext
<1>6. ASSUME object' = object, files' \in [Uploads -> FileRow \cup {None}],
             UploadsOK', \A s \in Uploads : uploads'[s].hash = uploads[s].hash
      PROVE  StoreInv'
  <2>1. ObjectsKept'
    BY <1>1, <1>2, <1>6 DEF ObjectsKept
  <2> QED
    BY <1>1, <1>3, <1>6, <2>1, StoreInvNext
<1>7. ASSUME NEW p \in {"insert", "publish", "ok", "failed"}, NEW b \in BOOLEAN,
             object' = object, files' \in [Uploads -> FileRow \cup {None}], uploads[r].pc # "idle",
             uploads' = [uploads EXCEPT ![r].pc = p, ![r].published = b]
      PROVE  StoreInv' /\ UploadsGrow
  <2>1. UploadsOK' /\ UploadsGrow
    BY <1>1, <1>7, UploadPcStep
  <2>2. \A s \in Uploads : uploads'[s].hash = uploads[s].hash
    BY <1>1, <1>7 DEF UploadsOK, UploadReq
  <2> QED
    BY <1>6, <1>7, <2>1, <2>2
<1>8. uploads[r].published \in BOOLEAN /\ uploads[r] \in UploadReq
  BY <1>1 DEF UploadsOK, UploadReq
<1>9. CASE PutUnflushed(r) \/ UploadFault(r)
  <2> DEFINE b == uploads[r].published
  <2>1. PICK p \in {"insert", "failed"} : uploads' = [uploads EXCEPT ![r].pc = p]
    BY <1>9 DEF PutUnflushed, UploadFault
  <2>2. uploads' = [uploads EXCEPT ![r].pc = p, ![r].published = b]
    BY <1>1, <1>8, <2>1 DEF UploadsOK, UploadReq
  <2> HIDE DEF b
  <2> QED
    BY <1>1, <1>7, <1>8, <1>9, <2>2 DEF PutUnflushed, UploadFault, b
<1>10. CASE InsertRow(r)
  <2> DEFINE b == uploads[r].published
             f == [uid |-> uploads[r].uid, name |-> uploads[r].name, hash |-> uploads[r].hash, live |-> TRUE]
  <2>1. uploads' = [uploads EXCEPT ![r].pc = "publish", ![r].published = b]
    BY <1>1, <1>8, <1>10 DEF InsertRow, UploadsOK, UploadReq
  <2>2. f \in FileRow
    BY <1>10, UploadAtWork DEF InsertRow, FileRow
  <2>3. files' = [files EXCEPT ![r] = f] /\ object' = object /\ uploads[r].pc # "idle"
    BY <1>10 DEF InsertRow
  <2>4. b \in BOOLEAN
    BY <1>8
  <2> HIDE DEF b, f
  <2> QED
    BY <1>1, <1>7, <2>1, <2>2, <2>3, <2>4
<1>11. CASE Publish(r)
  <2> DEFINE b == uploads[r].published
  <2>1. \/ uploads' = [uploads EXCEPT ![r].pc = "ok", ![r].published = TRUE]
        \/ uploads' = [uploads EXCEPT ![r].pc = "ok"]
    BY <1>11 DEF Publish
  <2>2. object' = object /\ files' = files /\ uploads[r].pc # "idle"
    BY <1>11 DEF Publish
  <2>3. CASE uploads' = [uploads EXCEPT ![r].pc = "ok", ![r].published = TRUE]
    BY <1>1, <1>7, <2>2, <2>3
  <2>4. CASE uploads' = [uploads EXCEPT ![r].pc = "ok"]
    <3>1. uploads' = [uploads EXCEPT ![r].pc = "ok", ![r].published = b]
      BY <1>1, <1>8, <2>4 DEF UploadsOK, UploadReq
    <3>2. b \in BOOLEAN
      BY <1>8
    <3> HIDE DEF b
    <3> QED
      BY <1>1, <1>7, <2>2, <3>1, <3>2
  <2> QED
    BY <2>1, <2>3, <2>4
<1> QED
  BY <1>4, <1>5, <1>9, <1>10, <1>11 DEF FileUpload, UploadStep

LEMMA DownloadKeeps ==
  ASSUME StoreInv, NEW d \in Downloads, FileDownload(d)
  PROVE  StoreInv' /\ UNCHANGED <<object, files, queue, uploads, crashes>>
<1>1. /\ object \in [Keys -> Bytes \cup {None}] /\ files \in [Uploads -> FileRow \cup {None}]
      /\ UploadsOK /\ DownloadsOK /\ ObjectsKept /\ crashes \in 0 .. MaxCrashes
  BY StoreInvParts
<1>2. UNCHANGED <<object, files, queue, uploads, crashes>>
  BY DEF FileDownload, SelectForDownload, SelectThrows, OpenForRead, ReadBlock
<1>3. downloads[d] \in DownloadReq /\ DownloadLocals(downloads[d])
  BY <1>1 DEF DownloadsOK
<1>4. ASSUME NEW q \in DownloadReq, DownloadLocals(q), downloads' = [downloads EXCEPT ![d] = q],
             q.pc = "read" => object[q.hash] # None
      PROVE  StoreInv'
  <2>1. DownloadsOK'
    BY <1>1, <1>4, DownloadsStep
  <2>2. ObjectsKept'
    BY <1>1, <1>2, <1>4 DEF ObjectsKept, DownloadsOK
  <2>3. UploadsOK'
    BY <1>1, <1>2 DEF UploadsOK
  <2> QED
    BY <1>1, <1>2, <2>1, <2>2, <2>3, StoreInvNext
<1>5. ASSUME NEW u \in Users, NEW n \in Names, NEW k \in Keys, SelectForDownload(d, u, n, k)
      PROVE  StoreInv'
  <2>1. PICK r \in Uploads : downloads' =
          [downloads EXCEPT ![d].pc = "open", ![d].uid = u, ![d].hash = k, ![d].row = r]
    BY <1>5 DEF SelectForDownload
  <2> DEFINE q == [downloads[d] EXCEPT !.pc = "open", !.uid = u, !.hash = k, !.row = r]
  <2>2. q \in DownloadReq /\ DownloadLocals(q) /\ q.pc = "open"
    BY <1>3 DEF DownloadReq, DownloadLocals
  <2>3. downloads' = [downloads EXCEPT ![d] = q]
    BY <1>1, <1>3, <2>1 DEF DownloadsOK, DownloadReq
  <2> HIDE DEF q
  <2> QED
    BY <1>4, <2>2, <2>3
<1>6. ASSUME NEW u \in Users, NEW k \in Keys, SelectThrows(d, u, k)
      PROVE  StoreInv'
  <2> DEFINE q == [downloads[d] EXCEPT !.pc = "open", !.uid = u, !.hash = k]
  <2>2. q \in DownloadReq /\ DownloadLocals(q) /\ q.pc = "open"
    BY <1>3 DEF DownloadReq, DownloadLocals
  <2>3. downloads' = [downloads EXCEPT ![d] = q]
    BY <1>1, <1>3, <1>6 DEF DownloadsOK, DownloadReq, SelectThrows
  <2> HIDE DEF q
  <2> QED
    BY <1>4, <2>2, <2>3
<1>7. CASE OpenForRead(d)
  <2> DEFINE p == IF object[downloads[d].hash] = None THEN "failed" ELSE "read"
             q == [downloads[d] EXCEPT !.pc = p]
  <2>1. downloads' = [downloads EXCEPT ![d] = q] /\ downloads[d].pc = "open"
    BY <1>1, <1>3, <1>7 DEF DownloadsOK, DownloadReq, OpenForRead
  <2>2. p \in {"failed", "read"} /\ (p = "read" => object[downloads[d].hash] # None)
    OBVIOUS
  <2> HIDE DEF p
  <2>3. q \in DownloadReq /\ DownloadLocals(q) /\ q.pc = p /\ q.hash = downloads[d].hash
    BY <1>3, <2>1, <2>2 DEF DownloadReq, DownloadLocals
  <2> HIDE DEF q
  <2> QED
    BY <1>2, <1>4, <2>1, <2>2, <2>3
<1>8. CASE ReadBlock(d)
  <2> DEFINE got == downloads[d].got
             b == object[downloads[d].hash]
  <2>1. downloads[d].pc = "read" /\ downloads[d].hash \in Keys /\ b # None
    BY <1>1, <1>3, <1>8 DEF ReadBlock, DownloadLocals, ObjectsKept
  <2>2. b \in Bytes /\ got \in Bytes
    BY <1>1, <1>3, <2>1 DEF DownloadReq, Bytes
  <2>3. CASE Len(got) < Len(b)
    <3> DEFINE g == Append(got, b[Len(got) + 1])
               q == [downloads[d] EXCEPT !.got = g]
    <3>1. g \in Bytes
      BY <2>2, <2>3 DEF Bytes
    <3>2. downloads' = [downloads EXCEPT ![d] = q]
      BY <1>8, <2>3 DEF ReadBlock
    <3> HIDE DEF g
    <3>3. q \in DownloadReq /\ DownloadLocals(q) /\ q.hash = downloads[d].hash
      BY <1>3, <2>1, <3>1 DEF DownloadReq, DownloadLocals, Bytes
    <3> HIDE DEF q
    <3> QED
      BY <1>2, <1>4, <2>1, <3>2, <3>3
  <2>4. CASE ~(Len(got) < Len(b))
    <3>1. downloads' = [downloads EXCEPT ![d] = [@ EXCEPT !.pc = "ok"]]
      BY <1>8, <2>4 DEF ReadBlock
    <3> DEFINE q == [downloads[d] EXCEPT !.pc = "ok"]
    <3>2. q \in DownloadReq /\ DownloadLocals(q) /\ q.pc = "ok"
      BY <1>3, <2>1 DEF DownloadReq, DownloadLocals
    <3>3. downloads' = [downloads EXCEPT ![d] = q]
      BY <3>1
    <3> HIDE DEF q
    <3> QED
      BY <1>2, <1>4, <3>2, <3>3
  <2> QED
    BY <2>3, <2>4
<1> QED
  BY <1>2, <1>5, <1>6, <1>7, <1>8 DEF FileDownload

LEMMA RowsKeep ==
  ASSUME StoreInv, NEW u \in Users, NEW n \in Names, NEW m \in Names, NEW k \in Keys,
         Delete(u, n, k) \/ Rename(u, n, m, k)
  PROVE  StoreInv' /\ UNCHANGED <<object, queue, handlers, crashes>>
<1>1. /\ object \in [Keys -> Bytes \cup {None}] /\ files \in [Uploads -> FileRow \cup {None}]
      /\ UploadsOK /\ DownloadsOK /\ ObjectsKept /\ crashes \in 0 .. MaxCrashes
  BY StoreInvParts
<1>2. UNCHANGED <<object, queue, handlers, crashes>>
  BY DEF Delete, Rename
<1>3. files' \in [Uploads -> FileRow \cup {None}]
  <2>1. \A r \in Uploads : files[r] \in FileRow \cup {None}
    BY <1>1
  <2>2. CASE Delete(u, n, k)
    <3> DEFINE g(r) == IF Matches(files[r], u, n, k)
                       THEN [files[r] EXCEPT !.live = FALSE] ELSE files[r]
    <3>1. ASSUME NEW r \in Uploads PROVE g(r) \in FileRow \cup {None}
      <4>1. Matches(files[r], u, n, k) => files[r] \in FileRow
        BY <2>1 DEF Matches
      <4>2. files[r] \in FileRow => [files[r] EXCEPT !.live = FALSE] \in FileRow
        BY DEF FileRow
      <4> QED
        BY <2>1, <4>1, <4>2
    <3>2. files' = [r \in Uploads |-> g(r)]
      BY <2>2 DEF Delete
    <3> HIDE DEF g
    <3> QED
      BY <3>1, <3>2
  <2>3. CASE Rename(u, n, m, k)
    <3> DEFINE g(r) == IF Matches(files[r], u, n, k)
                       THEN [files[r] EXCEPT !.name = m] ELSE files[r]
    <3>1. ASSUME NEW r \in Uploads PROVE g(r) \in FileRow \cup {None}
      <4>1. Matches(files[r], u, n, k) => files[r] \in FileRow
        BY <2>1 DEF Matches
      <4>2. files[r] \in FileRow => [files[r] EXCEPT !.name = m] \in FileRow
        BY DEF FileRow
      <4> QED
        BY <2>1, <4>1, <4>2
    <3>2. files' = [r \in Uploads |-> g(r)]
      BY <2>3 DEF Rename
    <3> HIDE DEF g
    <3> QED
      BY <3>1, <3>2
  <2> QED
    BY <2>2, <2>3
<1>4. UploadsOK' /\ DownloadsOK' /\ ObjectsKept'
  BY <1>1, <1>2 DEF UploadsOK, DownloadsOK, ObjectsKept, handlers
<1> QED
  BY <1>1, <1>2, <1>3, <1>4, StoreInvNext

LEMMA CrashKeeps ==
  ASSUME StoreInv, Crash
  PROVE  StoreInv' /\ UploadsGrow
<1>1. /\ object \in [Keys -> Bytes \cup {None}] /\ files \in [Uploads -> FileRow \cup {None}]
      /\ UploadsOK /\ DownloadsOK /\ ObjectsKept /\ crashes \in 0 .. MaxCrashes
  BY StoreInvParts
<1>2. UploadsOK' /\ UploadsGrow
  <2>1. \A r \in Uploads : uploads[r] \in UploadReq /\ UploadLocals(uploads[r])
    BY <1>1 DEF UploadsOK
  <2>2. DOMAIN uploads = Uploads
    BY <1>1 DEF UploadsOK
  <2>3. \A r \in Uploads : uploads'[r] = uploads[r] \/ (uploads[r].pc # "idle" /\ uploads'[r] = [uploads[r] EXCEPT !.pc = "lost"])
    BY <2>2 DEF Crash, Lost
  <2>4. \A r \in Uploads : uploads'[r] \in UploadReq /\ UploadLocals(uploads'[r])
                           /\ uploads'[r].hash = uploads[r].hash /\ uploads'[r].at = uploads[r].at
    <3> SUFFICES ASSUME NEW r \in Uploads
                 PROVE  uploads'[r] \in UploadReq /\ UploadLocals(uploads'[r])
                        /\ uploads'[r].hash = uploads[r].hash /\ uploads'[r].at = uploads[r].at
      OBVIOUS
    <3> DEFINE q == uploads[r]
               l == [q EXCEPT !.pc = "lost"]
    <3>1. q \in UploadReq /\ UploadLocals(q) /\ (uploads'[r] = q \/ (q.pc # "idle" /\ uploads'[r] = l))
      BY <2>1, <2>3
    <3> HIDE DEF q
    <3>2. l \in UploadReq /\ l.pc = "lost" /\ l.hash = q.hash /\ l.at = q.at /\ l.uid = q.uid /\ l.name = q.name
      BY <3>1 DEF UploadReq
    <3> HIDE DEF l
    <3>3. q.pc # "idle" => UploadLocals(l)
      BY <3>1, <3>2 DEF UploadLocals
    <3> QED
      BY <3>1, <3>2, <3>3 DEF q
  <2>5. DOMAIN uploads' = Uploads /\ uploads' = [r \in Uploads |-> uploads'[r]]
    BY <2>2 DEF Crash, Lost
  <2>6. \A r \in Uploads : uploads[r].at \in Int
    BY <2>1, BlocksAssumption DEF UploadReq
  <2> QED
    BY <2>4, <2>5, <2>6 DEF UploadsOK, UploadsGrow
<1>3. /\ DownloadsOK'
      /\ \A d \in Downloads : downloads'[d].hash = downloads[d].hash
                              /\ (downloads'[d].pc = "read" => downloads[d].pc = "read")
  <2>1. \A d \in Downloads : downloads[d] \in DownloadReq /\ DownloadLocals(downloads[d])
    BY <1>1 DEF DownloadsOK
  <2>2. DOMAIN downloads = Downloads
    BY <1>1 DEF DownloadsOK
  <2>3. \A d \in Downloads : downloads'[d] = downloads[d] \/ (downloads[d].pc # "idle" /\ downloads'[d] = [downloads[d] EXCEPT !.pc = "lost"])
    BY <2>2 DEF Crash, Lost
  <2>4. \A d \in Downloads : downloads'[d] \in DownloadReq /\ DownloadLocals(downloads'[d])
                             /\ downloads'[d].hash = downloads[d].hash
                             /\ (downloads'[d].pc = "read" => downloads[d].pc = "read")
    <3> SUFFICES ASSUME NEW d \in Downloads
                 PROVE  /\ downloads'[d] \in DownloadReq /\ DownloadLocals(downloads'[d])
                        /\ downloads'[d].hash = downloads[d].hash
                        /\ (downloads'[d].pc = "read" => downloads[d].pc = "read")
      OBVIOUS
    <3> DEFINE q == [downloads[d] EXCEPT !.pc = "lost"]
    <3>1. q \in DownloadReq /\ q.hash = downloads[d].hash /\ q.pc = "lost"
      BY <2>1 DEF DownloadReq
    <3> HIDE DEF q
    <3>2. CASE downloads[d].pc # "idle" /\ downloads'[d] = q
      BY <2>1, <3>1, <3>2 DEF DownloadLocals
    <3> QED
      BY <2>1, <2>3, <3>2 DEF q
  <2>5. downloads' = [d \in Downloads |-> downloads'[d]]
    BY <2>2 DEF Crash, Lost
  <2> QED
    BY <2>4, <2>5 DEF DownloadsOK
<1>4. ObjectsKept'
  <2>1. object' = object
    BY DEF Crash
  <2>2. \A r \in Uploads : uploads'[r].hash # None => object[uploads'[r].hash] # None
    <3>1. \A r \in Uploads : uploads'[r].hash = uploads[r].hash
      BY <1>1 DEF Crash, Lost, UploadsOK, UploadReq
    <3> QED
      BY <1>1, <3>1 DEF ObjectsKept
  <2>3. \A d \in Downloads : downloads'[d].pc = "read" => object[downloads'[d].hash] # None
    BY <1>1, <1>3 DEF ObjectsKept
  <2> QED
    BY <2>1, <2>2, <2>3 DEF ObjectsKept
<1>5. crashes' \in 0 .. MaxCrashes
  BY <1>1, CrashAssumption DEF Crash
<1> QED
  BY <1>1, <1>2, <1>3, <1>4, <1>5, StoreInvNext DEF Crash

LEMMA StoreInvStep ==
  ASSUME StoreInv, StoreNext \/ UNCHANGED tree
  PROVE  StoreInv' /\ UploadsGrow
<1>1. ASSUME uploads' = uploads PROVE UploadsGrow
  <2>1. \A r \in Uploads : uploads[r].at \in Int
    BY BlocksAssumption DEF StoreInv, StoreTypeOK, UploadReq
  <2> QED
    BY <1>1, <2>1 DEF UploadsGrow
<1>2. CASE \E d \in Downloads : FileDownload(d)
  BY <1>1, <1>2, DownloadKeeps
<1>3. CASE \E u \in Users, n \in Names, k \in Keys : Delete(u, n, k)
  BY <1>1, <1>3, RowsKeep DEF handlers
<1>4. CASE \E u \in Users, n, m \in Names, k \in Keys : Rename(u, n, m, k)
  BY <1>1, <1>4, RowsKeep DEF handlers
<1>5. CASE UNCHANGED tree
  <2>1. StoreInv'
    BY <1>5 DEF tree, handlers, StoreInv, StoreTypeOK, ObjectsKept
  <2> QED
    BY <1>1, <1>5, <2>1 DEF tree, handlers
<1> QED
  BY <1>2, <1>3, <1>4, <1>5, UploadKeeps, CrashKeeps DEF StoreNext

LEMMA StoreInvInit == StoreInit => StoreInv
  BY NoneIsNoBytes, BlocksAssumption, CrashAssumption, ValueAssumption
     DEF StoreInit, StoreInv, StoreTypeOK, ObjectsKept, UploadReq, DownloadReq, UploadLocals,
         DownloadLocals, Bytes

-----------------------------------------------------------------------------
(* Who is to blame for a block that is missing or wrong. *)

Missing(k, j) == ~(j <= Len(object[k]) /\ object[k][j] = Good)
Blame(k, j) == \E r \in Uploads : uploads[r].hash = k /\ uploads[r].at < j

PutsDone == \A r \in Uploads : uploads[r].pc \in {"insert", "publish", "ok"} => uploads[r].at = Blocks

\* Block by block: a put that has passed a block has left it good, unless another
\* put truncated it since and has not passed it yet.
DamageInv ==
  /\ PutsDone
  /\ \A k \in Keys : object[k] # None =>
       Len(object[k]) <= Blocks /\ \A j \in 1 .. Blocks : Missing(k, j) => Blame(k, j)

LEMMA PutBlockBlame ==
  ASSUME StoreInv, DamageInv, NEW r \in Uploads, PutBlock(r)
  PROVE  DamageInv'
<1>1. /\ object \in [Keys -> Bytes \cup {None}] /\ UploadsOK
  BY StoreInvParts
<1>2. uploads[r].pc = "write" /\ uploads[r] \in UploadReq /\ uploads[r].hash \in Keys
      /\ object[uploads[r].hash] \in Bytes /\ uploads[r].at \in Nat /\ uploads[r].at < Blocks
  BY <1>1, UploadAtWork, BlocksAssumption DEF PutBlock, UploadsOK, UploadLocals, UploadReq
<1> DEFINE h == uploads[r].hash
           a == uploads[r].at
           s == object[h]
           w == WriteBlock(s, a)
<1>3. object' = [object EXCEPT ![h] = w]
  BY DEF PutBlock
<1>4. /\ uploads'[r].hash = h /\ uploads'[r].at = a + 1
      /\ uploads'[r].pc = IF a + 1 = Blocks THEN "insert" ELSE "write"
      /\ \A q \in Uploads : q # r => uploads'[q] = uploads[q]
  BY <1>1, <1>2 DEF PutBlock, UploadsOK, UploadReq
<1>5. w \in Bytes /\ Len(w) = (IF a + 1 > Len(s) THEN a + 1 ELSE Len(s))
      /\ \A j \in 1 .. Len(w) : w[j] = IF j = a + 1 THEN Good ELSE IF j <= Len(s) THEN s[j] ELSE Zero
  BY <1>2, WriteBlockDoes
<1>6. s \in Bytes /\ Len(s) \in Nat /\ s # None
  BY <1>2, NoneIsNoBytes DEF Bytes
<1>7. PutsDone'
  BY <1>4 DEF PutsDone, DamageInv
<1>8. ASSUME NEW k \in Keys, object'[k] # None
      PROVE  Len(object'[k]) <= Blocks /\ \A j \in 1 .. Blocks : Missing(k, j)' => Blame(k, j)'
  <2>1. CASE k = h
    <3>1. Len(s) <= Blocks /\ \A j \in 1 .. Blocks : Missing(h, j) => Blame(h, j)
      BY <1>2, <1>6 DEF DamageInv
    <3>2. object'[k] = w
      BY <1>1, <1>2, <1>3, <2>1
    <3>3. Len(w) <= Blocks
      BY <1>2, <1>5, <1>6, <3>1, BlocksAssumption
    <3>4. ASSUME NEW j \in 1 .. Blocks, ~(j <= Len(w) /\ w[j] = Good)
          PROVE  j # a + 1 /\ Missing(h, j)
      <4>1. j # a + 1
        BY <1>2, <1>5, <1>6, <3>4
      <4>2. CASE j <= Len(s)
        <5>1. j \in 1 .. Len(w)
          BY <1>2, <1>5, <1>6, <4>2, BlocksAssumption
        <5> QED
          BY <1>5, <3>4, <4>1, <4>2, <5>1 DEF Missing
      <4>3. CASE ~(j <= Len(s))
        BY <4>1, <4>3 DEF Missing
      <4> QED
        BY <4>1, <4>2, <4>3
    <3>5. ASSUME NEW j \in 1 .. Blocks, ~(j <= Len(w) /\ w[j] = Good)
          PROVE  Blame(k, j)'
      <4>1. j # a + 1 /\ Missing(h, j)
        BY <3>4, <3>5
      <4>2. PICK q \in Uploads : uploads[q].hash = h /\ uploads[q].at < j
        BY <3>1, <4>1 DEF Blame
      <4>3. uploads'[q].hash = h /\ uploads'[q].at < j
        BY <1>2, <1>4, <4>1, <4>2, BlocksAssumption
      <4> QED
        BY <2>1, <4>3 DEF Blame
    <3> HIDE DEF w
    <3> QED
      BY <3>2, <3>3, <3>5 DEF Missing
  <2>2. CASE k # h
    <3>1. object'[k] = object[k]
      BY <1>1, <1>3, <2>2
    <3>2. Len(object[k]) <= Blocks /\ \A j \in 1 .. Blocks : Missing(k, j) => Blame(k, j)
      BY <1>8, <3>1 DEF DamageInv
    <3>3. ASSUME NEW j \in 1 .. Blocks, Blame(k, j) PROVE Blame(k, j)'
      BY <1>4, <2>2, <3>3 DEF Blame
    <3> QED
      BY <3>1, <3>2, <3>3 DEF Missing
  <2> QED
    BY <2>1, <2>2
<1> QED
  BY <1>7, <1>8 DEF DamageInv

LEMMA DamageStep ==
  ASSUME ~SilentFaults, StoreInv, DamageInv, StoreNext \/ UNCHANGED tree
  PROVE  DamageInv'
<1>1. object \in [Keys -> Bytes \cup {None}] /\ UploadsOK
  BY StoreInvParts
<1>2. ASSUME object' = object, PutsDone',
             \A r \in Uploads : uploads'[r].hash = uploads[r].hash /\ uploads'[r].at = uploads[r].at
      PROVE  DamageInv'
  BY <1>2 DEF DamageInv, Missing, Blame
<1>3. CASE UNCHANGED <<object, uploads>>
  BY <1>2, <1>3 DEF DamageInv, PutsDone
<1>4. ASSUME NEW r \in Uploads, NEW u \in Users, NEW n \in Names, NEW k \in Keys,
             BeginPut(r, u, n, k)
      PROVE  DamageInv'
  <2>1. /\ object' = [object EXCEPT ![k] = <<>>]
        /\ uploads'[r].pc = "write" /\ uploads'[r].hash = k /\ uploads'[r].at = 0
        /\ uploads[r].pc = "idle" /\ uploads[r].hash = None
        /\ \A q \in Uploads : q # r => uploads'[q] = uploads[q]
    BY <1>1, <1>4 DEF BeginPut, UploadsOK, UploadLocals
  <2>2. PutsDone'
    BY <2>1 DEF PutsDone, DamageInv
  <2>3. ASSUME NEW h \in Keys, object'[h] # None
        PROVE  Len(object'[h]) <= Blocks /\ \A j \in 1 .. Blocks : Missing(h, j)' => Blame(h, j)'
    <3>1. CASE h = k
      <4>1. object'[h] = <<>> /\ Len(<<>>) = 0
        BY <1>1, <2>1, <3>1
      <4>2. \A j \in 1 .. Blocks : Blame(h, j)'
        BY <2>1, <3>1 DEF Blame
      <4> QED
        BY <4>1, <4>2, BlocksAssumption
    <3>2. CASE h # k
      <4>1. object'[h] = object[h]
        BY <1>1, <2>1, <3>2
      <4>2. Len(object[h]) <= Blocks /\ \A j \in 1 .. Blocks : Missing(h, j) => Blame(h, j)
        BY <2>3, <4>1 DEF DamageInv
      <4>3. ASSUME NEW j \in 1 .. Blocks, Blame(h, j) PROVE Blame(h, j)'
        BY <2>1, <4>3, NoneIsNoBytes DEF Blame
      <4> QED
        BY <4>1, <4>2, <4>3 DEF Missing
    <3> QED
      BY <3>1, <3>2
  <2> QED
    BY <2>2, <2>3 DEF DamageInv
<1>5. ASSUME NEW r \in Uploads, InsertRow(r) \/ UploadFault(r) \/ Publish(r)
      PROVE  DamageInv'
  <2>1. object' = object
    BY <1>5 DEF InsertRow, UploadFault, Publish
  <2>2. \A q \in Uploads : q # r => uploads'[q] = uploads[q]
    BY <1>1, <1>5 DEF InsertRow, UploadFault, Publish, UploadsOK
  <2>3. uploads'[r].hash = uploads[r].hash /\ uploads'[r].at = uploads[r].at
    BY <1>1, <1>5 DEF InsertRow, UploadFault, Publish, UploadsOK, UploadReq
  <2>4. \A q \in Uploads : uploads'[q].hash = uploads[q].hash /\ uploads'[q].at = uploads[q].at
    BY <2>2, <2>3
  <2>5. uploads'[r].pc = "failed" \/ uploads[r].pc \in {"insert", "publish"}
    BY <1>1, <1>5 DEF InsertRow, UploadFault, Publish, UploadsOK, UploadReq
  <2>6. PutsDone'
    BY <2>4, <2>2, <2>5 DEF PutsDone, DamageInv
  <2> QED
    BY <1>2, <2>1, <2>4, <2>6
<1>6. CASE Crash
  <2>1. \A r \in Uploads : uploads'[r] = uploads[r]
                           \/ uploads'[r] = [uploads[r] EXCEPT !.pc = "lost"]
    BY <1>1, <1>6 DEF Crash, Lost, UploadsOK
  <2>2. \A r \in Uploads : /\ uploads'[r].hash = uploads[r].hash /\ uploads'[r].at = uploads[r].at
                           /\ uploads'[r].pc \in {"lost", uploads[r].pc}
    <3>1. \A r \in Uploads : uploads[r] \in UploadReq
      BY <1>1 DEF UploadsOK
    <3> QED
      BY <2>1, <3>1 DEF UploadReq
  <2>3. PutsDone'
    BY <2>2 DEF PutsDone, DamageInv
  <2> QED
    BY <1>2, <1>6, <2>2, <2>3 DEF Crash
<1>7. ASSUME NEW r \in Uploads, PutUnflushed(r) PROVE DamageInv'
  BY <1>7 DEF PutUnflushed
<1>8. CASE \E d \in Downloads : FileDownload(d)
  BY <1>3, <1>8, DownloadKeeps
<1>9. CASE \/ \E u \in Users, n \in Names, k \in Keys : Delete(u, n, k)
           \/ \E u \in Users, n, m \in Names, k \in Keys : Rename(u, n, m, k)
  BY <1>3, <1>9, RowsKeep DEF handlers
<1>10. CASE UNCHANGED tree
  BY <1>3, <1>10 DEF tree, handlers
<1> QED
  BY <1>4, <1>5, <1>6, <1>7, <1>8, <1>9, <1>10, PutBlockBlame
     DEF StoreNext, FileUpload, UploadStep

LEMMA DamageInit == StoreInit => DamageInv
  BY DEF StoreInit, DamageInv, PutsDone

LEMMA WholeIsBytes == Whole \in Bytes
<1>1. Whole \in [1 .. Blocks -> {Good, Zero}] /\ Blocks \in Nat
  BY BlocksAssumption DEF Whole
<1> QED
  BY <1>1, SeqDef DEF Bytes

\* What is not whole misses a block.
LEMMA WholeIsGood ==
  ASSUME NEW s \in Bytes, Len(s) = Blocks, \A j \in 1 .. Blocks : s[j] = Good
  PROVE  s = Whole
<1>1. DOMAIN s = 1 .. Blocks /\ s = [j \in 1 .. Blocks |-> s[j]]
  BY DEF Bytes
<1> QED
  BY <1>1 DEF Whole

LEMMA DamageImplies ==
  ASSUME StoreInv, DamageInv
  PROVE  DamageIsUnfinishedPut
<1> SUFFICES ASSUME NEW k \in Keys, object[k] \notin {None, Whole}
             PROVE  \E r \in Uploads : uploads[r].hash = k /\ uploads[r].at < Blocks
  BY DEF DamageIsUnfinishedPut
<1>1. object[k] \in Bytes /\ Len(object[k]) \in Nat /\ Len(object[k]) <= Blocks
  BY StoreInvParts DEF DamageInv, Bytes
<1>2. PICK j \in 1 .. Blocks : Missing(k, j)
  <2> SUFFICES ASSUME \A j \in 1 .. Blocks : ~Missing(k, j) PROVE FALSE
    OBVIOUS
  <2>1. Blocks <= Len(object[k]) /\ \A j \in 1 .. Blocks : object[k][j] = Good
    BY BlocksAssumption DEF Missing
  <2>2. Len(object[k]) = Blocks
    BY <1>1, <2>1, BlocksAssumption
  <2> QED
    BY <1>1, <2>1, <2>2, WholeIsGood
<1>3. PICK r \in Uploads : uploads[r].hash = k /\ uploads[r].at < j
  BY <1>2 DEF DamageInv, Blame
<1>4. uploads[r].at \in 0 .. Blocks
  BY DEF StoreInv, StoreTypeOK, UploadReq
<1> QED
  BY <1>3, <1>4, BlocksAssumption

-----------------------------------------------------------------------------
(* What a download that found its row can have read. *)

RowsDone ==
  \A r \in Uploads : files[r] # None =>
    /\ files[r].hash = uploads[r].hash /\ files[r].hash # None
    /\ uploads[r].at = Blocks

Short(q) ==
  \/ \E j \in 1 .. Len(q.got) : q.got[j] # Good
  \/ q.pc = "ok" /\ Len(q.got) < Blocks

Other(r, k) == \E q \in Uploads : q # r /\ uploads[q].hash = k

ReadOf(q) ==
  /\ q.pc = "idle" => q.row = None
  /\ q.pc \in {"idle", "open"} => q.got = <<>>
  /\ q.row # None =>
       /\ q.hash # None
       /\ uploads[q.row].hash = q.hash /\ uploads[q.row].at = Blocks
       /\ Len(q.got) <= Blocks
       /\ Short(q) => Other(q.row, q.hash)

ReadInv == RowsDone /\ \A d \in Downloads : ReadOf(downloads[d])

\* A download keeps what it knows when the uploads only move on.
LEMMA ReadKept ==
  ASSUME StoreInv, StoreInv', UploadsGrow, NEW q \in DownloadReq, ReadOf(q)
  PROVE  ReadOf(q)'
<1>1. \A r \in Uploads : uploads[r].at \in 0 .. Blocks /\ uploads'[r].at \in 0 .. Blocks
  BY DEF StoreInv, StoreTypeOK, UploadReq
<1>2. q.row # None => q.row \in Uploads
  BY DEF DownloadReq
<1>3. q.row # None /\ Other(q.row, q.hash) => Other(q.row, q.hash)'
  <2> SUFFICES ASSUME q.row # None, Other(q.row, q.hash) PROVE Other(q.row, q.hash)'
    OBVIOUS
  <2>1. q.hash # None
    BY DEF ReadOf
  <2>2. PICK s \in Uploads : s # q.row /\ uploads[s].hash = q.hash
    BY DEF Other
  <2>3. uploads'[s].hash = q.hash
    BY <2>1, <2>2 DEF UploadsGrow
  <2> QED
    BY <2>2, <2>3 DEF Other
<1>4. q.row # None => uploads'[q.row].hash = q.hash /\ uploads'[q.row].at = Blocks
  <2> SUFFICES ASSUME q.row # None PROVE uploads'[q.row].hash = q.hash /\ uploads'[q.row].at = Blocks
    OBVIOUS
  <2>1. /\ uploads'[q.row].hash = uploads[q.row].hash /\ uploads[q.row].hash = q.hash
        /\ uploads'[q.row].at >= uploads[q.row].at /\ uploads[q.row].at = Blocks
    BY <1>2 DEF UploadsGrow, ReadOf
  <2>2. uploads'[q.row].at \in 0 .. Blocks
    BY <1>1, <1>2
  <2> QED
    BY <2>1, <2>2, BlocksAssumption
<1> QED
  BY <1>3, <1>4 DEF ReadOf, Short

\* A missing block is met only while another upload rewrites the object.
LEMMA MissingHasOther ==
  ASSUME StoreInv, DamageInv, NEW r \in Uploads, NEW k \in Keys, NEW j \in 1 .. Blocks,
         uploads[r].hash = k, uploads[r].at = Blocks, Missing(k, j)
  PROVE  Other(r, k)
<1>1. object[k] # None
  BY NoneIsNoBytes DEF StoreInv, ObjectsKept
<1>2. PICK q \in Uploads : uploads[q].hash = k /\ uploads[q].at < j
  BY <1>1 DEF DamageInv, Blame
<1>3. q # r
  BY <1>2, BlocksAssumption
<1> QED
  BY <1>2, <1>3 DEF Other

LEMMA ReadBlockReads ==
  ASSUME StoreInv, DamageInv, ReadInv, NEW d \in Downloads, ReadBlock(d)
  PROVE  ReadOf(downloads'[d])
<1> DEFINE q == downloads[d]
           b == object[q.hash]
<1>1. q \in DownloadReq /\ q.hash \in Keys /\ q.pc = "read" /\ b # None /\ q.got \in Bytes
      /\ ReadOf(q)
  BY DEF StoreInv, StoreTypeOK, DownloadLocals, ObjectsKept, ReadBlock, DownloadReq, Bytes, ReadInv
<1>2. b \in Bytes /\ Len(b) \in Nat /\ Len(b) <= Blocks /\ Len(q.got) \in Nat
  BY <1>1, StoreInvParts DEF DamageInv, Bytes
<1>3. q.row # None => q.row \in Uploads
  BY <1>1 DEF DownloadReq
<1>4. CASE Len(q.got) < Len(b)
  <2> DEFINE x == b[Len(q.got) + 1]
             g == Append(q.got, x)
  <2>1. downloads'[d] = [q EXCEPT !.got = g]
    BY <1>4 DEF ReadBlock, StoreInv, StoreTypeOK
  <2>2. Len(g) = Len(q.got) + 1 /\ g[Len(g)] = x /\ \A j \in 1 .. Len(q.got) : g[j] = q.got[j]
    BY <1>1, <1>2 DEF Bytes
  <2> HIDE DEF g
  <2>3. /\ downloads'[d].pc = "read" /\ downloads'[d].row = q.row /\ downloads'[d].hash = q.hash
        /\ downloads'[d].got = g
    BY <1>1, <2>1 DEF DownloadReq
  <2>4. ASSUME q.row # None, Short(downloads'[d]) PROVE Other(q.row, q.hash)
    <3>1. PICK j \in 1 .. Len(g) : g[j] # Good
      BY <2>3, <2>4 DEF Short
    <3>2. CASE j <= Len(q.got)
      <4>1. j \in 1 .. Len(q.got) /\ q.got[j] # Good
        BY <1>2, <2>2, <3>1, <3>2
      <4> QED
        BY <1>1, <2>4, <4>1 DEF ReadOf, Short
    <3>3. CASE ~(j <= Len(q.got))
      <4>1. j = Len(g) /\ b[j] # Good /\ j \in 1 .. Blocks
        BY <1>2, <1>4, <2>2, <3>1, <3>3, BlocksAssumption
      <4>2. Missing(q.hash, j)
        BY <4>1 DEF Missing
      <4>3. uploads[q.row].hash = q.hash /\ uploads[q.row].at = Blocks
        BY <1>1, <2>4 DEF ReadOf
      <4> QED
        BY <1>1, <1>3, <2>4, <4>1, <4>2, <4>3, MissingHasOther
    <3> QED
      BY <3>2, <3>3
  <2>5. Len(g) <= Blocks
    BY <1>2, <1>4, <2>2, BlocksAssumption
  <2> QED
    BY <1>1, <2>3, <2>4, <2>5 DEF ReadOf
<1>5. CASE ~(Len(q.got) < Len(b))
  <2>1. downloads'[d] = [q EXCEPT !.pc = "ok"]
    BY <1>5 DEF ReadBlock, StoreInv, StoreTypeOK
  <2>2. /\ downloads'[d].pc = "ok" /\ downloads'[d].row = q.row /\ downloads'[d].hash = q.hash
        /\ downloads'[d].got = q.got
    BY <1>1, <2>1 DEF DownloadReq
  <2>3. ASSUME q.row # None, Short(downloads'[d]) PROVE Other(q.row, q.hash)
    <3>1. uploads[q.row].hash = q.hash /\ uploads[q.row].at = Blocks
      BY <1>1, <2>3 DEF ReadOf
    <3>2. CASE \E j \in 1 .. Len(q.got) : q.got[j] # Good
      BY <1>1, <2>3, <3>2 DEF ReadOf, Short
    <3>3. CASE Len(q.got) < Blocks
      <4>1. Missing(q.hash, Blocks) /\ Blocks \in 1 .. Blocks
        BY <1>2, <1>5, <3>3, BlocksAssumption DEF Missing
      <4> QED
        BY <1>1, <1>3, <2>3, <3>1, <4>1, MissingHasOther
    <3> QED
      BY <2>2, <2>3, <3>2, <3>3 DEF Short
  <2> QED
    BY <1>1, <2>2, <2>3 DEF ReadOf
<1> QED
  BY <1>4, <1>5

LEMMA RowsDoneStep ==
  ASSUME ~SilentFaults, StoreInv, StoreInv', DamageInv, UploadsGrow, RowsDone,
         StoreNext \/ UNCHANGED tree
  PROVE  RowsDone'
<1>1. /\ UploadsOK /\ files \in [Uploads -> FileRow \cup {None}]
      /\ \A r \in Uploads : uploads'[r].at \in 0 .. Blocks
  BY StoreInvParts DEF StoreInv, StoreTypeOK, UploadReq
<1>2. ASSUME NEW r \in Uploads, files[r] # None
      PROVE  /\ files[r].hash = uploads'[r].hash /\ files[r].hash # None
             /\ uploads'[r].at = Blocks
  BY <1>1, <1>2, BlocksAssumption DEF UploadsGrow, RowsDone
<1>3. CASE files' = files
  BY <1>2, <1>3 DEF RowsDone
<1>4. ASSUME NEW r \in Uploads, InsertRow(r) PROVE RowsDone'
  <2>1. /\ uploads[r].pc = "insert" /\ uploads'[r].hash = uploads[r].hash
        /\ uploads'[r].at = uploads[r].at
    BY <1>1, <1>4 DEF InsertRow, UploadsOK, UploadReq
  <2>2. uploads[r].at = Blocks /\ uploads[r].hash # None
    BY <2>1, UploadAtWork, NoneIsNoBytes DEF DamageInv, PutsDone
  <2>3. files'[r].hash = uploads[r].hash /\ \A q \in Uploads : q # r => files'[q] = files[q]
    BY <1>1, <1>4 DEF InsertRow
  <2> QED
    BY <1>2, <2>1, <2>2, <2>3 DEF RowsDone
<1>5. ASSUME NEW u \in Users, NEW n \in Names, NEW m \in Names, NEW k \in Keys,
             Delete(u, n, k) \/ Rename(u, n, m, k)
      PROVE  RowsDone'
  <2>1. ASSUME NEW r \in Uploads, files'[r] # None
        PROVE  files[r] # None /\ files'[r].hash = files[r].hash
    BY <1>1, <1>5, <2>1 DEF Delete, Rename, Matches, FileRow
  <2> QED
    BY <1>2, <2>1 DEF RowsDone
<1>6. ASSUME NEW r \in Uploads, FileUpload(r), ~InsertRow(r) PROVE files' = files
  BY <1>6 DEF FileUpload, UploadStep, BeginPut, PutBlock, PutUnflushed, UploadFault, Publish
<1>7. CASE \E d \in Downloads : FileDownload(d)
  BY <1>3, <1>7, DownloadKeeps
<1>8. CASE Crash \/ UNCHANGED tree
  BY <1>3, <1>8 DEF Crash, tree
<1> QED
  BY <1>3, <1>4, <1>5, <1>6, <1>7, <1>8 DEF StoreNext

LEMMA DownloadReads ==
  ASSUME StoreInv, DamageInv, ReadInv, NEW d \in Downloads, FileDownload(d)
  PROVE  ReadOf(downloads'[d]) /\ \A e \in Downloads : e # d => downloads'[e] = downloads[e]
<1> DEFINE q == downloads[d]
<1>1. q \in DownloadReq /\ ReadOf(q) /\ downloads \in [Downloads -> DownloadReq]
  BY DEF StoreInv, StoreTypeOK, ReadInv
<1>2. \A e \in Downloads : e # d => downloads'[e] = downloads[e]
  BY <1>1 DEF FileDownload, SelectForDownload, SelectThrows, OpenForRead, ReadBlock
<1>3. ASSUME NEW u \in Users, NEW n \in Names, NEW k \in Keys, SelectForDownload(d, u, n, k)
      PROVE  ReadOf(downloads'[d])
  <2>1. PICK r \in Uploads :
          /\ Matches(files[r], u, n, k)
          /\ downloads' = [downloads EXCEPT ![d].pc = "open", ![d].uid = u, ![d].hash = k, ![d].row = r]
    BY <1>3 DEF SelectForDownload
  <2>2. /\ downloads'[d].pc = "open" /\ downloads'[d].hash = k /\ downloads'[d].row = r
        /\ downloads'[d].got = q.got
    BY <1>1, <2>1 DEF DownloadReq
  <2>3. q.got = <<>>
    BY <1>1, <1>3 DEF SelectForDownload, ReadOf
  <2>4. uploads[r].hash = k /\ uploads[r].at = Blocks /\ k # None
    BY <2>1, NoneIsNoBytes DEF Matches, ReadInv, RowsDone
  <2> QED
    BY <2>2, <2>3, <2>4, BlocksAssumption DEF ReadOf, Short
<1>4. ASSUME NEW u \in Users, NEW k \in Keys, SelectThrows(d, u, k)
      PROVE  ReadOf(downloads'[d])
  <2>1. /\ downloads'[d].pc = "open" /\ downloads'[d].row = q.row /\ downloads'[d].got = q.got
    BY <1>1, <1>4 DEF SelectThrows, DownloadReq
  <2>2. q.got = <<>> /\ q.row = None
    BY <1>1, <1>4 DEF SelectThrows, ReadOf
  <2> QED
    BY <2>1, <2>2 DEF ReadOf
<1>5. CASE OpenForRead(d)
  <2>1. /\ downloads'[d].pc \in {"failed", "read"} /\ downloads'[d].row = q.row
        /\ downloads'[d].hash = q.hash /\ downloads'[d].got = q.got
    BY <1>1, <1>5 DEF OpenForRead, DownloadReq
  <2> QED
    BY <1>1, <1>2, <2>1 DEF ReadOf, Short
<1>6. CASE ReadBlock(d)
  BY <1>2, <1>6, ReadBlockReads
<1> QED
  BY <1>2, <1>3, <1>4, <1>5, <1>6 DEF FileDownload

LEMMA ReadStep ==
  ASSUME ~SilentFaults, StoreInv, DamageInv, ReadInv, StoreNext \/ UNCHANGED tree
  PROVE  ReadInv'
<1>1. StoreInv' /\ UploadsGrow
  BY StoreInvStep
<1>2. RowsDone'
  BY <1>1, RowsDoneStep DEF ReadInv
<1>3. ASSUME NEW d \in Downloads
      PROVE  downloads'[d] \in DownloadReq /\ ReadOf(downloads'[d])
  <2>1. downloads[d] \in DownloadReq /\ ReadOf(downloads[d]) /\ downloads'[d] \in DownloadReq
    BY <1>1 DEF StoreInv, StoreTypeOK, ReadInv
  <2>2. CASE downloads'[d] = downloads[d]
    BY <2>1, <2>2
  <2>3. CASE \E e \in Downloads : FileDownload(e)
    BY <2>1, <2>3, DownloadReads
  <2>4. CASE Crash
    <3>1. downloads'[d] = downloads[d] \/ downloads'[d] = [downloads[d] EXCEPT !.pc = "lost"]
      BY <2>4 DEF Crash, Lost, StoreInv, StoreTypeOK
    <3>2. /\ downloads'[d].pc \in {"lost", downloads[d].pc} /\ downloads'[d].row = downloads[d].row
          /\ downloads'[d].hash = downloads[d].hash /\ downloads'[d].got = downloads[d].got
      BY <2>1, <3>1 DEF DownloadReq
    <3> QED
      BY <2>1, <3>2 DEF ReadOf, Short
  <2>5. ASSUME NEW r \in Uploads, FileUpload(r) PROVE downloads' = downloads
    BY <2>5 DEF FileUpload, UploadStep, BeginPut, PutBlock, PutUnflushed, InsertRow, UploadFault, Publish
  <2>6. CASE \/ \E u \in Users, n \in Names, k \in Keys : Delete(u, n, k)
             \/ \E u \in Users, n, m \in Names, k \in Keys : Rename(u, n, m, k)
    BY <2>2, <2>6, RowsKeep DEF handlers
  <2>7. CASE UNCHANGED tree
    BY <2>2, <2>7 DEF tree, handlers
  <2> QED
    BY <2>2, <2>3, <2>4, <2>5, <2>6, <2>7 DEF StoreNext
<1>4. ASSUME NEW d \in Downloads PROVE ReadOf(downloads[d])'
  <2>1. PICK q \in DownloadReq : q = downloads'[d]
    BY <1>3
  <2>2. ReadOf(q)
    BY <1>3, <2>1
  <2>3. ReadOf(q)'
    BY <1>1, <2>2, ReadKept
  <2> QED
    BY <2>1, <2>3 DEF ReadOf, Short, Other
<1> QED
  BY <1>2, <1>4 DEF ReadInv

LEMMA ReadInit == StoreInit => ReadInv
  BY NoneIsNoBytes DEF StoreInit, ReadInv, RowsDone, ReadOf

LEMMA ReadImplies ==
  ASSUME StoreInv, ReadInv
  PROVE  ShortAnswerNeedsRewrite
<1> SUFFICES ASSUME NEW d \in Downloads, downloads[d].pc = "ok", downloads[d].row # None,
                    downloads[d].got # Whole
             PROVE  \E r \in Uploads : r # downloads[d].row /\ uploads[r].hash = downloads[d].hash
  BY DEF ShortAnswerNeedsRewrite
<1>1. ReadOf(downloads[d]) /\ downloads[d].got \in Bytes
  BY DEF ReadInv, StoreInv, StoreTypeOK, DownloadReq, Bytes
<1>2. Len(downloads[d].got) \in Nat /\ Len(downloads[d].got) <= Blocks
  BY <1>1 DEF ReadOf, Bytes
<1>3. Short(downloads[d])
  <2> SUFFICES ASSUME ~Short(downloads[d]) PROVE FALSE
    OBVIOUS
  <2>1. Len(downloads[d].got) = Blocks /\ \A j \in 1 .. Blocks : downloads[d].got[j] = Good
    BY <1>2, BlocksAssumption DEF Short
  <2> QED
    BY <1>1, <2>1, WholeIsGood
<1> QED
  BY <1>1, <1>3 DEF ReadOf, Other

-----------------------------------------------------------------------------
(* Queues without doubles. *)

Holds(s, m) == \E i \in 1 .. Len(s) : s[i] = m
Distinct(s) == \A i, j \in 1 .. Len(s) : i # j => s[i] # s[j]

LEMMA AppendHolds ==
  ASSUME NEW S, NEW s \in Seq(S), NEW m \in S
  PROVE  /\ Append(s, m) \in Seq(S)
         /\ \A x : Holds(Append(s, m), x) <=> Holds(s, x) \/ x = m
         /\ Distinct(s) /\ ~Holds(s, m) => Distinct(Append(s, m))
<1> DEFINE t == Append(s, m)
<1>1. /\ t \in Seq(S) /\ Len(s) \in Nat /\ Len(t) = Len(s) + 1 /\ t[Len(s) + 1] = m
      /\ \A i \in 1 .. Len(s) : t[i] = s[i]
  OBVIOUS
<1> HIDE DEF t
<1>2. ASSUME NEW x PROVE Holds(t, x) <=> Holds(s, x) \/ x = m
  <2>1. ASSUME Holds(t, x) PROVE Holds(s, x) \/ x = m
    BY <1>1, <2>1 DEF Holds
  <2>2. ASSUME Holds(s, x) PROVE Holds(t, x)
    BY <1>1, <2>2 DEF Holds
  <2>3. ASSUME x = m PROVE Holds(t, x)
    BY <1>1, <2>3 DEF Holds
  <2> QED
    BY <2>1, <2>2, <2>3
<1>3. ASSUME Distinct(s), ~Holds(s, m) PROVE Distinct(t)
  BY <1>1, <1>3 DEF Distinct, Holds
<1> QED
  BY <1>1, <1>2, <1>3 DEF t

LEMMA TailHolds ==
  ASSUME NEW S, NEW s \in Seq(S), s # <<>>
  PROVE  /\ Head(s) \in S /\ Holds(s, Head(s))
         /\ Tail(s) \in Seq(S)
         /\ \A x : Holds(s, x) <=> Holds(Tail(s), x) \/ x = Head(s)
         /\ Distinct(s) => Distinct(Tail(s)) /\ ~Holds(Tail(s), Head(s))
<1> DEFINE t == Tail(s)
<1>1. /\ Head(s) = s[1] /\ Head(s) \in S /\ t \in Seq(S) /\ Len(s) \in Nat /\ Len(s) >= 1
      /\ Len(t) = Len(s) - 1 /\ \A i \in 1 .. Len(t) : t[i] = s[i + 1]
  OBVIOUS
<1> HIDE DEF t
<1>2. Holds(s, Head(s)) /\ \A x : Holds(t, x) => Holds(s, x)
  BY <1>1 DEF Holds
<1>3. ASSUME NEW x, Holds(s, x), x # Head(s) PROVE Holds(t, x)
  <2>1. PICK i \in 1 .. Len(s) : s[i] = x
    BY <1>3 DEF Holds
  <2>2. i - 1 \in 1 .. Len(t) /\ t[i - 1] = x
    BY <1>1, <1>3, <2>1
  <2> QED
    BY <2>2 DEF Holds
<1>4. ASSUME Distinct(s) PROVE Distinct(t) /\ ~Holds(t, Head(s))
  <2>1. Distinct(t)
    <3> SUFFICES ASSUME NEW i \in 1 .. Len(t), NEW j \in 1 .. Len(t), i # j PROVE t[i] # t[j]
      BY DEF Distinct
    <3>1. i + 1 \in 1 .. Len(s) /\ j + 1 \in 1 .. Len(s) /\ i + 1 # j + 1
      BY <1>1
    <3> QED
      BY <1>1, <1>4, <3>1 DEF Distinct
  <2>2. ASSUME NEW i \in 1 .. Len(t) PROVE t[i] # Head(s)
    <3>1. i + 1 \in 1 .. Len(s) /\ 1 \in 1 .. Len(s) /\ i + 1 # 1
      BY <1>1
    <3> QED
      BY <1>1, <1>4, <3>1 DEF Distinct
  <2> QED
    BY <2>1, <2>2 DEF Holds
<1> QED
  BY <1>1, <1>2, <1>4, <1>3 DEF t

LEMMA PushHolds ==
  ASSUME NEW S, NEW s \in Seq(S), NEW m \in S
  PROVE  /\ <<m>> \o s \in Seq(S)
         /\ \A x : Holds(<<m>> \o s, x) <=> Holds(s, x) \/ x = m
         /\ Distinct(s) /\ ~Holds(s, m) => Distinct(<<m>> \o s)
<1> DEFINE t == <<m>> \o s
<1>1. /\ t \in Seq(S) /\ Len(s) \in Nat /\ Len(t) = Len(s) + 1 /\ t[1] = m
      /\ \A i \in 2 .. Len(t) : t[i] = s[i - 1]
  OBVIOUS
<1> HIDE DEF t
<1>2. \A i \in 1 .. Len(s) : t[i + 1] = s[i]
  BY <1>1
<1>3. ASSUME NEW x PROVE Holds(t, x) <=> Holds(s, x) \/ x = m
  <2>1. ASSUME Holds(t, x) PROVE Holds(s, x) \/ x = m
    BY <1>1, <2>1 DEF Holds
  <2>2. ASSUME Holds(s, x) PROVE Holds(t, x)
    <3>1. PICK i \in 1 .. Len(s) : s[i] = x
      BY <2>2 DEF Holds
    <3>2. i + 1 \in 1 .. Len(t) /\ t[i + 1] = x
      BY <1>1, <1>2, <3>1
    <3> QED
      BY <3>2 DEF Holds
  <2>3. ASSUME x = m PROVE Holds(t, x)
    BY <1>1, <2>3 DEF Holds
  <2> QED
    BY <2>1, <2>2, <2>3
<1>4. ASSUME Distinct(s), ~Holds(s, m) PROVE Distinct(t)
  <2> SUFFICES ASSUME NEW i \in 1 .. Len(t), NEW j \in 1 .. Len(t), i # j, t[i] = t[j]
               PROVE  FALSE
    BY DEF Distinct
  <2>1. \A n \in 2 .. Len(t) : n - 1 \in 1 .. Len(s) /\ t[n] = s[n - 1]
    BY <1>1
  <2>2. CASE i = 1
    BY <1>1, <1>4, <2>1, <2>2 DEF Holds
  <2>3. CASE j = 1
    BY <1>1, <1>4, <2>1, <2>3 DEF Holds
  <2>4. CASE i # 1 /\ j # 1
    <3>1. i \in 2 .. Len(t) /\ j \in 2 .. Len(t)
      BY <1>1, <2>4
    <3>2. i - 1 \in 1 .. Len(s) /\ j - 1 \in 1 .. Len(s) /\ s[i - 1] = s[j - 1] /\ i - 1 # j - 1
      BY <2>1, <3>1
    <3> QED
      BY <1>4, <3>2 DEF Distinct
  <2> QED
    BY <2>2, <2>3, <2>4
<1> QED
  BY <1>1, <1>3, <1>4 DEF t

-----------------------------------------------------------------------------
(* What an upload that has published can still do: nothing. *)

PublishedInv ==
  /\ \A r \in Uploads : uploads[r].published => uploads[r].pc = "ok"
  /\ \A r \in Uploads : Holds(queue, r) \/ worker.msg = r \/ r \in acked => uploads[r].published

\* Every message is at one place.
OnceInv ==
  /\ Distinct(queue)
  /\ \A m \in Messages : Holds(queue, m) => m \notin acked /\ worker.msg # m
  /\ worker.msg \notin acked

LEMMA OkRests ==
  ASSUME StoreInv, StoreNext, NEW r \in Uploads, uploads[r].pc = "ok"
  PROVE  uploads'[r] = uploads[r]
<1>1. UploadsOK
  BY StoreInvParts
<1>2. ASSUME NEW q \in Uploads, FileUpload(q) PROVE uploads'[r] = uploads[r]
  <2>1. uploads[q].pc # "ok"
    BY <1>2 DEF FileUpload, UploadStep, BeginPut, PutBlock, PutUnflushed, InsertRow, UploadFault,
                Publish
  <2> QED
    BY <1>1, <1>2, <2>1 DEF UploadsOK, FileUpload, UploadStep, BeginPut, PutBlock, PutUnflushed,
                            InsertRow, UploadFault, Publish
<1>3. CASE Crash
  BY <1>1, <1>3 DEF Crash, Lost, UploadsOK
<1>4. CASE \E d \in Downloads : FileDownload(d)
  BY <1>4, DownloadKeeps
<1>5. CASE \/ \E u \in Users, n \in Names, k \in Keys : Delete(u, n, k)
           \/ \E u \in Users, n, m \in Names, k \in Keys : Rename(u, n, m, k)
  BY <1>5, RowsKeep DEF handlers
<1> QED
  BY <1>2, <1>3, <1>4, <1>5 DEF StoreNext

\* The only step of the store that touches the queue.
LEMMA OnlyPublish ==
  ASSUME StoreInv, StoreNext
  PROVE  \/ /\ queue' = queue
            /\ \A r \in Uploads : uploads'[r].published => uploads[r].published
         \/ \E p \in Uploads :
              /\ queue' = Append(queue, p)
              /\ uploads[p].pc = "publish" /\ uploads'[p].published /\ uploads'[p].pc = "ok"
              /\ \A r \in Uploads : r # p => uploads'[r] = uploads[r]
<1> DEFINE Quiet == queue' = queue /\ \A r \in Uploads : uploads'[r].published => uploads[r].published
<1>1. UploadsOK
  BY StoreInvParts
<1>2. ASSUME NEW q \in Uploads, NEW u \in Users, NEW n \in Names, NEW k \in Keys,
             BeginPut(q, u, n, k)
      PROVE  Quiet
  BY <1>1, <1>2 DEF BeginPut, UploadsOK
<1>3. ASSUME NEW q \in Uploads,
             PutBlock(q) \/ PutUnflushed(q) \/ InsertRow(q) \/ UploadFault(q)
      PROVE  Quiet
  <2>1. uploads'[q].published = uploads[q].published
        /\ \A r \in Uploads : r # q => uploads'[r] = uploads[r]
    BY <1>1, <1>3 DEF PutBlock, PutUnflushed, InsertRow, UploadFault, UploadsOK, UploadReq
  <2>2. queue' = queue
    BY <1>3 DEF PutBlock, PutUnflushed, InsertRow, UploadFault
  <2> QED
    BY <2>1, <2>2
<1>4. ASSUME NEW q \in Uploads, Publish(q)
      PROVE  \/ Quiet
             \/ /\ queue' = Append(queue, q)
                /\ uploads[q].pc = "publish" /\ uploads'[q].published /\ uploads'[q].pc = "ok"
                /\ \A r \in Uploads : r # q => uploads'[r] = uploads[r]
  BY <1>1, <1>4 DEF Publish, UploadsOK, UploadReq
<1>5. CASE Crash
  <2>1. \A r \in Uploads : uploads[r] \in UploadReq
    BY <1>1 DEF UploadsOK
  <2>2. \A r \in Uploads : uploads'[r] = uploads[r] \/ uploads'[r] = [uploads[r] EXCEPT !.pc = "lost"]
    BY <1>1, <1>5 DEF Crash, Lost, UploadsOK
  <2> QED
    BY <1>5, <2>1, <2>2 DEF Crash, UploadReq
<1>6. CASE \E d \in Downloads : FileDownload(d)
  BY <1>6, DownloadKeeps
<1>7. CASE \/ \E u \in Users, n \in Names, k \in Keys : Delete(u, n, k)
           \/ \E u \in Users, n, m \in Names, k \in Keys : Rename(u, n, m, k)
  BY <1>7, RowsKeep DEF handlers
<1> QED
  BY <1>2, <1>3, <1>4, <1>5, <1>6, <1>7 DEF StoreNext, FileUpload, UploadStep

-----------------------------------------------------------------------------
(* The queue, the worker's hands and what is acknowledged. *)

QueueTypes ==
  /\ queue \in Seq(Messages) /\ dlq \in Seq(Uploads)
  /\ worker \in Worker
  /\ worker.pc \in {"poll", "down"} <=> worker.msg = None
  /\ worker.pc \in {"copy", "ack", "reject"} => worker.msg \in Uploads
  /\ acked \subseteq Messages
  /\ stops \in 0 .. MaxStops

QueueInv == QueueTypes /\ PublishedInv /\ OnceInv

LEMMA NoneIsNoMessage == None \notin Messages
  BY JunkAssumption DEF Messages

\* The worker moves within one message.
LEMMA WithinMessage ==
  ASSUME QueueInv, NEW p \in {"parse", "copy", "ack", "reject"}, worker.msg \in Uploads,
         Goto(p), UNCHANGED <<queue, uploads, dlq, acked, stops>>
  PROVE  QueueInv' /\ worker'.pc = p /\ worker'.msg = worker.msg
<1>1. worker'.pc = p /\ worker'.msg = worker.msg /\ worker' \in Worker
  BY DEF Goto, QueueInv, QueueTypes, Worker
<1>2. worker.msg # None
  BY NoneIsNoMessage DEF Messages
<1>3. QueueTypes'
  BY <1>1, <1>2 DEF QueueInv, QueueTypes
<1>4. PublishedInv' /\ OnceInv'
  BY <1>1 DEF QueueInv, PublishedInv, OnceInv
<1> QED
  BY <1>1, <1>3, <1>4 DEF QueueInv

\* The worker is through with its message.
LEMMA BackToPoll ==
  ASSUME QueueInv, NextMessage, UNCHANGED <<queue, uploads, stops>>,
         dlq' \in Seq(Uploads),
         acked' = acked \/ (worker.msg \in Messages /\ acked' = acked \cup {worker.msg})
  PROVE  QueueInv'
<1>1. worker' = [pc |-> "poll", msg |-> None]
  BY DEF NextMessage
<1>2. acked' \subseteq Messages
  BY DEF QueueInv, QueueTypes
<1>3. QueueTypes'
  BY <1>1, <1>2 DEF QueueInv, QueueTypes, Worker
<1>4. \A r \in Uploads : r # None
  BY NoneIsNoMessage DEF Messages
<1>5. PublishedInv'
  BY <1>1, <1>4 DEF QueueInv, PublishedInv
<1>6. \A m \in Messages : Holds(queue, m) => m \notin acked' /\ m # None
  BY NoneIsNoMessage DEF QueueInv, OnceInv
<1>7. OnceInv'
  BY <1>1, <1>2, <1>6, NoneIsNoMessage DEF QueueInv, OnceInv
<1> QED
  BY <1>3, <1>5, <1>7 DEF QueueInv

LEMMA QueueStep ==
  ASSUME StoreInv, QueueInv, [Next]_vars
  PROVE  QueueInv'
<1>0. QueueTypes /\ PublishedInv /\ OnceInv /\ queue \in Seq(Messages) /\ worker \in Worker
  BY DEF QueueInv, QueueTypes
<1>1. CASE StoreNext /\ UNCHANGED workerVars
  <2>1. CASE queue' = queue /\ \A r \in Uploads : uploads'[r].published => uploads[r].published
    <3>1. \A r \in Uploads : uploads[r].published => uploads'[r] = uploads[r]
      BY <1>0, <1>1, OkRests DEF PublishedInv
    <3>2. PublishedInv'
      BY <1>0, <1>1, <2>1, <3>1 DEF PublishedInv, workerVars
    <3> QED
      BY <1>0, <1>1, <2>1, <3>2 DEF QueueInv, QueueTypes, OnceInv, workerVars
  <2>2. ASSUME NEW p \in Uploads, queue' = Append(queue, p),
               uploads[p].pc = "publish", uploads'[p].published, uploads'[p].pc = "ok",
               \A r \in Uploads : r # p => uploads'[r] = uploads[r]
        PROVE  QueueInv'
    <3>1. ~Holds(queue, p) /\ worker.msg # p /\ p \notin acked
      BY <1>0, <2>2 DEF PublishedInv
    <3>2. /\ queue' \in Seq(Messages) /\ Distinct(queue')
          /\ \A x : Holds(queue', x) <=> Holds(queue, x) \/ x = p
      BY <1>0, <2>2, <3>1, AppendHolds DEF Messages, OnceInv
    <3>3. QueueTypes'
      BY <1>0, <1>1, <3>2 DEF QueueTypes, workerVars
    <3>4. PublishedInv'
      BY <1>0, <1>1, <2>2, <3>2 DEF PublishedInv, workerVars
    <3>5. OnceInv'
      BY <1>0, <1>1, <3>1, <3>2 DEF OnceInv, workerVars
    <3> QED
      BY <3>3, <3>4, <3>5 DEF QueueInv
  <2> QED
    BY <1>1, <2>1, <2>2, OnlyPublish
<1>2. CASE Start
  BY <1>2, BackToPoll DEF Start, storeVars, handlers, QueueInv, QueueTypes
<1>3. CASE Get
  <2> DEFINE h == Head(queue)
  <2>1. /\ worker' = [pc |-> "parse", msg |-> h] /\ queue' = Tail(queue) /\ queue # <<>>
        /\ UNCHANGED <<uploads, dlq, acked, stops>>
    BY <1>3 DEF Get, handlers
  <2>2. /\ h \in Messages /\ Holds(queue, h) /\ queue' \in Seq(Messages)
        /\ \A x : Holds(queue, x) <=> Holds(queue', x) \/ x = h
        /\ Distinct(queue') /\ ~Holds(queue', h)
    BY <1>0, <2>1, TailHolds DEF OnceInv
  <2> HIDE DEF h
  <2>3. worker' \in Worker /\ worker'.msg = h /\ worker'.pc = "parse" /\ h # None
    BY <2>1, <2>2, NoneIsNoMessage DEF Worker
  <2>4. QueueTypes'
    BY <1>0, <2>1, <2>2, <2>3 DEF QueueTypes
  <2>5. PublishedInv'
    BY <1>0, <2>1, <2>2, <2>3 DEF PublishedInv
  <2>6. OnceInv'
    BY <1>0, <2>1, <2>2, <2>3 DEF OnceInv
  <2> QED
    BY <2>4, <2>5, <2>6 DEF QueueInv
<1>4. CASE Discard
  BY <1>0, <1>4, BackToPoll DEF Discard, storeVars, handlers, QueueTypes, Messages
<1>5. CASE OpenCopy
  BY <1>5, WithinMessage DEF OpenCopy, storeVars, handlers
<1>6. CASE CopyBlock
  BY <1>0, <1>6 DEF CopyBlock, storeVars, handlers, QueueInv, QueueTypes, PublishedInv, OnceInv
<1>7. CASE EndCopy
  <2>1. PICK p \in {"reject", "ack"} : Goto(p)
    BY <1>7 DEF EndCopy
  <2>2. worker.msg \in Uploads /\ UNCHANGED <<queue, uploads, dlq, acked, stops>>
    BY <1>0, <1>7 DEF EndCopy, QueueTypes, storeVars, handlers
  <2> QED
    BY <2>1, <2>2, WithinMessage
<1>8. CASE CopyFault
  BY <1>8, WithinMessage DEF CopyFault, storeVars, handlers
<1>9. CASE Ack
  BY <1>0, <1>9, BackToPoll DEF Ack, storeVars, handlers, QueueTypes, Messages
<1>10. CASE Reject
  <2>1. dlq' \in Seq(Uploads)
    <3>1. worker.msg \in Uploads
      BY <1>0, <1>10 DEF Reject, QueueTypes
    <3> QED
      BY <1>0, <1>10, <3>1, AppendHolds DEF Reject, QueueTypes
  <2> QED
    BY <1>10, <2>1, BackToPoll DEF Reject, storeVars, handlers
<1>11. CASE Stop
  <2>1. /\ worker' = [pc |-> "down", msg |-> None] /\ UNCHANGED <<uploads, dlq, acked>>
        /\ stops' = stops + 1 /\ stops < MaxStops
        /\ queue' = IF worker.msg = None THEN queue ELSE <<worker.msg>> \o queue
    BY <1>11 DEF Stop, handlers
  <2>2. stops' \in 0 .. MaxStops
    BY <1>0, <2>1, StopAssumption DEF QueueTypes
  <2>3. worker' \in Worker /\ worker'.msg = None /\ worker'.pc = "down"
    BY <2>1 DEF Worker
  <2>4. /\ queue' \in Seq(Messages) /\ Distinct(queue')
        /\ \A x \in Messages : Holds(queue', x) => Holds(queue, x) \/ x = worker.msg
    <3>1. CASE worker.msg = None
      BY <1>0, <2>1, <3>1 DEF OnceInv
    <3>2. CASE worker.msg # None
      <4>1. worker.msg \in Messages /\ queue' = <<worker.msg>> \o queue
        BY <1>0, <2>1, <3>2 DEF Worker
      <4>2. ~Holds(queue, worker.msg)
        BY <1>0, <4>1 DEF OnceInv
      <4> QED
        BY <1>0, <4>1, <4>2, PushHolds DEF OnceInv
    <3> QED
      BY <3>1, <3>2
  <2>5. QueueTypes'
    BY <1>0, <2>1, <2>2, <2>3, <2>4 DEF QueueTypes
  <2>6. PublishedInv'
    BY <1>0, <2>1, <2>3, <2>4, NoneIsNoMessage DEF PublishedInv, Messages
  <2>7. OnceInv'
    <3>1. \A m \in Messages : Holds(queue', m) => m \notin acked /\ None # m
      BY <1>0, <2>4, NoneIsNoMessage DEF OnceInv
    <3> QED
      BY <1>0, <2>1, <2>3, <2>4, <3>1, NoneIsNoMessage DEF OnceInv, QueueTypes
  <2> QED
    BY <2>5, <2>6, <2>7 DEF QueueInv
<1>12. ASSUME NEW j \in Junk, PublishJunk(j) PROVE QueueInv'
  <2>1. /\ queue' = Append(queue, j) /\ UNCHANGED <<uploads, worker, dlq, acked, stops>>
        /\ j \notin acked /\ worker.msg # j /\ j \in Messages
    BY <1>12 DEF PublishJunk, handlers, workerVars, Messages
  <2>2. ~Holds(queue, j)
    BY <1>0, <1>12 DEF PublishJunk, Holds
  <2>3. /\ queue' \in Seq(Messages) /\ Distinct(queue')
        /\ \A x : Holds(queue', x) <=> Holds(queue, x) \/ x = j
    BY <1>0, <2>1, <2>2, AppendHolds DEF OnceInv
  <2>4. j \notin Uploads
    BY JunkAssumption
  <2>5. QueueTypes'
    BY <1>0, <2>1, <2>3 DEF QueueTypes
  <2>6. PublishedInv'
    BY <1>0, <2>1, <2>3, <2>4 DEF PublishedInv
  <2>7. OnceInv'
    BY <1>0, <2>1, <2>3 DEF OnceInv
  <2> QED
    BY <2>5, <2>6, <2>7 DEF QueueInv
<1>13. CASE UNCHANGED vars
  BY <1>13 DEF vars, storeVars, workerVars, handlers, QueueInv, QueueTypes, PublishedInv, OnceInv
<1> QED
  BY <1>1, <1>2, <1>3, <1>4, <1>5, <1>6, <1>7, <1>8, <1>9, <1>10, <1>11, <1>12, <1>13
     DEF Next, WorkerStep

-----------------------------------------------------------------------------
(* No message is lost. *)

\* Every message that was published is somewhere, and one in the dead-letter
\* queue is nowhere else.
PlacesInv ==
  /\ Distinct(dlq)
  /\ \A r \in Uploads : Holds(dlq, r) =>
       uploads[r].published /\ ~Holds(queue, r) /\ worker.msg # r /\ r \notin acked
  /\ \A r \in Uploads : uploads[r].published =>
       Holds(queue, r) \/ Holds(dlq, r) \/ worker.msg = r \/ r \in acked

LEMMA PlacesStep ==
  ASSUME StoreInv, QueueInv, PlacesInv, [Next]_vars
  PROVE  PlacesInv'
<1>0. /\ PublishedInv /\ OnceInv /\ queue \in Seq(Messages) /\ dlq \in Seq(Uploads)
      /\ worker \in Worker /\ acked \subseteq Messages
      /\ \A r \in Uploads : r \in Messages /\ r # None
      /\ worker.pc \in {"poll", "down"} <=> worker.msg = None
  BY NoneIsNoMessage DEF QueueInv, QueueTypes, Messages
<1>1. ASSUME UNCHANGED <<queue, dlq, acked>>, worker'.msg = worker.msg, uploads' = uploads
      PROVE  PlacesInv'
  BY <1>1 DEF PlacesInv
<1>2. ASSUME NEW p, Goto(p) PROVE worker'.msg = worker.msg
  BY <1>0, <1>2 DEF Goto, Worker
<1>3. CASE StoreNext /\ UNCHANGED workerVars
  <2>1. \A r \in Uploads : uploads[r].published => uploads'[r] = uploads[r]
    BY <1>0, <1>3, OkRests DEF PublishedInv
  <2>2. CASE queue' = queue /\ \A r \in Uploads : uploads'[r].published => uploads[r].published
    BY <1>3, <2>1, <2>2 DEF PlacesInv, workerVars
  <2>3. ASSUME NEW p \in Uploads, queue' = Append(queue, p),
               uploads[p].pc = "publish", uploads'[p].published,
               \A r \in Uploads : r # p => uploads'[r] = uploads[r]
        PROVE  PlacesInv'
    <3>1. ~uploads[p].published
      BY <1>0, <2>3 DEF PublishedInv
    <3>2. \A x : Holds(queue', x) <=> Holds(queue, x) \/ x = p
      BY <1>0, <2>3, AppendHolds
    <3> QED
      BY <1>3, <2>3, <3>1, <3>2 DEF PlacesInv, workerVars
  <2> QED
    BY <1>3, <2>2, <2>3, OnlyPublish
<1>4. CASE Start
  BY <1>0, <1>1, <1>4 DEF Start, NextMessage, storeVars, handlers
<1>5. CASE Get
  <2>1. /\ worker'.msg = Head(queue) /\ queue' = Tail(queue) /\ queue # <<>> /\ worker.msg = None
        /\ UNCHANGED <<uploads, dlq, acked>>
    BY <1>0, <1>5 DEF Get, handlers
  <2>2. \A x : Holds(queue, x) <=> Holds(queue', x) \/ x = worker'.msg
    BY <1>0, <2>1, TailHolds
  <2> QED
    BY <1>0, <2>1, <2>2 DEF PlacesInv
<1>6. CASE Discard \/ Ack
  <2>1. /\ worker'.msg = None /\ acked' = acked \cup {worker.msg}
        /\ UNCHANGED <<queue, uploads, dlq>>
    BY <1>6 DEF Discard, Ack, NextMessage, storeVars, handlers
  <2> QED
    BY <1>0, <2>1 DEF PlacesInv
<1>7. CASE Reject
  <2> DEFINE m == worker.msg
  <2>1. /\ worker'.msg = None /\ dlq' = Append(dlq, m) /\ m \in Uploads
        /\ UNCHANGED <<queue, uploads, acked>>
    BY <1>7 DEF Reject, NextMessage, storeVars, handlers, QueueInv, QueueTypes
  <2>2. ~Holds(dlq, m) /\ ~Holds(queue, m) /\ m \notin acked /\ uploads[m].published
    BY <1>0, <2>1 DEF PlacesInv, OnceInv, PublishedInv
  <2> HIDE DEF m
  <2>3. Distinct(dlq') /\ \A x : Holds(dlq', x) <=> Holds(dlq, x) \/ x = m
    BY <1>0, <2>1, <2>2, AppendHolds DEF PlacesInv
  <2>4. m = worker.msg
    BY DEF m
  <2> QED
    BY <1>0, <2>1, <2>2, <2>3, <2>4 DEF PlacesInv
<1>8. CASE Stop
  <2>1. /\ worker'.msg = None /\ UNCHANGED <<uploads, dlq, acked>>
        /\ queue' = IF worker.msg = None THEN queue ELSE <<worker.msg>> \o queue
    BY <1>8 DEF Stop, handlers
  <2>2. \A r \in Uploads : Holds(queue', r) <=> Holds(queue, r) \/ r = worker.msg
    <3>1. CASE worker.msg = None
      BY <1>0, <2>1, <3>1
    <3>2. CASE worker.msg # None
      BY <1>0, <2>1, <3>2, PushHolds DEF Worker
    <3> QED
      BY <3>1, <3>2
  <2> QED
    BY <1>0, <2>1, <2>2 DEF PlacesInv
<1>9. ASSUME NEW j \in Junk, PublishJunk(j) PROVE PlacesInv'
  <2>1. queue' = Append(queue, j) /\ j \in Messages /\ UNCHANGED <<uploads, worker, dlq, acked>>
    BY <1>9 DEF PublishJunk, workerVars, handlers, Messages
  <2>2. \A x : Holds(queue', x) <=> Holds(queue, x) \/ x = j
    BY <1>0, <2>1, AppendHolds
  <2>3. j \notin Uploads
    BY JunkAssumption
  <2> QED
    BY <2>1, <2>2, <2>3 DEF PlacesInv
<1>10. CASE OpenCopy \/ CopyBlock \/ EndCopy \/ CopyFault \/ UNCHANGED vars
  BY <1>1, <1>2, <1>10 DEF OpenCopy, CopyBlock, EndCopy, CopyFault, vars, workerVars, storeVars, handlers
<1> QED
  BY <1>3, <1>4, <1>5, <1>6, <1>7, <1>8, <1>9, <1>10 DEF Next, WorkerStep

\* Counting in a sequence without doubles.
LEMMA CopiesOne ==
  ASSUME NEW S, NEW s \in Seq(S), Distinct(s), NEW m
  PROVE  Copies(s, m) = IF Holds(s, m) THEN 1 ELSE 0
<1>1. DOMAIN s = 1 .. Len(s)
  OBVIOUS
<1>2. CASE Holds(s, m)
  <2>1. PICK i \in 1 .. Len(s) : s[i] = m
    BY <1>2 DEF Holds
  <2>2. {j \in DOMAIN s : s[j] = m} = {i}
    BY <1>1, <2>1 DEF Distinct
  <2> QED
    BY <1>2, <2>2, FS_Singleton DEF Copies
<1>3. CASE ~Holds(s, m)
  <2>1. {j \in DOMAIN s : s[j] = m} = {}
    BY <1>1, <1>3 DEF Holds
  <2> QED
    BY <1>3, <2>1, FS_EmptySet DEF Copies
<1> QED
  BY <1>2, <1>3

LEMMA PlacesImplies ==
  ASSUME QueueInv, PlacesInv
  PROVE  MessagesAreAccountedFor
<1> SUFFICES ASSUME NEW r \in Uploads
             PROVE  Copies(queue, r) + Copies(dlq, r)
                      + (IF worker.msg = r THEN 1 ELSE 0) + (IF r \in acked THEN 1 ELSE 0)
                    = (IF uploads[r].published THEN 1 ELSE 0)
  BY DEF MessagesAreAccountedFor
<1>1. /\ Copies(queue, r) = IF Holds(queue, r) THEN 1 ELSE 0
      /\ Copies(dlq, r) = IF Holds(dlq, r) THEN 1 ELSE 0
  BY CopiesOne DEF QueueInv, QueueTypes, OnceInv, PlacesInv
<1>2. /\ Holds(queue, r) => r \notin acked /\ worker.msg # r
      /\ worker.msg = r => r \notin acked
      /\ Holds(queue, r) \/ worker.msg = r \/ r \in acked => uploads[r].published
  BY DEF QueueInv, OnceInv, PublishedInv, Messages
<1>3. /\ Holds(dlq, r) => uploads[r].published /\ ~Holds(queue, r) /\ worker.msg # r /\ r \notin acked
      /\ uploads[r].published => Holds(queue, r) \/ Holds(dlq, r) \/ worker.msg = r \/ r \in acked
  BY DEF PlacesInv
<1> QED
  BY <1>1, <1>2, <1>3

-----------------------------------------------------------------------------
(* Every step is a step of the store or leaves it alone; the backup directory. *)

LEMMA StepIsStore == [Next]_vars => StoreNext \/ UNCHANGED tree
  BY DEF Next, WorkerStep, Start, Get, Discard, OpenCopy, CopyBlock, EndCopy, CopyFault, Ack,
         Reject, Stop, PublishJunk, vars, storeVars, tree

\* The message at hand names an upload that is through, and so a content.
LEMMA HandRests ==
  ASSUME StoreInv, QueueInv, [Next]_vars, worker.msg \in Uploads
  PROVE  /\ uploads'[worker.msg] = uploads[worker.msg]
         /\ Hash \in Keys /\ object[Hash] \in Bytes
         /\ worker.msg \notin acked
<1>1. uploads[worker.msg].pc = "ok" /\ worker.msg \notin acked
  BY DEF QueueInv, PublishedInv, OnceInv
<1>2. uploads'[worker.msg] = uploads[worker.msg]
  BY <1>1, StepIsStore, OkRests DEF tree, handlers
<1> QED
  BY <1>1, <1>2, UploadAtWork DEF Hash

BackupTypes ==
  /\ backup \in [Keys -> Bytes \cup {None}]
  /\ worker.pc = "copy" => backup[Hash] # None

LEMMA BackupStep ==
  ASSUME StoreInv, QueueInv, BackupTypes, [Next]_vars
  PROVE  BackupTypes'
<1>1. worker \in Worker /\ (worker.pc \in {"copy", "ack", "reject"} => worker.msg \in Uploads)
  BY DEF QueueInv, QueueTypes
<1>2. ASSUME backup' = backup, worker' = worker PROVE BackupTypes'
  <2>1. worker.pc = "copy" => Hash' = Hash
    BY <1>1, <1>2, HandRests DEF Hash
  <2> QED
    BY <1>2, <2>1 DEF BackupTypes
<1>3. ASSUME backup' \in [Keys -> Bytes \cup {None}], worker'.pc # "copy" PROVE BackupTypes'
  BY <1>3 DEF BackupTypes
<1>4. ASSUME NEW p \in {"parse", "ack", "reject"}, Goto(p) PROVE worker'.pc # "copy"
  BY <1>1, <1>4 DEF Goto, Worker
<1>5. CASE StoreNext /\ UNCHANGED workerVars
  BY <1>2, <1>5 DEF workerVars
<1>6. CASE Start \/ Get \/ Discard \/ Ack \/ Reject \/ Stop
  BY <1>3, <1>6 DEF Start, Get, Discard, Ack, Reject, Stop, NextMessage, BackupTypes
<1>7. CASE OpenCopy
  <2>1. /\ worker.msg \in Uploads /\ backup' = [backup EXCEPT ![Hash] = <<>>]
        /\ worker'.msg = worker.msg
    BY <1>1, <1>7 DEF OpenCopy, Goto, Worker
  <2>2. Hash' = Hash /\ Hash \in Keys
    BY <2>1, HandRests DEF Hash
  <2> HIDE DEF Hash
  <2> QED
    BY <2>1, <2>2, NoneIsNoBytes DEF BackupTypes
<1>8. CASE CopyBlock
  <2> DEFINE b == backup[Hash]
             x == object[Hash][Len(b) + 1]
  <2>1. worker.msg \in Uploads /\ Hash' = Hash /\ Hash \in Keys /\ object[Hash] \in Bytes
    BY <1>1, <1>8, HandRests DEF CopyBlock, Hash
  <2>2. b \in Bytes
    BY <1>8, <2>1 DEF BackupTypes, CopyBlock
  <2>3. Append(b, x) \in Bytes
    BY <1>8, <2>1, <2>2 DEF CopyBlock, Bytes
  <2>4. backup' = [backup EXCEPT ![Hash] = Append(b, x)] /\ worker' = worker
    BY <1>8 DEF CopyBlock
  <2> HIDE DEF Hash, x
  <2> QED
    BY <2>1, <2>3, <2>4, NoneIsNoBytes DEF BackupTypes
<1>9. CASE EndCopy
  <2> DEFINE b == backup[Hash]
  <2>1. worker'.pc # "copy"
    BY <1>4, <1>9 DEF EndCopy
  <2>2. Hash \in Keys /\ b \in Bytes
    BY <1>1, <1>9, HandRests DEF EndCopy, BackupTypes
  <2>3. b # <<>> => SubSeq(b, 1, Len(b) - 1) \in Bytes
    BY <2>2 DEF Bytes
  <2>4. backup' = backup \/ (b # <<>> /\ backup' = [backup EXCEPT ![Hash] = SubSeq(b, 1, Len(b) - 1)])
    BY <1>9 DEF EndCopy
  <2> HIDE DEF Hash
  <2>5. backup' \in [Keys -> Bytes \cup {None}]
    BY <2>2, <2>3, <2>4 DEF BackupTypes
  <2> QED
    BY <1>3, <2>1, <2>5
<1>10. CASE CopyFault
  BY <1>3, <1>4, <1>10 DEF CopyFault, BackupTypes
<1>11. CASE \E j \in Junk : PublishJunk(j)
  BY <1>2, <1>11 DEF PublishJunk, workerVars
<1>12. CASE UNCHANGED vars
  BY <1>2, <1>12 DEF vars, workerVars
<1> QED
  BY <1>5, <1>6, <1>7, <1>8, <1>9, <1>10, <1>11, <1>12 DEF Next, WorkerStep

-----------------------------------------------------------------------------
(* What is acknowledged is backed up. *)

AckedInv ==
  \A k \in Keys : (\E r \in Uploads : uploads[r].hash = k)
                  /\ (\A r \in Uploads : uploads[r].hash = k => r \in acked) => backup[k] = Whole

\* Another upload of the content, whose message the worker will get later.
Pending(k, m) == \E r \in Uploads : r # m /\ uploads[r].hash = k /\ r \notin acked

\* The copy at hand is good as far as it goes, or will be made again.
HandInv ==
  /\ worker.pc = "copy" =>
       /\ Len(backup[Hash]) <= Blocks
       /\ \A j \in 1 .. Len(backup[Hash]) : backup[Hash][j] = Good \/ Pending(Hash, worker.msg)
  /\ worker.pc = "ack" => backup[Hash] = Whole \/ Pending(Hash, worker.msg)

CopyInv == AckedInv /\ HandInv

\* A block that the copy does not find good is the debt of an upload to come.
LEMMA MissingIsPending ==
  ASSUME StoreInv, DamageInv, QueueInv, worker.msg \in Uploads,
         NEW j \in 1 .. Blocks, Missing(Hash, j)
  PROVE  Pending(Hash, worker.msg)
<1> DEFINE m == worker.msg
<1>1. uploads[m].pc = "ok" /\ m \notin acked
  BY DEF QueueInv, PublishedInv, OnceInv
<1>2. Hash \in Keys /\ object[Hash] # None
  BY <1>1, UploadAtWork, NoneIsNoBytes DEF Hash
<1>3. PICK r \in Uploads : uploads[r].hash = Hash /\ uploads[r].at < j
  BY <1>2 DEF DamageInv, Blame
<1>4. uploads[r].at # Blocks
  BY <1>3, BlocksAssumption
<1>5. uploads[r].pc # "ok"
  BY <1>4 DEF DamageInv, PutsDone
<1>6. r # m /\ r \notin acked
  BY <1>1, <1>5 DEF QueueInv, PublishedInv
<1> QED
  BY <1>3, <1>6 DEF Pending

\* Later steps neither pay a debt nor make one vanish, unless they acknowledge.
LEMMA PendingStays ==
  ASSUME UploadsGrow, NEW k \in Keys, NEW m, Pending(k, m), acked' \cap Uploads = acked \cap Uploads
  PROVE  Pending(k, m)'
<1>1. PICK r \in Uploads : r # m /\ uploads[r].hash = k /\ r \notin acked
  BY DEF Pending
<1>2. uploads'[r].hash = k /\ r \notin acked'
  BY <1>1, NoneIsNoBytes DEF UploadsGrow
<1> QED
  BY <1>1, <1>2 DEF Pending

\* What is acknowledged stays so; new uploads of a content only make debts.
LEMMA AckedStays ==
  ASSUME StoreInv, QueueInv, AckedInv, [Next]_vars, UploadsGrow,
         acked' \cap Uploads = acked \cap Uploads,
         \A k \in Keys : backup'[k] = backup[k] \/ Pending(k, None)'
  PROVE  AckedInv'
<1> SUFFICES ASSUME NEW k \in Keys, \E r \in Uploads : uploads'[r].hash = k,
                    \A r \in Uploads : uploads'[r].hash = k => r \in acked'
             PROVE  backup'[k] = Whole
  BY DEF AckedInv
<1>1. \A r \in Uploads : r \in acked => uploads'[r] = uploads[r]
  <2> SUFFICES ASSUME NEW r \in Uploads, r \in acked PROVE uploads'[r] = uploads[r]
    OBVIOUS
  <2>1. uploads[r].pc = "ok"
    BY DEF QueueInv, PublishedInv
  <2> QED
    BY <2>1, OkRests, StepIsStore DEF tree, handlers
<1>2. PICK r \in Uploads : uploads'[r].hash = k /\ r \in acked
  OBVIOUS
<1>3. uploads[r].hash = k
  BY <1>1, <1>2
<1>4. \A q \in Uploads : uploads[q].hash = k => q \in acked
  BY NoneIsNoBytes DEF UploadsGrow
<1>5. backup[k] = Whole
  BY <1>3, <1>4 DEF AckedInv
<1>6. ~Pending(k, None)'
  BY DEF Pending
<1> QED
  BY <1>5, <1>6

LEMMA CopyStep ==
  ASSUME ~SilentFaults, StoreInv, DamageInv, QueueInv, BackupTypes, CopyInv, [Next]_vars
  PROVE  CopyInv'
<1>1. /\ AckedInv /\ HandInv /\ worker \in Worker /\ acked \subseteq Messages
      /\ (worker.pc \in {"copy", "ack", "reject"} => worker.msg \in Uploads)
      /\ UploadsGrow
  BY StepIsStore, StoreInvStep DEF CopyInv, QueueInv, QueueTypes
<1>2. ASSUME worker'.pc \notin {"copy", "ack"}, backup' = backup, acked' \cap Uploads = acked \cap Uploads
      PROVE  CopyInv'
  BY <1>1, <1>2, AckedStays DEF CopyInv, HandInv
<1>3. ASSUME UNCHANGED <<worker, backup, acked>> PROVE CopyInv'
  <2>1. AckedInv'
    BY <1>1, <1>3, AckedStays
  <2>2. ASSUME worker.pc \in {"copy", "ack"}
        PROVE  Hash' = Hash /\ Hash \in Keys /\ (Pending(Hash, worker.msg) => Pending(Hash, worker.msg)')
    <3>1. Hash' = Hash /\ Hash \in Keys
      BY <1>1, <1>3, <2>2, HandRests DEF Hash
    <3>2. PICK k \in Keys : k = Hash
      BY <3>1
    <3>3. PICK m : m = worker.msg
      OBVIOUS
    <3>4. Pending(k, m) => Pending(k, m)'
      BY <1>1, <1>3, PendingStays
    <3> QED
      BY <1>3, <3>1, <3>2, <3>3, <3>4 DEF Pending
  <2>3. HandInv'
    BY <1>1, <1>3, <2>2 DEF HandInv
  <2> QED
    BY <2>1, <2>3 DEF CopyInv
<1>4. CASE StoreNext /\ UNCHANGED workerVars
  BY <1>3, <1>4 DEF workerVars
<1>5. CASE Start \/ Get \/ Reject \/ Stop
  BY <1>2, <1>5 DEF Start, Get, Reject, Stop, NextMessage
<1>6. CASE Discard
  <2>1. worker.msg \notin Uploads
    BY <1>6, JunkAssumption DEF Discard
  <2> QED
    BY <1>2, <1>6, <2>1 DEF Discard, NextMessage
<1>7. CASE CopyFault
  BY <1>1, <1>2, <1>7 DEF CopyFault, Goto, Worker
<1>8. CASE \E j \in Junk : PublishJunk(j)
  BY <1>3, <1>8 DEF PublishJunk, workerVars
<1>9. CASE UNCHANGED vars
  BY <1>3, <1>9 DEF vars, workerVars
<1>10. ASSUME worker.msg \in Uploads, acked' = acked, uploads' = uploads,
              \A k \in Keys : k # Hash => backup'[k] = backup[k]
       PROVE  AckedInv'
  <2>1. uploads[worker.msg].hash = Hash /\ worker.msg \notin acked /\ worker.msg # None
    BY <1>10, HandRests, NoneIsNoMessage DEF Hash, Messages
  <2>2. ASSUME NEW k \in Keys, k = Hash PROVE Pending(k, None)'
    BY <1>10, <2>1, <2>2 DEF Pending
  <2> HIDE DEF Hash
  <2>3. ASSUME NEW k \in Keys PROVE backup'[k] = backup[k] \/ Pending(k, None)'
    BY <1>10, <2>2
  <2> QED
    BY <1>1, <1>10, <2>3, AckedStays
<1>11. CASE OpenCopy
  <2>1. /\ worker.msg \in Uploads /\ backup' = [backup EXCEPT ![Hash] = <<>>]
        /\ worker'.msg = worker.msg /\ worker'.pc = "copy" /\ acked' = acked /\ uploads' = uploads
    BY <1>1, <1>11 DEF OpenCopy, Goto, Worker, storeVars, handlers
  <2>2. Hash' = Hash /\ Hash \in Keys
    BY <2>1, HandRests DEF Hash
  <2> HIDE DEF Hash
  <2>3. backup'[Hash] = <<>> /\ \A k \in Keys : k # Hash => backup'[k] = backup[k]
    BY <2>1, <2>2 DEF BackupTypes
  <2>4. HandInv'
    BY <2>1, <2>2, <2>3, BlocksAssumption DEF HandInv
  <2> QED
    BY <1>10, <2>1, <2>3, <2>4 DEF CopyInv
<1>12. CASE CopyBlock
  <2> DEFINE b == backup[Hash]
             n == Len(b) + 1
             c == Append(b, object[Hash][n])
  <2>1. /\ worker.msg \in Uploads /\ worker.pc = "copy" /\ backup' = [backup EXCEPT ![Hash] = c]
        /\ Len(b) < Len(object[Hash])
        /\ worker' = worker /\ acked' = acked /\ uploads' = uploads
    BY <1>1, <1>12 DEF CopyBlock, storeVars, handlers
  <2>2. Hash' = Hash /\ Hash \in Keys /\ object[Hash] \in Bytes
    BY <2>1, HandRests DEF Hash
  <2>3. b \in Bytes /\ Len(b) \in Nat
    BY <2>1, <2>2 DEF BackupTypes, Bytes
  <2>4. Len(object[Hash]) \in Nat /\ Len(object[Hash]) <= Blocks
    BY <2>2, NoneIsNoBytes DEF DamageInv, Bytes
  <2>5. n \in 1 .. Blocks
    BY <2>1, <2>3, <2>4, BlocksAssumption
  <2>6. object[Hash][n] = Good \/ Pending(Hash, worker.msg)
    BY <2>1, <2>5, MissingIsPending DEF Missing
  <2>7. Len(c) = n /\ c[n] = object[Hash][n] /\ \A j \in 1 .. Len(b) : c[j] = b[j]
    BY <2>3 DEF Bytes
  <2>8. \A j \in 1 .. Len(c) : c[j] = Good \/ Pending(Hash, worker.msg)
    <3> SUFFICES ASSUME NEW j \in 1 .. Len(c), ~Pending(Hash, worker.msg) PROVE c[j] = Good
      OBVIOUS
    <3>1. j = n \/ j \in 1 .. Len(b)
      BY <2>3, <2>7
    <3> QED
      BY <1>1, <2>1, <2>6, <2>7, <3>1 DEF HandInv
  <2>9. Pending(Hash, worker.msg) => Pending(Hash, worker.msg)'
    BY <2>1, <2>2 DEF Pending
  <2>10. Len(c) <= Blocks
    BY <2>5, <2>7
  <2> HIDE DEF Hash, c, n
  <2>11. backup'[Hash] = c /\ \A k \in Keys : k # Hash => backup'[k] = backup[k]
    BY <2>1, <2>2 DEF BackupTypes
  <2>12. HandInv'
    BY <2>1, <2>2, <2>8, <2>9, <2>10, <2>11 DEF HandInv
  <2> QED
    BY <1>10, <2>1, <2>11, <2>12 DEF CopyInv
<1>13. CASE EndCopy
  <2> DEFINE b == backup[Hash]
  <2>1. /\ worker.msg \in Uploads /\ worker.pc = "copy" /\ backup' = backup
        /\ Len(b) >= Len(object[Hash]) /\ worker'.msg = worker.msg
        /\ acked' = acked /\ uploads' = uploads
    BY <1>1, <1>13 DEF EndCopy, Goto, Worker, storeVars, handlers
  <2>2. Hash' = Hash /\ Hash \in Keys /\ object[Hash] \in Bytes
    BY <2>1, HandRests DEF Hash
  <2>3. b \in Bytes /\ Len(b) \in Nat /\ Len(b) <= Blocks /\ Len(object[Hash]) \in Nat
    BY <1>1, <2>1, <2>2 DEF BackupTypes, Bytes, HandInv
  <2>4. b = Whole \/ Pending(Hash, worker.msg)
    <3>1. CASE Len(b) < Blocks
      <4>1. Blocks \in 1 .. Blocks /\ Missing(Hash, Blocks)
        BY <2>1, <2>3, <3>1, BlocksAssumption DEF Missing
      <4> QED
        BY <2>1, <4>1, MissingIsPending
    <3>2. CASE \E j \in 1 .. Len(b) : b[j] # Good
      BY <1>1, <2>1, <3>2 DEF HandInv
    <3>3. CASE ~(Len(b) < Blocks) /\ \A j \in 1 .. Len(b) : b[j] = Good
      <4>1. Len(b) = Blocks
        BY <2>3, <3>3, BlocksAssumption
      <4> QED
        BY <2>3, <3>3, <4>1, WholeIsGood
    <3> QED
      BY <3>1, <3>2, <3>3
  <2>5. Pending(Hash, worker.msg) => Pending(Hash, worker.msg)'
    BY <2>1, <2>2 DEF Pending
  <2>6. worker'.pc # "copy"
    BY <1>1, <1>13 DEF EndCopy, Goto, Worker
  <2> HIDE DEF Hash
  <2>7. HandInv'
    BY <2>1, <2>2, <2>4, <2>5, <2>6 DEF HandInv
  <2> QED
    BY <1>10, <2>1, <2>7 DEF CopyInv
<1>14. CASE Ack
  <2> DEFINE m == worker.msg
  <2>1. /\ m \in Uploads /\ worker.pc = "ack" /\ backup' = backup /\ uploads' = uploads
        /\ acked' = acked \cup {m} /\ worker'.pc = "poll"
    BY <1>1, <1>14 DEF Ack, NextMessage, storeVars, handlers
  <2>2. backup[Hash] = Whole \/ Pending(Hash, m)
    BY <1>1, <2>1 DEF HandInv
  <2>3. ASSUME NEW k \in Keys, \E r \in Uploads : uploads[r].hash = k,
               \A r \in Uploads : uploads[r].hash = k => r \in acked \cup {m}
        PROVE  backup[k] = Whole
    <3>1. CASE k = Hash
      BY <2>2, <2>3, <3>1 DEF Pending
    <3>2. CASE k # Hash
      <4>1. \A r \in Uploads : uploads[r].hash = k => r # m
        BY <3>2 DEF Hash
      <4> QED
        BY <1>1, <2>3, <4>1 DEF AckedInv
    <3> QED
      BY <3>1, <3>2
  <2>4. AckedInv'
    BY <2>1, <2>3 DEF AckedInv
  <2> QED
    BY <2>1, <2>4 DEF CopyInv, HandInv
<1> QED
  BY <1>4, <1>5, <1>6, <1>7, <1>8, <1>9, <1>11, <1>12, <1>13, <1>14 DEF Next, WorkerStep

-----------------------------------------------------------------------------
(* BackupPipeline implements BackupPromise. *)

\* The only step of the store that tells what an upload sends.
LEMMA OnlyBegin ==
  ASSUME StoreInv, StoreNext
  PROVE  \/ \A r \in Uploads : uploads'[r].hash = uploads[r].hash
         \/ \E r \in Uploads, k \in Keys :
              /\ uploads[r].pc = "idle" /\ uploads[r].hash = None
              /\ uploads'[r].hash = k /\ ~uploads'[r].published
              /\ \A q \in Uploads : q # r => uploads'[q] = uploads[q]
<1>1. UploadsOK
  BY StoreInvParts
<1>2. ASSUME NEW r \in Uploads, NEW u \in Users, NEW n \in Names, NEW k \in Keys,
             BeginPut(r, u, n, k)
      PROVE  /\ uploads[r].pc = "idle" /\ uploads[r].hash = None
             /\ uploads'[r].hash = k /\ ~uploads'[r].published
             /\ \A q \in Uploads : q # r => uploads'[q] = uploads[q]
  BY <1>1, <1>2 DEF BeginPut, UploadsOK, UploadLocals
<1>3. ASSUME NEW q \in Uploads, UploadStep(q)
      PROVE  \A r \in Uploads : uploads'[r].hash = uploads[r].hash
  BY <1>1, <1>3 DEF UploadStep, PutBlock, PutUnflushed, InsertRow, UploadFault, Publish,
                    UploadsOK, UploadReq
<1>4. CASE Crash
  <2>1. \A r \in Uploads : uploads[r] \in UploadReq
    BY <1>1 DEF UploadsOK
  <2>2. \A r \in Uploads : uploads'[r] = uploads[r] \/ uploads'[r] = [uploads[r] EXCEPT !.pc = "lost"]
    BY <1>1, <1>4 DEF Crash, Lost, UploadsOK
  <2> QED
    BY <2>1, <2>2 DEF UploadReq
<1>5. CASE \E d \in Downloads : FileDownload(d)
  BY <1>5, DownloadKeeps
<1>6. CASE \/ \E u \in Users, n \in Names, k \in Keys : Delete(u, n, k)
           \/ \E u \in Users, n, m \in Names, k \in Keys : Rename(u, n, m, k)
  BY <1>6, RowsKeep DEF handlers
<1> QED
  BY <1>2, <1>3, <1>4, <1>5, <1>6 DEF StoreNext, FileUpload

\* What the promise sees of one upload's message.
LEMMA MessageIs ==
  ASSUME QueueInv, PlacesInv, NEW r \in Uploads
  PROVE  /\ r \in acked => MessageStates[r] = "acked"
         /\ Dead(r) => MessageStates[r] = "dead"
         /\ uploads[r].published /\ r \notin acked /\ ~Dead(r) => MessageStates[r] = "sent"
         /\ ~uploads[r].published => MessageStates[r] = "none"
         /\ MessageStates[r] = "acked" => r \in acked
<1>1. dlq \in Seq(Uploads)
  BY DEF QueueInv, QueueTypes
<1>2. Dead(r) <=> Holds(dlq, r)
  BY <1>1 DEF Dead, Holds
<1> QED
  BY <1>2 DEF MessageStates, QueueInv, PublishedInv, PlacesInv

\* The message at hand is out.
LEMMA HandIsSent ==
  ASSUME QueueInv, PlacesInv, worker.msg \in Uploads
  PROVE  MessageStates[worker.msg] = "sent" /\ worker.msg \notin acked /\ ~Dead(worker.msg)
<1>1. uploads[worker.msg].published /\ worker.msg \notin acked /\ ~Holds(dlq, worker.msg)
  BY DEF QueueInv, PublishedInv, OnceInv, PlacesInv
<1>2. ~Dead(worker.msg)
  BY <1>1 DEF Dead, Holds, QueueInv, QueueTypes
<1> QED
  BY <1>1, <1>2, MessageIs

LEMMA SameMessages ==
  ASSUME dlq' = dlq, \A r \in Uploads : r \in acked' <=> r \in acked,
         \A r \in Uploads : uploads'[r].published <=> uploads[r].published
  PROVE  MessageStates' = MessageStates
  BY DEF MessageStates, Dead

LEMMA StoreRefines ==
  ASSUME StoreInv, QueueInv, PlacesInv, StoreNext, UNCHANGED workerVars
  PROVE  [Promise!Next]_(Promise!vars)
<1>1. WholeBackups' = WholeBackups /\ dlq' = dlq /\ acked' = acked
  BY DEF WholeBackups, workerVars
<1>2. UploadsOK
  BY StoreInvParts
<1>3. \A r \in Uploads : uploads[r].published => uploads'[r] = uploads[r]
  BY OkRests DEF QueueInv, PublishedInv
<1>4. ASSUME NEW r \in Uploads, NEW k \in Keys,
             uploads[r].pc = "idle", uploads[r].hash = None,
             uploads'[r].hash = k, ~uploads'[r].published,
             \A q \in Uploads : q # r => uploads'[q] = uploads[q]
      PROVE  Promise!Begin(r, k)
  <2>1. ~uploads[r].published
    BY <1>4 DEF QueueInv, PublishedInv
  <2>2. MessageStates' = MessageStates
    BY <1>1, <1>4, <2>1, SameMessages
  <2>3. Contents[r] = None /\ Contents' = [Contents EXCEPT ![r] = k]
    BY <1>4 DEF Contents
  <2> QED
    BY <1>1, <2>2, <2>3 DEF Promise!Begin
<1>5. ASSUME \A r \in Uploads : uploads'[r].hash = uploads[r].hash
      PROVE  [Promise!Next]_(Promise!vars)
  <2>1. Contents' = Contents
    BY <1>5 DEF Contents
  <2>2. CASE \A r \in Uploads : uploads'[r].published => uploads[r].published
    <3>1. MessageStates' = MessageStates
      BY <1>1, <1>3, <2>2, SameMessages
    <3> QED
      BY <1>1, <2>1, <3>1 DEF Promise!vars
  <2>3. ASSUME NEW p \in Uploads, uploads[p].pc = "publish", uploads'[p].published,
               \A r \in Uploads : r # p => uploads'[r] = uploads[r]
        PROVE  Promise!Send(p)
    <3>1. Contents[p] # None
      BY <1>2, <2>3 DEF Contents, UploadsOK, UploadLocals
    <3>2. ~uploads[p].published
      BY <2>3 DEF QueueInv, PublishedInv
    <3>3. p \notin acked /\ ~Dead(p)
      BY <3>2 DEF QueueInv, QueueTypes, PublishedInv, PlacesInv, Dead, Holds
    <3>4. MessageStates[p] = "none" /\ MessageStates' = [MessageStates EXCEPT ![p] = "sent"]
      BY <1>1, <2>3, <3>2, <3>3 DEF MessageStates, Dead
    <3> QED
      BY <1>1, <2>1, <3>1, <3>4 DEF Promise!Send
  <2> QED
    BY <2>2, <2>3, OnlyPublish DEF Promise!Next
<1> QED
  BY <1>4, <1>5, OnlyBegin DEF Promise!Next

\* The copy touches one backup, the one that its message asks for.
LEMMA CopyRefines ==
  ASSUME StoreInv, QueueInv, BackupTypes, PlacesInv, [Next]_vars,
         OpenCopy \/ CopyBlock \/ EndCopy
  PROVE  [Promise!Next]_(Promise!vars)
<1>1. /\ worker.msg \in Uploads
      /\ UNCHANGED <<uploads, dlq, acked>>
      /\ \A k \in Keys : k # Hash => backup'[k] = backup[k]
  <2>1. worker.msg \in Uploads
    BY DEF OpenCopy, CopyBlock, EndCopy, QueueInv, QueueTypes
  <2>2. UNCHANGED <<uploads, dlq, acked>>
    BY DEF OpenCopy, CopyBlock, EndCopy, storeVars, handlers
  <2>3. \A k \in Keys : k # Hash => backup'[k] = backup[k]
    BY DEF OpenCopy, CopyBlock, EndCopy, BackupTypes
  <2> QED
    BY <2>1, <2>2, <2>3
<1>2. Contents[worker.msg] = Hash /\ Hash \in Keys
  BY <1>1, HandRests DEF Contents, Hash
<1>3. WholeBackups' \in {WholeBackups \cup {Hash}, WholeBackups \ {Hash}}
  <2>1. \A k \in Keys : k # Hash => (k \in WholeBackups' <=> k \in WholeBackups)
    BY <1>1 DEF WholeBackups, Whole
  <2>2. WholeBackups \subseteq Keys /\ WholeBackups' \subseteq Keys
    BY DEF WholeBackups
  <2>3. CASE Hash \in WholeBackups'
    <3>1. WholeBackups' = WholeBackups \cup {Hash}
      BY <1>2, <2>1, <2>2, <2>3
    <3> QED
      BY <3>1
  <2>4. CASE Hash \notin WholeBackups'
    <3>1. WholeBackups' = WholeBackups \ {Hash}
      BY <1>2, <2>1, <2>2, <2>4
    <3> QED
      BY <3>1
  <2> QED
    BY <2>3, <2>4
<1>4. Contents' = Contents /\ MessageStates' = MessageStates
  BY <1>1, SameMessages DEF Contents
<1>5. Promise!Copy(worker.msg)
  BY <1>1, <1>2, <1>3, <1>4, HandIsSent DEF Promise!Copy
<1> QED
  BY <1>1, <1>5 DEF Promise!Next

\* The last acknowledgement for a content comes after a copy that is good.
LEMMA AckRefines ==
  ASSUME StoreInv, QueueInv, PlacesInv, AckedMeansBackedUp', [Next]_vars, Ack
  PROVE  [Promise!Next]_(Promise!vars)
<1> DEFINE m == worker.msg
<1>1. /\ m \in Uploads /\ acked' = acked \cup {m}
      /\ UNCHANGED <<uploads, backup, dlq>>
  BY DEF Ack, QueueInv, QueueTypes, storeVars, handlers
<1>2. MessageStates[m] = "sent" /\ m \notin acked /\ ~Dead(m)
  BY <1>1, HandIsSent
<1>3. MessageStates' = [MessageStates EXCEPT ![m] = "acked"]
  BY <1>1 DEF MessageStates, Dead
<1>4. Contents' = Contents /\ WholeBackups' = WholeBackups
  BY <1>1 DEF Contents, WholeBackups
<1>5. Promise!IsLast(m) => SilentFaults \/ Contents[m] \in WholeBackups
  <2> SUFFICES ASSUME Promise!IsLast(m), ~SilentFaults PROVE Contents[m] \in WholeBackups
    OBVIOUS
  <2>1. Hash \in Keys /\ Contents[m] = Hash /\ uploads[m].hash = Hash
    BY <1>1, HandRests DEF Contents, Hash
  <2>2. \A q \in Uploads : uploads[q].hash = Hash => q \in acked'
    <3> SUFFICES ASSUME NEW q \in Uploads, uploads[q].hash = Hash, q # m PROVE q \in acked
      BY <1>1
    <3>1. Contents[q] = Contents[m]
      BY <2>1 DEF Contents
    <3>2. MessageStates[q] = "acked"
      BY <3>1 DEF Promise!IsLast
    <3> QED
      BY <3>2, MessageIs
  <2> DEFINE of == {r \in Uploads : uploads'[r].hash = Hash}
  <2>3. m \in of /\ of \subseteq acked'
    BY <1>1, <2>1, <2>2
  <2>4. of # {} /\ of \subseteq acked' => backup'[Hash] = Whole
    BY <2>1 DEF AckedMeansBackedUp, Whole
  <2> QED
    BY <1>1, <2>1, <2>3, <2>4 DEF WholeBackups
<1>6. Promise!Acknowledge(m)
  BY <1>2, <1>3, <1>4, <1>5 DEF Promise!Acknowledge
<1> QED
  BY <1>1, <1>6 DEF Promise!Next

LEMMA RejectRefines ==
  ASSUME QueueInv, PlacesInv, Reject
  PROVE  [Promise!Next]_(Promise!vars)
<1> DEFINE m == worker.msg
<1>1. /\ m \in Uploads /\ dlq' = Append(dlq, m) /\ dlq \in Seq(Uploads)
      /\ UNCHANGED <<uploads, backup, acked>>
  BY DEF Reject, QueueInv, QueueTypes, storeVars, handlers
<1>2. MessageStates[m] = "sent" /\ m \notin acked
  BY <1>1, HandIsSent
<1>3. \A r : Dead(r)' <=> Dead(r) \/ r = m
  BY <1>1 DEF Dead
<1>4. MessageStates' = [MessageStates EXCEPT ![m] = "dead"]
  BY <1>1, <1>2, <1>3 DEF MessageStates
<1>5. Contents' = Contents /\ WholeBackups' = WholeBackups
  BY <1>1 DEF Contents, WholeBackups
<1>6. Promise!GiveUp(m)
  BY <1>2, <1>4, <1>5 DEF Promise!GiveUp
<1> QED
  BY <1>1, <1>6 DEF Promise!Next

\* The rest of the worker's steps, and the broker's, change nothing that was promised.
LEMMA QuietRefines ==
  ASSUME Start \/ Get \/ Discard \/ CopyFault \/ Stop \/ (\E j \in Junk : PublishJunk(j))
         \/ UNCHANGED vars
  PROVE  UNCHANGED Promise!vars
<1>1. UNCHANGED <<uploads, backup, dlq>>
  BY DEF Start, Get, Discard, CopyFault, Stop, PublishJunk, vars, storeVars, workerVars, handlers
<1>2. \A r \in Uploads : r \in acked' <=> r \in acked
  BY JunkAssumption
     DEF Start, Get, Discard, CopyFault, Stop, PublishJunk, vars, workerVars
<1>3. MessageStates' = MessageStates
  BY <1>1, <1>2, SameMessages
<1>4. Contents' = Contents /\ WholeBackups' = WholeBackups
  BY <1>1 DEF Contents, WholeBackups
<1> QED
  BY <1>3, <1>4 DEF Promise!vars

-----------------------------------------------------------------------------
(* The theorems. *)

TypeInv == StoreInv /\ QueueInv /\ BackupTypes

LEMMA TypeInvHolds == Spec => []TypeInv
<1>1. Init => TypeInv
  <2> SUFFICES ASSUME Init PROVE TypeInv
    OBVIOUS
  <2>1. StoreInv
    BY StoreInvInit DEF Init
  <2>2. QueueTypes
    BY StopAssumption DEF Init, StoreInit, QueueTypes, Worker
  <2>3. PublishedInv /\ OnceInv
    BY NoneIsNoMessage DEF Init, StoreInit, PublishedInv, OnceInv, Holds, Distinct, Messages
  <2>4. BackupTypes
    BY DEF Init, BackupTypes
  <2> QED
    BY <2>1, <2>2, <2>3, <2>4 DEF TypeInv, QueueInv
<1>2. TypeInv /\ [Next]_vars => TypeInv'
  BY StepIsStore, StoreInvStep, QueueStep, BackupStep DEF TypeInv
<1> QED
  BY <1>1, <1>2, PTL DEF Spec

\* Whatever is interrupted and wherever, the tables, directories, queues and the
\* locals of the handlers and of the worker keep their types, the worker has a
\* message exactly while it is at work on one, and what it copies exists.
THEOREM PipelineTypeCorrect == Spec => []TypeOK
<1>1. TypeInv => TypeOK
  <2> SUFFICES ASSUME TypeInv PROVE TypeOK
    OBVIOUS
  <2>1. worker.pc = "copy" => object[Hash] # None
    <3> SUFFICES ASSUME worker.pc = "copy" PROVE object[Hash] # None
      OBVIOUS
    <3>1. worker.msg \in Uploads
      BY DEF TypeInv, QueueInv, QueueTypes
    <3>2. uploads[worker.msg].pc # "idle"
      BY <3>1 DEF TypeInv, QueueInv, PublishedInv
    <3> QED
      BY <3>1, <3>2, UploadAtWork, NoneIsNoBytes DEF TypeInv, Hash
  <2> QED
    BY <2>1 DEF TypeOK, TypeInv, StoreInv, QueueInv, QueueTypes, BackupTypes, Bytes
<1> QED
  BY <1>1, TypeInvHolds, PTL

LEMMA PlacesInvHolds == Spec => []PlacesInv
<1>1. Init => PlacesInv
  BY NoneIsNoMessage DEF Init, StoreInit, PlacesInv, Distinct, Holds
<1>2. TypeInv /\ PlacesInv /\ [Next]_vars => PlacesInv'
  BY PlacesStep DEF TypeInv
<1> QED
  BY <1>1, <1>2, TypeInvHolds, PTL DEF Spec

\* Neither the worker's death, nor a rejected message, nor what other programs put
\* into the queue loses or doubles a message: what was published is at one place.
THEOREM NoMessageIsLost == Spec => []MessagesAreAccountedFor
<1>1. TypeInv /\ PlacesInv => MessagesAreAccountedFor
  BY PlacesImplies DEF TypeInv
<1> QED
  BY <1>1, TypeInvHolds, PlacesInvHolds, PTL

\* However many uploads of a content rewrite its object under each other, and
\* wherever they stop: an object that is not whole has an unfinished put.
THEOREM DamageHasItsPut == Spec => []DamageIsUnfinishedPut
<1>1. CASE SilentFaults
  <2>1. DamageIsUnfinishedPut
    BY <1>1 DEF DamageIsUnfinishedPut
  <2> QED
    BY <2>1, PTL
<1>2. CASE ~SilentFaults
  <2>1. Init => DamageInv
    BY DamageInit DEF Init
  <2>2. TypeInv /\ DamageInv /\ [Next]_vars => DamageInv'
    BY <1>2, StepIsStore, DamageStep DEF TypeInv
  <2>3. TypeInv /\ DamageInv => DamageIsUnfinishedPut
    BY DamageImplies DEF TypeInv
  <2> QED
    BY <2>1, <2>2, <2>3, TypeInvHolds, PTL DEF Spec
<1> QED
  BY <1>1, <1>2

\* A download that found its row and is answered with less than the content has
\* met a second upload of that content.
THEOREM ShortAnswerHasRewrite == Spec => []ShortAnswerNeedsRewrite
<1>1. CASE SilentFaults
  <2>1. ShortAnswerNeedsRewrite
    BY <1>1 DEF ShortAnswerNeedsRewrite
  <2> QED
    BY <2>1, PTL
<1>2. CASE ~SilentFaults
  <2>1. Init => DamageInv /\ ReadInv
    BY DamageInit, ReadInit DEF Init
  <2>2. TypeInv /\ DamageInv /\ ReadInv /\ [Next]_vars => DamageInv' /\ ReadInv'
    BY <1>2, StepIsStore, DamageStep, ReadStep DEF TypeInv
  <2>3. TypeInv /\ ReadInv => ShortAnswerNeedsRewrite
    BY ReadImplies DEF TypeInv
  <2> QED
    BY <2>1, <2>2, <2>3, TypeInvHolds, PTL DEF Spec
<1> QED
  BY <1>1, <1>2

\* Once the messages of all uploads of a content are acknowledged its backup is
\* whole, though each copy may have met a rewrite and each put may have failed.
THEOREM BackupsAreWhole == Spec => []AckedMeansBackedUp
<1>1. CASE SilentFaults
  <2>1. AckedMeansBackedUp
    BY <1>1 DEF AckedMeansBackedUp
  <2> QED
    BY <2>1, PTL
<1>2. CASE ~SilentFaults
  <2>1. Init => DamageInv /\ CopyInv
    <3> SUFFICES ASSUME Init PROVE CopyInv
      BY DamageInit DEF Init
    <3>1. AckedInv
      BY DEF Init, AckedInv
    <3>2. HandInv
      BY DEF Init, HandInv
    <3> QED
      BY <3>1, <3>2 DEF CopyInv
  <2>2. TypeInv /\ DamageInv /\ CopyInv /\ [Next]_vars => DamageInv' /\ CopyInv'
    BY <1>2, StepIsStore, DamageStep, CopyStep DEF TypeInv
  <2>3. CopyInv => AckedMeansBackedUp
    <3> SUFFICES ASSUME AckedInv, NEW k \in Keys, {r \in Uploads : uploads[r].hash = k} # {},
                        {r \in Uploads : uploads[r].hash = k} \subseteq acked
                 PROVE  backup[k] = Whole
      BY DEF CopyInv, AckedMeansBackedUp
    <3> QED
      BY DEF AckedInv
  <2> QED
    BY <2>1, <2>2, <2>3, TypeInvHolds, PTL DEF Spec
<1> QED
  BY <1>1, <1>2

\* The message of an upload is sent once and settled once and for good, a backup
\* changes only while a message of its content is out, and the last message of a
\* content to be acknowledged finds the backup whole.
THEOREM PipelineKeepsPromise == Spec => KeepsPromise
<1>1. Init => Promise!Init
  <2> SUFFICES ASSUME Init PROVE Promise!Init
    OBVIOUS
  <2>1. Contents = [r \in Uploads |-> None]
    BY DEF Init, StoreInit, Contents
  <2>2. MessageStates = [r \in Uploads |-> "none"]
    BY DEF Init, StoreInit, MessageStates, Dead
  <2>3. WholeBackups = {}
    <3>1. None # Whole
      BY WholeIsBytes, NoneIsNoBytes
    <3> QED
      BY <3>1 DEF Init, WholeBackups
  <2> QED
    BY <2>1, <2>2, <2>3 DEF Promise!Init
<1>2. TypeInv /\ PlacesInv /\ AckedMeansBackedUp' /\ [Next]_vars => [Promise!Next]_(Promise!vars)
  BY StoreRefines, CopyRefines, AckRefines, RejectRefines, QuietRefines
     DEF TypeInv, Next, WorkerStep
<1> QED
  BY <1>1, <1>2, TypeInvHolds, PlacesInvHolds, BackupsAreWhole, PTL DEF Spec, KeepsPromise, Promise!Spec
=============================================================================
