------------------------- MODULE ChunkUploadProofs -------------------------
(***************************************************************************)
(* Proofs about ChunkUpload, for every number of requests, users, uploads, *)
(* chunks and restarts, and for both settings of each switch.              *)
(***************************************************************************)
EXTENDS ChunkUpload, FiniteSetTheorems, SequenceTheorems, TLAPS

-----------------------------------------------------------------------------
LEMMA AnsweredPc ==
  Answered \subseteq InitPc /\ Answered \subseteq PutPc /\ Answered \subseteq MergePc
  BY DEF InitPc, PutPc, MergePc

(* One request takes a step: the others keep theirs. *)

LEMMA InitsStep ==
  ASSUME InitsOK, NEW r \in Inits, NEW q \in InitReq, InitLocals(q),
         inits' = [inits EXCEPT ![r] = q]
  PROVE  InitsOK'
  BY DEF InitsOK

LEMMA InitPcStep ==
  ASSUME InitsOK, NEW r \in Inits, NEW p \in InitPc,
         p \in {"purge", "mkdir"} => inits[r].uid \in Users,
         p = "ok" => inits[r].id \in UploadIds, p \notin {"rm", "insert"},
         inits' = [inits EXCEPT ![r].pc = p]
  PROVE  InitsOK'
<1>1. [inits[r] EXCEPT !.pc = p] \in InitReq
  BY DEF InitsOK, InitReq
<1>2. InitLocals([inits[r] EXCEPT !.pc = p])
  BY DEF InitsOK, InitLocals, InitReq
<1> QED
  BY <1>1, <1>2, InitsStep

LEMMA PutsStep ==
  ASSUME PutsOK, NEW r \in Chunks, NEW q \in PutReq, PutLocals(q),
         puts' = [puts EXCEPT ![r] = q]
  PROVE  PutsOK'
  BY DEF PutsOK

LEMMA PutPcStep ==
  ASSUME PutsOK, NEW r \in Chunks, NEW p \in PutPc,
         p \in Answered \/ puts[r].pc \in {"open", "write", "scan", "update"},
         puts' = [puts EXCEPT ![r].pc = p]
  PROVE  PutsOK'
<1>1. [puts[r] EXCEPT !.pc = p] \in PutReq
  BY DEF PutsOK, PutReq
<1>2. PutLocals([puts[r] EXCEPT !.pc = p])
  BY DEF PutsOK, PutLocals, PutReq, Answered
<1> QED
  BY <1>1, <1>2, PutsStep

LEMMA MergesStep ==
  ASSUME MergesOK, NEW r \in Merges, NEW q \in MergeReq, MergeLocals(q),
         merges' = [merges EXCEPT ![r] = q]
  PROVE  MergesOK'
  BY DEF MergesOK

LEMMA MergePcStep ==
  ASSUME MergesOK, NEW r \in Merges, NEW p \in MergePc \ {"idle", "open", "merge", "copy"},
         p \in Answered \/ Running(merges[r]),
         merges' = [merges EXCEPT ![r].pc = p]
  PROVE  MergesOK'
<1>1. [merges[r] EXCEPT !.pc = p] \in MergeReq
  BY DEF MergesOK, MergeReq
<1>2. MergeLocals([merges[r] EXCEPT !.pc = p])
  BY DEF MergesOK, MergeLocals, MergeReq, Answered, Running
<1> QED
  BY <1>1, <1>2, MergesStep

\* What a request that is at work on an upload knows.
LEMMA MergeAtWork ==
  ASSUME MergesOK, NEW r \in Merges, Running(merges[r])
  PROVE  /\ merges[r] \in MergeReq
         /\ merges[r].id \in UploadIds /\ merges[r].uid \in Users
         /\ merges[r].total \in 1 .. MaxChunks
         /\ Key(r) \in Digest
  BY DEF MergesOK, MergeLocals, MergeReq, Key, Sha256, Digest

\* An UPDATE of one session leaves the tables well-formed.
LEMMA SessionRowStep ==
  ASSUME TablesOK, NEW id \in UploadIds, NEW row \in Row \cup {None},
         session' = [session EXCEPT ![id] = row], UNCHANGED <<now, files, queue>>
  PROVE  TablesOK'
<1>1. session' \in [UploadIds -> Row \cup {None}]
  BY DEF TablesOK
<1> QED
  BY <1>1 DEF TablesOK

\* Removing a directory leaves the file system well-formed.
LEMMA RemoveDirOK ==
  ASSUME DiskOK, NEW id \in UploadIds, RemoveDir(id), UNCHANGED <<content, object>>
  PROVE  DiskOK'
  BY DEF DiskOK, RemoveDir

-----------------------------------------------------------------------------
(* Counting and writing at an offset. *)

LEMMA CountBound ==
  ASSUME NEW S, NEW n \in Nat
  PROVE  Cardinality(S \cap (0 .. n - 1)) \in 0 .. n
<1>1. IsFiniteSet(0 .. n - 1) /\ Cardinality(0 .. n - 1) = n
  BY FS_Interval
<1>2. S \cap (0 .. n - 1) \in SUBSET (0 .. n - 1)
  OBVIOUS
<1>3. /\ IsFiniteSet(S \cap (0 .. n - 1))
      /\ Cardinality(S \cap (0 .. n - 1)) <= n
  BY <1>1, <1>2, FS_Subset
<1> QED
  BY <1>3, FS_CardinalityType

LEMMA WriteAtType ==
  ASSUME NEW S, Hole \in S, NEW s \in Seq(S), NEW p \in Nat, NEW b \in S
  PROVE  WriteAt(s, p, b) \in Seq(S)
<1> DEFINE n == IF p + 1 > Len(s) THEN p + 1 ELSE Len(s)
<1>1. Len(s) \in Nat /\ \A k \in 1 .. Len(s) : s[k] \in S
  OBVIOUS
<1>2. n \in Nat
  BY <1>1
<1>3. WriteAt(s, p, b) \in [1 .. n -> S]
  BY <1>1 DEF WriteAt
<1> QED
  BY <1>2, <1>3, SeqDef

LEMMA OverlayType ==
  ASSUME NEW S, NEW s \in Seq(S), NEW t \in Seq(S)
  PROVE  s \o SubSeq(t, Len(s) + 1, Len(t)) \in Seq(S)
<1>1. Len(s) \in Nat /\ Len(t) \in Nat
  OBVIOUS
<1>2. SubSeq(t, Len(s) + 1, Len(t)) \in Seq(S)
  <2>1. CASE Len(s) + 1 <= Len(t)
    BY <1>1, <2>1, SubSeqProperties
  <2>2. CASE Len(s) + 1 > Len(t)
    BY <1>1, <2>2, SubSeqProperties
  <2> QED
    BY <1>1, <2>1, <2>2
<1> QED
  BY <1>2, ConcatProperties

-----------------------------------------------------------------------------
(* Types: UploadInit. *)

LEMMA SelectStaleType ==
  ASSUME TypeOK, NEW r \in Inits, NEW u \in Users, SelectStale(r, u)
  PROVE  TypeOK'
<1> DEFINE stale == {id \in UploadIds : Stale(id, u)}
           pc    == IF stale = {} THEN "mkdir" ELSE "rm"
<1>1. stale \in SUBSET UploadIds /\ pc \in InitPc /\ pc \in {"mkdir", "rm"}
  BY DEF InitPc
<1>2. inits' = [inits EXCEPT ![r].uid = u, ![r].stale = stale, ![r].pc = pc]
  BY DEF SelectStale
<1> HIDE DEF stale, pc
<1> DEFINE q == [inits[r] EXCEPT !.uid = u, !.stale = stale, !.pc = pc]
<1>3. inits[r] \in InitReq /\ InitsOK
  BY DEF TypeOK, InitsOK
<1>4. q \in InitReq /\ InitLocals(q)
  BY <1>1, <1>3 DEF InitReq, InitLocals
<1>5. inits' = [inits EXCEPT ![r] = q]
  BY <1>2, <1>3 DEF InitsOK, InitReq
<1>6. InitsOK'
  BY <1>3, <1>4, <1>5, InitsStep
<1> QED
  BY <1>6 DEF SelectStale, TypeOK, TablesOK, DiskOK, PutsOK, MergesOK, tables, disk

LEMMA RemoveStaleType ==
  ASSUME TypeOK, NEW r \in Inits, NEW id \in UploadIds, RemoveStale(r, id)
  PROVE  TypeOK'
<1> DEFINE pc == IF inits[r].stale = {id} THEN "purge" ELSE "rm"
           q  == [inits[r] EXCEPT !.stale = inits[r].stale \ {id}, !.pc = pc]
<1>1. pc \in InitPc /\ pc \in {"purge", "rm"}
  BY DEF InitPc
<1>2. inits[r] \in InitReq /\ inits[r].pc = "rm" /\ InitLocals(inits[r]) /\ InitsOK
  BY DEF RemoveStale, TypeOK, InitsOK
<1>3. inits' = [inits EXCEPT ![r] = q]
  BY <1>2 DEF RemoveStale, InitsOK, InitReq
<1> HIDE DEF pc
<1>4. q \in InitReq /\ InitLocals(q)
  BY <1>1, <1>2 DEF InitReq, InitLocals
<1>5. InitsOK'
  BY <1>2, <1>3, <1>4, InitsStep
<1>6. DiskOK'
  BY RemoveDirOK DEF RemoveStale, TypeOK, DiskOK
<1> QED
  BY <1>5, <1>6 DEF RemoveStale, TypeOK, TablesOK, PutsOK, MergesOK, tables

LEMMA DeleteStaleType ==
  ASSUME TypeOK, NEW r \in Inits, DeleteStale(r)
  PROVE  TypeOK'
<1>1. InitsOK'
  <2>1. InitsOK /\ inits[r].uid \in Users
    BY DEF DeleteStale, TypeOK, InitsOK, InitLocals
  <2>2. inits' = [inits EXCEPT ![r].pc = "mkdir"] /\ "mkdir" \in InitPc
    BY DEF DeleteStale, InitPc
  <2> QED
    BY <2>1, <2>2, InitPcStep
<1>2. session' \in [UploadIds -> Row \cup {None}]
  BY DEF DeleteStale, TypeOK, TablesOK
<1> QED
  BY <1>1, <1>2 DEF DeleteStale, TypeOK, TablesOK, DiskOK, PutsOK, MergesOK, disk

LEMMA MakeDirType ==
  ASSUME TypeOK, NEW r \in Inits, NEW id \in UploadIds, MakeDir(r, id)
  PROVE  TypeOK'
<1> DEFINE q == [inits[r] EXCEPT !.pc = "insert", !.id = id]
<1>1. inits[r] \in InitReq /\ InitLocals(inits[r]) /\ InitsOK /\ inits[r].pc = "mkdir"
  BY DEF MakeDir, TypeOK, InitsOK
<1>2. q \in InitReq /\ InitLocals(q)
  BY <1>1 DEF InitReq, InitPc, InitLocals
<1>3. inits' = [inits EXCEPT ![r] = q]
  BY <1>1 DEF MakeDir, InitsOK, InitReq
<1>4. InitsOK'
  BY <1>1, <1>2, <1>3, InitsStep
<1> QED
  BY <1>4 DEF MakeDir, TypeOK, TablesOK, DiskOK, PutsOK, MergesOK, tables

LEMMA InsertSessionType ==
  ASSUME TypeOK, NEW r \in Inits, NEW n \in 1 .. MaxChunks, InsertSession(r, n)
  PROVE  TypeOK'
<1> DEFINE row == [uid |-> inits[r].uid, total |-> n, received |-> 0,
                   status |-> 0, created |-> now]
<1>1. inits[r].uid \in Users /\ inits[r].id \in UploadIds
  BY DEF InsertSession, TypeOK, InitsOK, InitLocals
<1>2. row \in Row
  BY <1>1, ChunksAssumption DEF Row, TypeOK, TablesOK
<1>3. session' = [session EXCEPT ![inits[r].id] = row]
  BY DEF InsertSession
<1> HIDE DEF row
<1>4. TablesOK'
  BY <1>2, <1>3 DEF InsertSession, TypeOK, TablesOK
<1>5. InitsOK'
  BY <1>1, InitPcStep, AnsweredPc DEF InsertSession, TypeOK, Answered
<1> QED
  BY <1>4, <1>5 DEF InsertSession, TypeOK, DiskOK, PutsOK, MergesOK, disk

LEMMA InitFaultType ==
  ASSUME TypeOK, NEW r \in Inits, InitFault(r)
  PROVE  TypeOK'
<1>1. InitsOK'
  BY InitPcStep, AnsweredPc DEF InitFault, TypeOK, Answered
<1> QED
  BY <1>1 DEF InitFault, TypeOK, TablesOK, DiskOK, PutsOK, MergesOK, tables, disk

LEMMA CleanupFaultType ==
  ASSUME TypeOK, NEW r \in Inits, NEW u \in Users, CleanupFault(r, u)
  PROVE  TypeOK'
<1> DEFINE q == [inits[r] EXCEPT !.uid = u, !.pc = "mkdir"]
<1>1. inits[r] \in InitReq /\ InitsOK
  BY DEF TypeOK, InitsOK
<1>2. q \in InitReq /\ InitLocals(q)
  BY <1>1 DEF InitReq, InitPc, InitLocals
<1>3. inits' = [inits EXCEPT ![r] = q]
  BY <1>1 DEF CleanupFault, InitsOK, InitReq
<1>4. InitsOK'
  BY <1>1, <1>2, <1>3, InitsStep
<1> QED
  BY <1>4 DEF CleanupFault, TypeOK, TablesOK, DiskOK, PutsOK, MergesOK, tables, disk

-----------------------------------------------------------------------------
(* Types: UploadChunk. *)

LEMMA SelectForChunkType ==
  ASSUME TypeOK, NEW r \in Chunks, NEW u \in Users, NEW id \in UploadIds,
         NEW i \in Indices, NEW v \in Versions, SelectForChunk(r, u, id, i, v)
  PROVE  TypeOK'
<1> DEFINE q == [pc |-> "open", id |-> id, idx |-> i, data |-> v,
                 total |-> session[id].total, count |-> 0]
<1>1. session[id].total \in 1 .. MaxChunks /\ i < session[id].total
  BY DEF SelectForChunk, Active, TypeOK, TablesOK, Row
<1>2. q \in PutReq /\ PutLocals(q)
  BY <1>1, ChunksAssumption DEF PutReq, PutPc, PutLocals
<1>3. PutsOK'
  BY <1>2, PutsStep DEF SelectForChunk, TypeOK
<1> QED
  BY <1>3 DEF SelectForChunk, TypeOK, TablesOK, DiskOK, InitsOK, MergesOK, tables, disk

LEMMA OpenChunkType ==
  ASSUME TypeOK, NEW r \in Chunks, OpenChunk(r)
  PROVE  TypeOK'
<1>1. puts[r].id \in UploadIds /\ puts[r].idx \in Indices
  BY DEF OpenChunk, TypeOK, PutsOK, PutLocals
<1>2. PutsOK'
  BY PutPcStep DEF OpenChunk, TypeOK, PutPc, Answered
<1>3. chunk' \in [UploadIds -> [Indices -> Piece \cup {None, Torn}]]
  <2> DEFINE id   == puts[r].id
             torn == [chunk[id] EXCEPT ![puts[r].idx] = Torn]
  <2>1. chunk \in [UploadIds -> [Indices -> Piece \cup {None, Torn}]]
    BY DEF TypeOK, DiskOK
  <2>2. torn \in [Indices -> Piece \cup {None, Torn}]
    BY <1>1, <2>1
  <2>3. chunk' = chunk \/ chunk' = [chunk EXCEPT ![id] = torn]
    BY <1>1, <2>1 DEF OpenChunk
  <2> HIDE DEF torn
  <2> QED
    BY <1>1, <2>1, <2>2, <2>3
<1>4. DiskOK'
  BY <1>3 DEF OpenChunk, TypeOK, DiskOK
<1> QED
  BY <1>2, <1>4 DEF OpenChunk, TypeOK, TablesOK, InitsOK, MergesOK, tables

LEMMA WriteChunkType ==
  ASSUME TypeOK, NEW r \in Chunks, WriteChunk(r)
  PROVE  TypeOK'
<1>1. /\ puts[r].id \in UploadIds
      /\ puts[r].idx \in Indices
      /\ <<puts[r].idx, puts[r].data>> \in Piece
  BY DEF WriteChunk, TypeOK, PutsOK, PutLocals, Piece
<1>2. PutsOK'
  BY PutPcStep DEF WriteChunk, TypeOK, PutPc
<1>3. CASE UNCHANGED chunk
  BY <1>2, <1>3 DEF WriteChunk, TypeOK, TablesOK, DiskOK, InitsOK, MergesOK, tables
<1>4. CASE chunk' = [chunk EXCEPT ![puts[r].id][puts[r].idx] = <<puts[r].idx, puts[r].data>>]
  <2> DEFINE piece == <<puts[r].idx, puts[r].data>>
  <2>1. piece \in Piece \cup {None, Torn} /\ chunk' = [chunk EXCEPT ![puts[r].id][puts[r].idx] = piece]
    BY <1>1, <1>4
  <2> HIDE DEF piece
  <2>2. DiskOK'
    BY <1>1, <2>1 DEF WriteChunk, TypeOK, DiskOK
  <2> QED
    BY <1>2, <2>2 DEF WriteChunk, TypeOK, TablesOK, InitsOK, MergesOK, tables
<1> QED
  BY <1>3, <1>4 DEF WriteChunk

LEMMA ScanChunksType ==
  ASSUME TypeOK, NEW r \in Chunks, ScanChunks(r)
  PROVE  TypeOK'
<1> DEFINE n == Cardinality(Present(puts[r].id) \cap (0 .. puts[r].total - 1))
           q == [puts[r] EXCEPT !.count = n, !.pc = "update"]
<1>1. puts[r] \in PutReq /\ PutLocals(puts[r]) /\ PutsOK /\ puts[r].pc = "scan"
  BY DEF ScanChunks, TypeOK, PutsOK
<1>2. n \in 0 .. MaxChunks
  <2>1. puts[r].total \in Nat /\ puts[r].total <= MaxChunks
    BY <1>1, ChunksAssumption DEF PutReq
  <2>2. n \in 0 .. puts[r].total
    BY <2>1, CountBound
  <2> QED
    BY <2>1, <2>2, ChunksAssumption
<1>3. puts' = [puts EXCEPT ![r] = q]
  BY <1>1 DEF ScanChunks, PutsOK, PutReq
<1> HIDE DEF n
<1>4. q \in PutReq /\ PutLocals(q)
  BY <1>1, <1>2 DEF PutReq, PutPc, PutLocals
<1>5. PutsOK'
  BY <1>1, <1>3, <1>4, PutsStep
<1> QED
  BY <1>5 DEF ScanChunks, TypeOK, TablesOK, DiskOK, InitsOK, MergesOK, tables, disk

LEMMA UpdateReceivedType ==
  ASSUME TypeOK, NEW r \in Chunks, UpdateReceived(r)
  PROVE  TypeOK'
<1> DEFINE id  == puts[r].id
           row == IF session[id] = None THEN None
                  ELSE [session[id] EXCEPT !.received = puts[r].count]
<1>1. id \in UploadIds /\ puts[r].count \in 0 .. MaxChunks
  BY DEF UpdateReceived, TypeOK, PutsOK, PutLocals, PutReq
<1>2. row \in Row \cup {None}
  BY <1>1 DEF TypeOK, TablesOK, Row
<1>3. session' = [session EXCEPT ![id] = row]
  BY <1>1 DEF UpdateReceived, TypeOK, TablesOK
<1> HIDE DEF row
<1>4. TablesOK'
  BY <1>1, <1>2, <1>3, SessionRowStep DEF UpdateReceived, TypeOK
<1>5. PutsOK'
  BY PutPcStep DEF UpdateReceived, TypeOK, PutPc, Answered
<1> QED
  BY <1>4, <1>5 DEF UpdateReceived, TypeOK, DiskOK, InitsOK, MergesOK, disk

LEMMA ChunkFaultType ==
  ASSUME TypeOK, NEW r \in Chunks, ChunkFault(r)
  PROVE  TypeOK'
<1>1. PutsOK'
  BY PutPcStep DEF ChunkFault, TypeOK, PutPc, Answered
<1> QED
  BY <1>1 DEF ChunkFault, TypeOK, TablesOK, DiskOK, InitsOK, MergesOK, tables, disk

-----------------------------------------------------------------------------
(* Types: UploadComplete. *)

LEMMA SelectForMergeType ==
  ASSUME TypeOK, NEW r \in Merges, NEW u \in Users, NEW id \in UploadIds,
         SelectForMerge(r, u, id)
  PROVE  TypeOK'
<1> DEFINE n == session[id].total
           q == [merges[r] EXCEPT !.pc = "open", !.uid = u, !.id = id, !.total = n]
<1>1. /\ merges[r] \in MergeReq /\ MergesOK /\ merges[r].next = 0
      /\ n \in 0 .. MaxChunks /\ n > 0
  BY ChunksAssumption DEF SelectForMerge, Active, TypeOK, TablesOK, MergesOK, MergeLocals, Row
<1>2. merges' = [merges EXCEPT ![r] = q]
  BY <1>1 DEF SelectForMerge, MergesOK, MergeReq
<1> HIDE DEF n
<1>3. q \in MergeReq
  BY <1>1 DEF MergeReq, MergePc
<1>4. MergeLocals(q)
  BY <1>1 DEF MergeReq, MergeLocals
<1>5. MergesOK'
  BY <1>1, <1>2, <1>3, <1>4, MergesStep
<1> QED
  BY <1>5 DEF SelectForMerge, TypeOK, TablesOK, DiskOK, InitsOK, PutsOK, tables, disk

LEMMA OpenMergedType ==
  ASSUME TypeOK, NEW r \in Merges, OpenMerged(r)
  PROVE  TypeOK'
<1> DEFINE id == merges[r].id
           f  == IF merged[id] = None THEN <<r, "merged">> ELSE merged[id]
<1>1. Running(merges[r]) /\ merges[r].next = 0 /\ MergesOK
  BY DEF OpenMerged, TypeOK, MergesOK, MergeLocals, Running, Answered
<1>2. id \in UploadIds /\ f \in Inode
  BY <1>1, MergeAtWork DEF TypeOK, DiskOK, Inode
<1>3. CASE id \in dir
  <2>1. /\ merged' = [merged EXCEPT ![id] = f]
        /\ content' = [content EXCEPT ![f] = <<>>]
        /\ merges' = [merges EXCEPT ![r].pc = "merge", ![r].out = f]
    BY <1>3 DEF OpenMerged
  <2> HIDE DEF f
  <2> DEFINE q == [merges[r] EXCEPT !.pc = "merge", !.out = f]
  <2>7. merges[r] \in MergeReq
    BY <1>1, MergeAtWork
  <2>2. q \in MergeReq
    BY <2>7, <1>2 DEF MergeReq, MergePc
  <2>3. MergeLocals(q)
    BY <1>1, <1>2, MergeAtWork DEF MergeLocals, MergeReq
  <2>4. merges' = [merges EXCEPT ![r] = q]
    BY <2>1, <1>1 DEF MergesOK, MergeReq
  <2>5. MergesOK'
    BY <1>1, <2>2, <2>3, <2>4, MergesStep
  <2>6. DiskOK'
    BY <2>1, <1>2 DEF TypeOK, DiskOK, OpenMerged
  <2> QED
    BY <2>5, <2>6 DEF OpenMerged, TypeOK, TablesOK, InitsOK, PutsOK, tables
<1>4. CASE id \notin dir
  <2>1. MergesOK'
    BY <1>1, <1>4, MergePcStep DEF OpenMerged, MergePc, Answered
  <2> QED
    BY <2>1, <1>4 DEF OpenMerged, TypeOK, DiskOK, TablesOK, InitsOK, PutsOK, tables
<1> QED
  BY <1>3, <1>4
LEMMA MergeChunkType ==
  ASSUME TypeOK, NEW r \in Merges, MergeChunk(r)
  PROVE  TypeOK'
<1> DEFINE m     == merges[r]
           piece == chunk[m.id][m.next]
           pc    == IF m.next + 1 = m.total THEN "move" ELSE "merge"
<1>1. /\ m \in MergeReq /\ MergesOK /\ m.pc = "merge" /\ m.id \in UploadIds /\ m.uid \in Users
      /\ m.next \in Nat /\ m.total \in Nat /\ m.total <= MaxChunks
      /\ m.next < m.total /\ m.out \in Inode
  <2>1. m \in MergeReq /\ MergesOK /\ m.pc = "merge" /\ Running(m) /\ MergeLocals(m)
    BY DEF MergeChunk, NextPiece, TypeOK, MergesOK, Running, Answered
  <2>2. m.next \in 0 .. MaxChunks /\ m.total \in 0 .. MaxChunks
    BY <2>1 DEF MergeReq
  <2> QED
    BY <2>1, <2>2, ChunksAssumption DEF MergeLocals
<1>2. piece \in Piece \cup {None, Torn}
  BY <1>1, ChunksAssumption DEF TypeOK, DiskOK, Indices
<1>3. /\ m.next + 1 \in 0 .. MaxChunks /\ pc \in MergePc /\ pc \in {"move", "merge"}
      /\ pc = "merge" => m.next + 1 < m.total
  BY <1>1, ChunksAssumption DEF MergePc
<1>4. CASE piece = None
  <2>1. merges' = [merges EXCEPT ![r].pc = "failed"] /\ UNCHANGED content
    BY <1>4, NullAssumption DEF MergeChunk, NextPiece
  <2>2. "failed" \in Answered /\ "failed" \in MergePc \ {"idle", "open", "merge", "copy"}
    BY AnsweredPc DEF Answered
  <2>3. MergesOK'
    BY <1>1, <2>1, <2>2, MergePcStep
  <2> QED
    BY <2>1, <2>3 DEF MergeChunk, NextPiece, TypeOK, TablesOK, DiskOK, InitsOK, PutsOK, tables
<1>5. CASE piece = Torn
  <2> DEFINE q == [m EXCEPT !.next = m.next + 1, !.pc = pc]
  <2>1. merges' = [merges EXCEPT ![r] = q] /\ UNCHANGED content
    BY <1>1, <1>5, NullAssumption DEF MergeChunk, NextPiece, MergesOK, MergeReq
  <2> HIDE DEF pc
  <2>2. q \in MergeReq
    BY <1>1, <1>3 DEF MergeReq
  <2>3. MergeLocals(q)
    BY <1>1, <1>3 DEF MergeReq, MergeLocals
  <2>4. MergesOK'
    BY <1>1, <2>1, <2>2, <2>3, MergesStep
  <2> QED
    BY <2>1, <2>4 DEF MergeChunk, NextPiece, TypeOK, TablesOK, DiskOK, InitsOK, PutsOK, tables
<1>6. CASE piece \in Piece
  <2> DEFINE read  == Append(m.read, piece)
             bytes == WriteAt(content[m.out], Len(m.read), piece)
             q     == [m EXCEPT !.next = m.next + 1, !.read = read, !.pc = pc]
  <2>1. /\ merges' = [merges EXCEPT ![r] = q]
        /\ content' = [content EXCEPT ![m.out] = bytes]
    <3>1. piece # None /\ piece # Torn
      BY <1>6, NullAssumption
    <3> QED
      BY <1>1, <3>1 DEF MergeChunk, NextPiece, MergesOK, MergeReq
  <2>2. read \in Seq(Piece) /\ Len(m.read) \in Nat
    BY <1>1, <1>6, AppendProperties DEF MergeReq
  <2>3. bytes \in Seq(Piece \cup {Hole})
    BY <1>1, <1>6, <2>2, WriteAtType DEF TypeOK, DiskOK
  <2> HIDE DEF pc, read, bytes, piece
  <2>4. q \in MergeReq
    BY <1>1, <1>3, <2>2 DEF MergeReq
  <2>5. MergeLocals(q)
    BY <1>1, <1>3 DEF MergeReq, MergeLocals
  <2>6. MergesOK'
    BY <1>1, <2>1, <2>4, <2>5, MergesStep
  <2>7. DiskOK'
    BY <1>1, <2>1, <2>3 DEF MergeChunk, NextPiece, TypeOK, DiskOK
  <2> QED
    BY <2>6, <2>7 DEF MergeChunk, NextPiece, TypeOK, TablesOK, InitsOK, PutsOK, tables
<1> QED
  BY <1>2, <1>4, <1>5, <1>6

LEMMA BindType ==
  ASSUME DiskOK, NEW key \in Digest, NEW f \in Inode
  PROVE  Bind(key, f) \subseteq [key : Digest, inode : Inode]
  BY DEF Bind, DiskOK

LEMMA MoveMergedType ==
  ASSUME TypeOK, NEW r \in Merges, MoveMerged(r)
  PROVE  TypeOK'
<1>1. Running(merges[r]) /\ MergesOK
  BY DEF MoveMerged, TypeOK, Running, Answered
<1>2. MergesOK'
  BY <1>1, MergePcStep DEF MoveMerged, MergePc
<1>3. merged[merges[r].id] \in Inode /\ merges[r].id \in UploadIds /\ Key(r) \in Digest
  BY <1>1, MergeAtWork DEF MoveMerged, TypeOK, DiskOK
<1>4. DiskOK'
  BY <1>3, BindType DEF MoveMerged, TypeOK, DiskOK
<1> QED
  BY <1>2, <1>4 DEF MoveMerged, TypeOK, TablesOK, InitsOK, PutsOK, tables

LEMMA OpenObjectType ==
  ASSUME TypeOK, NEW r \in Merges, OpenObject(r)
  PROVE  TypeOK'
<1> DEFINE bound == {o \in object : o.key = Key(r)}
           f     == IF bound = {} THEN <<r, "object">> ELSE (CHOOSE o \in bound : TRUE).inode
           out   == merged[merges[r].id]
           q     == [merges[r] EXCEPT !.pc = "copy", !.out = out, !.dst = f]
<1>1. Running(merges[r]) /\ MergesOK /\ merges[r] \in MergeReq
  BY DEF OpenObject, TypeOK, MergesOK, Running, Answered
<1>2. /\ merges[r].id \in UploadIds /\ merges[r].uid \in Users /\ Key(r) \in Digest
      /\ merges[r].total > 0
  BY <1>1, MergeAtWork DEF MergesOK, MergeLocals
<1>3. out \in Inode
  BY <1>2 DEF OpenObject, TypeOK, DiskOK
<1>4. f \in Inode
  BY DEF TypeOK, DiskOK, Inode
<1>5. /\ merges' = [merges EXCEPT ![r] = q]
      /\ content' = [content EXCEPT ![f] = <<>>]
      /\ object' = Bind(Key(r), f)
  BY <1>1 DEF OpenObject, MergesOK, MergeReq
<1> HIDE DEF f, out
<1>6. q \in MergeReq
  BY <1>1, <1>3, <1>4 DEF MergeReq, MergePc
<1>7. MergeLocals(q)
  BY <1>1, <1>2, <1>3, <1>4 DEF MergeReq, MergeLocals
<1>8. MergesOK'
  BY <1>1, <1>5, <1>6, <1>7, MergesStep
<1>9. DiskOK'
  <2>1. object' \subseteq [key : Digest, inode : Inode]
    BY <1>2, <1>4, <1>5, BindType DEF TypeOK
  <2>2. content' \in [Inode -> Seq(Piece \cup {Hole})]
    BY <1>4, <1>5 DEF TypeOK, DiskOK
  <2> QED
    BY <2>1, <2>2 DEF OpenObject, TypeOK, DiskOK
<1> QED
  BY <1>8, <1>9 DEF OpenObject, TypeOK, TablesOK, InitsOK, PutsOK, tables

LEMMA CopiedType ==
  ASSUME TypeOK, NEW r \in Merges, merges[r].pc = "copy",
         NEW k \in 0 .. Len(content[merges[r].out])
  PROVE  Copied(r, k) \in Seq(Piece \cup {Hole})
<1> DEFINE src  == content[merges[r].out]
           dst  == content[merges[r].dst]
           head == SubSeq(src, 1, k)
<1>1. merges[r].out \in Inode /\ merges[r].dst \in Inode
  BY DEF TypeOK, MergesOK, MergeLocals
<1>2. src \in Seq(Piece \cup {Hole}) /\ dst \in Seq(Piece \cup {Hole})
  BY <1>1 DEF TypeOK, DiskOK
<1> HIDE DEF src, dst
<1>3. k \in 0 .. Len(src) /\ Len(src) \in Nat
  BY <1>2, LenProperties DEF src
<1>4. head \in Seq(Piece \cup {Hole}) /\ Len(head) = k
  BY <1>2, <1>3
<1>5. head \o SubSeq(dst, Len(head) + 1, Len(dst)) \in Seq(Piece \cup {Hole})
  BY <1>2, <1>4, OverlayType
<1> QED
  BY <1>4, <1>5 DEF Copied, src, dst

LEMMA CopyObjectType ==
  ASSUME TypeOK, NEW r \in Merges, CopyObject(r) \/ CopyFault(r)
  PROVE  TypeOK'
<1>1. /\ merges[r].pc = "copy" /\ Running(merges[r]) /\ MergesOK /\ merges[r].id \in UploadIds
      /\ merges[r].dst \in Inode
  BY DEF CopyObject, CopyFault, TypeOK, MergesOK, MergeLocals, Running, Answered
<1>2. PICK k \in 0 .. Len(content[merges[r].out]) :
        content' = [content EXCEPT ![merges[r].dst] = Copied(r, k)]
  BY DEF CopyObject, CopyFault
<1>3. content' \in [Inode -> Seq(Piece \cup {Hole})]
  BY <1>1, <1>2, CopiedType DEF TypeOK, DiskOK
<1>4. PICK pc \in {"failed", "register"} : merges' = [merges EXCEPT ![r].pc = pc]
  BY DEF CopyObject, CopyFault
<1>5. MergesOK'
  BY <1>1, <1>4, MergePcStep DEF MergePc, Answered
<1>6. DiskOK'
  BY <1>1, <1>3 DEF CopyObject, CopyFault, TypeOK, DiskOK
<1> QED
  BY <1>5, <1>6 DEF CopyObject, CopyFault, TypeOK, TablesOK, InitsOK, PutsOK, tables

\* The steps that change one table or remove paths, and otherwise move on.
LEMMA MergeTailType ==
  ASSUME TypeOK, NEW r \in Merges,
         \/ MergedGone(r) \/ RegisterFile(r) \/ PublishFile(r)
         \/ RemoveTmp(r) \/ MergeFault(r)
  PROVE  TypeOK'
<1>1. Running(merges[r]) /\ MergesOK
  BY DEF MergedGone, RegisterFile, PublishFile, RemoveTmp, MergeFault,
         TypeOK, Running, Answered
<1>2. MergesOK'
  BY <1>1, MergePcStep
     DEF MergedGone, RegisterFile, PublishFile, RemoveTmp, MergeFault,
         MergePc, Answered
<1>3. merges[r].id \in UploadIds /\ merges[r].uid \in Users /\ Key(r) \in Digest
  BY <1>1, MergeAtWork
<1>4. CASE MergedGone(r) \/ MergeFault(r)
  BY <1>2, <1>4 DEF MergedGone, MergeFault, TypeOK, TablesOK, DiskOK, InitsOK, PutsOK,
                    tables, disk
<1>5. CASE RegisterFile(r)
  BY <1>2, <1>3, <1>5 DEF RegisterFile, TypeOK, TablesOK, DiskOK, InitsOK, PutsOK, FileRow, disk
<1>6. CASE PublishFile(r)
  BY <1>2, <1>3, <1>6 DEF PublishFile, TypeOK, TablesOK, DiskOK, InitsOK, PutsOK, Message, disk
<1>7. CASE RemoveTmp(r)
  <2>1. DiskOK'
    BY <1>3, <1>7, RemoveDirOK DEF RemoveTmp, TypeOK, DiskOK
  <2> QED
    BY <1>2, <1>7, <2>1 DEF RemoveTmp, TypeOK, TablesOK, InitsOK, PutsOK, tables
<1> QED
  BY <1>4, <1>5, <1>6, <1>7

LEMMA MarkDoneType ==
  ASSUME TypeOK, NEW r \in Merges, MarkDone(r)
  PROVE  TypeOK'
<1> DEFINE id  == merges[r].id
           row == IF session[id] = None THEN None ELSE [session[id] EXCEPT !.status = 1]
<1>1. Running(merges[r]) /\ MergesOK
  BY DEF MarkDone, TypeOK, Running, Answered
<1>2. MergesOK'
  BY <1>1, MergePcStep DEF MarkDone, MergePc
<1>3. id \in UploadIds
  BY <1>1, MergeAtWork
<1>4. row \in Row \cup {None}
  BY <1>3 DEF TypeOK, TablesOK, Row
<1>5. session' = [session EXCEPT ![id] = row]
  BY <1>3 DEF MarkDone, TypeOK, TablesOK
<1> HIDE DEF row
<1>6. TablesOK'
  BY <1>3, <1>4, <1>5, SessionRowStep DEF MarkDone, TypeOK
<1> QED
  BY <1>2, <1>6 DEF MarkDone, TypeOK, DiskOK, InitsOK, PutsOK, disk

-----------------------------------------------------------------------------
LEMMA TickType ==
  ASSUME TypeOK, Tick
  PROVE  TypeOK'
<1>1. now' \in 0 .. MaxNow
  BY ClockAssumption DEF Tick, TypeOK, TablesOK
<1> QED
  BY <1>1 DEF Tick, TypeOK, TablesOK, DiskOK, InitsOK, PutsOK, MergesOK, disk

LEMMA CrashType ==
  ASSUME TypeOK, Crash
  PROVE  TypeOK'
<1>1. "lost" \in Answered /\ "lost" \in InitPc /\ "lost" \in PutPc /\ "lost" \in MergePc
  BY AnsweredPc DEF Answered
<1>2. InitsOK'
  <2>1. inits' = [r \in Inits |-> IF Running(inits[r]) THEN [inits[r] EXCEPT !.pc = "lost"]
                                  ELSE inits[r]]
    BY DEF Crash, Lost, TypeOK, InitsOK
  <2>2. ASSUME NEW r \in Inits PROVE inits'[r] \in InitReq /\ InitLocals(inits'[r])
    <3>1. CASE Running(inits[r])
      BY <1>1, <2>1, <3>1 DEF TypeOK, InitsOK, InitReq, InitLocals
    <3>2. CASE ~Running(inits[r])
      BY <2>1, <3>2 DEF TypeOK, InitsOK
    <3> QED
      BY <3>1, <3>2
  <2> QED
    BY <2>1, <2>2 DEF InitsOK
<1>3. PutsOK'
  <2>1. puts' = [r \in Chunks |-> IF Running(puts[r]) THEN [puts[r] EXCEPT !.pc = "lost"]
                                  ELSE puts[r]]
    BY DEF Crash, Lost, TypeOK, PutsOK
  <2>2. ASSUME NEW r \in Chunks PROVE puts'[r] \in PutReq /\ PutLocals(puts'[r])
    <3>1. CASE Running(puts[r])
      BY <1>1, <2>1, <3>1 DEF TypeOK, PutsOK, PutReq, PutLocals
    <3>2. CASE ~Running(puts[r])
      BY <2>1, <3>2 DEF TypeOK, PutsOK
    <3> QED
      BY <3>1, <3>2
  <2> QED
    BY <2>1, <2>2 DEF PutsOK
<1>4. MergesOK'
  <2>1. merges' = [r \in Merges |-> IF Running(merges[r]) THEN [merges[r] EXCEPT !.pc = "lost"]
                                    ELSE merges[r]]
    BY DEF Crash, Lost, TypeOK, MergesOK
  <2>2. ASSUME NEW r \in Merges PROVE merges'[r] \in MergeReq /\ MergeLocals(merges'[r])
    <3>1. CASE Running(merges[r])
      <4>1. merges'[r] = [merges[r] EXCEPT !.pc = "lost"] /\ merges[r] \in MergeReq
        BY <2>1, <3>1 DEF TypeOK, MergesOK
      <4>2. merges'[r] \in MergeReq /\ merges'[r].pc = "lost"
        BY <4>1, <1>1 DEF MergeReq
      <4> QED
        BY <4>2 DEF MergeLocals, Running, Answered
    <3>2. CASE ~Running(merges[r])
      BY <2>1, <3>2 DEF TypeOK, MergesOK
    <3> QED
      BY <3>1, <3>2
  <2> QED
    BY <2>1, <2>2 DEF MergesOK
<1>5. crashes' \in 0 .. MaxCrashes
  BY ClockAssumption DEF Crash, TypeOK
<1> QED
  BY <1>2, <1>3, <1>4, <1>5 DEF Crash, TypeOK, TablesOK, DiskOK, tables, disk

-----------------------------------------------------------------------------
\* The tables, the directory tree and the locals of every handler keep their
\* types, and no handler reaches a statement before the locals it reads are set.
THEOREM TypeCorrect == Spec => []TypeOK
<1>1. Init => TypeOK
  <2> SUFFICES ASSUME Init PROVE TypeOK
    OBVIOUS
  <2>1. TablesOK /\ DiskOK
    BY ClockAssumption DEF Init, TablesOK, DiskOK
  <2>2. InitsOK
    BY DEF Init, InitsOK, InitReq, InitPc, InitLocals
  <2>3. PutsOK
    BY ChunksAssumption DEF Init, PutsOK, PutReq, PutPc, PutLocals
  <2>4. MergesOK
    <3> DEFINE q == [pc |-> "idle", uid |-> None, id |-> None, total |-> 0,
                     next |-> 0, read |-> <<>>, out |-> None, dst |-> None]
    <3>1. q \in MergeReq
      BY ChunksAssumption DEF MergeReq, MergePc
    <3>2. MergeLocals(q)
      BY DEF MergeLocals, Running
    <3> QED
      BY <3>1, <3>2 DEF Init, MergesOK
  <2> QED
    BY <2>1, <2>2, <2>3, <2>4, ClockAssumption DEF Init, TypeOK
<1>2. TypeOK /\ [Next]_vars => TypeOK'
  <2> SUFFICES ASSUME TypeOK, [Next]_vars PROVE TypeOK'
    OBVIOUS
  <2>1. ASSUME NEW r \in Inits, UploadInit(r) PROVE TypeOK'
    BY <2>1, SelectStaleType, RemoveStaleType, DeleteStaleType, MakeDirType,
       InsertSessionType, InitFaultType, CleanupFaultType DEF UploadInit
  <2>2. ASSUME NEW r \in Chunks, UploadChunk(r) PROVE TypeOK'
    BY <2>2, SelectForChunkType, OpenChunkType, WriteChunkType, ScanChunksType,
       UpdateReceivedType, ChunkFaultType DEF UploadChunk
  <2>3. ASSUME NEW r \in Merges, UploadComplete(r) PROVE TypeOK'
    BY <2>3, SelectForMergeType, OpenMergedType, MergeChunkType, MoveMergedType,
       OpenObjectType, CopyObjectType, MergeTailType, MarkDoneType DEF UploadComplete
  <2>4. CASE UNCHANGED vars
    BY <2>4 DEF vars, tables, disk, TypeOK, TablesOK, DiskOK, InitsOK, PutsOK, MergesOK
  <2> QED
    BY <2>1, <2>2, <2>3, <2>4, TickType, CrashType DEF Next
<1> QED
  BY <1>1, <1>2, PTL DEF Spec

-----------------------------------------------------------------------------
(* The order of UploadComplete's steps: store, register, publish, mark.  The *)
(* properties are not inductive by themselves, because the step that adds a  *)
(* row relies on what an earlier step of the same request left behind.       *)

MergeRow(r) == [by |-> r, uid |-> merges[r].uid, upload |-> merges[r].id, hash |-> Key(r)]

InOrder(r) ==
  /\ merges[r].pc \in {"copy", "register"} => Key(r) \in Stored
  /\ merges[r].pc \in {"publish", "mark"} => MergeRow(r) \in files

SafeInv ==
  /\ RowsHaveObjects
  /\ MessagesHaveRows
  /\ DoneSessionsHaveRows
  /\ \A r \in Merges : InOrder(r)

\* Binding a key forgets no other key.
LEMMA BindStored ==
  ASSUME NEW key, NEW f, object' = Bind(key, f)
  PROVE  Stored' = Stored \cup {key}
<1> DEFINE bound == [key |-> key, inode |-> f]
<1>1. bound.key = key /\ object' = {o \in object : o.key # key} \cup {bound}
  BY DEF Bind
<1> HIDE DEF bound
<1>2. Stored' \subseteq Stored \cup {key}
  BY <1>1 DEF Stored
<1>3. ASSUME NEW o \in object PROVE o.key \in Stored'
  <2>1. CASE o.key = key
    BY <1>1, <2>1 DEF Stored
  <2>2. CASE o.key # key
    BY <1>1, <2>2 DEF Stored
  <2> QED
    BY <2>1, <2>2
<1>4. key \in Stored'
  BY <1>1 DEF Stored
<1> QED
  BY <1>2, <1>3, <1>4 DEF Stored

\* The sessions that are done after a step were done before it, or have a row.
DoneKept ==
  \A id \in UploadIds :
    session'[id] # None /\ session'[id].status = 1 =>
      \/ session[id] # None /\ session[id].status = 1
      \/ \E f \in files : f.upload = id

\* Steps that neither register nor publish.
LEMMA SafeFrame ==
  ASSUME SafeInv, Stored \subseteq Stored', UNCHANGED <<files, queue>>, DoneKept,
         \A r \in Merges : InOrder(r)'
  PROVE  SafeInv'
<1>1. RowsHaveObjects' /\ MessagesHaveRows'
  BY DEF SafeInv, RowsHaveObjects, MessagesHaveRows
<1>2. DoneSessionsHaveRows'
  BY DEF SafeInv, DoneSessionsHaveRows, DoneKept
<1> QED
  BY <1>1, <1>2 DEF SafeInv

\* A request that moves to another step without touching what it has read.
LEMMA InOrderFrame ==
  ASSUME SafeInv, NEW r \in Merges, Stored \subseteq Stored', files \subseteq files',
         merges'[r] = merges[r]
  PROVE  InOrder(r)'
  BY DEF SafeInv, InOrder, MergeRow, Key

LEMMA SafeInit ==
  ASSUME TypeOK, NEW r \in Inits, UploadInit(r), SafeInv
  PROVE  SafeInv'
<1>1. UNCHANGED <<files, queue, object, merges>>
  BY DEF UploadInit, SelectStale, RemoveStale, DeleteStale, MakeDir, InsertSession,
         InitFault, CleanupFault, tables, disk
<1>2. DoneKept
  <2>1. CASE UNCHANGED session
    BY <2>1 DEF DoneKept
  <2>2. CASE DeleteStale(r)
    BY <2>2 DEF DeleteStale, DoneKept
  <2>3. ASSUME NEW n \in 1 .. MaxChunks, InsertSession(r, n) PROVE DoneKept
    <3> DEFINE row == [uid |-> inits[r].uid, total |-> n, received |-> 0,
                       status |-> 0, created |-> now]
    <3>1. row.status = 0 /\ session' = [session EXCEPT ![inits[r].id] = row]
      BY <2>3 DEF InsertSession
    <3> HIDE DEF row
    <3>2. \A id \in UploadIds : session'[id] = row \/ session'[id] = session[id]
      BY <3>1 DEF TypeOK, TablesOK
    <3> QED
      BY <3>1, <3>2 DEF DoneKept
  <2> QED
    BY <2>1, <2>2, <2>3
       DEF UploadInit, SelectStale, RemoveStale, MakeDir, InitFault, CleanupFault, tables
<1>3. Stored' = Stored
  BY <1>1 DEF Stored
<1>4. \A q \in Merges : InOrder(q)'
  BY <1>1, <1>3, InOrderFrame
<1> QED
  BY <1>1, <1>2, <1>3, <1>4, SafeFrame

LEMMA SafeChunk ==
  ASSUME TypeOK, NEW r \in Chunks, UploadChunk(r), SafeInv
  PROVE  SafeInv'
<1>1. UNCHANGED <<files, queue, object, merges>>
  BY DEF UploadChunk, SelectForChunk, OpenChunk, WriteChunk, ScanChunks, UpdateReceived,
         ChunkFault, tables, disk
<1>2. DoneKept
  <2>1. CASE UNCHANGED session
    BY <2>1 DEF DoneKept
  <2>2. CASE UpdateReceived(r)
    BY <2>2 DEF UpdateReceived, DoneKept, TypeOK, TablesOK, Row
  <2> QED
    BY <2>1, <2>2 DEF UploadChunk, SelectForChunk, OpenChunk, WriteChunk, ScanChunks,
                      ChunkFault, tables
<1>3. Stored' = Stored
  BY <1>1 DEF Stored
<1>4. \A q \in Merges : InOrder(q)'
  BY <1>1, <1>3, InOrderFrame
<1> QED
  BY <1>1, <1>2, <1>3, <1>4, SafeFrame

\* The steps of UploadComplete that neither store nor register.
LEMMA SafeElsewhere ==
  ASSUME TypeOK, SafeInv, NEW r \in Merges,
         \/ \E u \in Users, id \in UploadIds : SelectForMerge(r, u, id)
         \/ OpenMerged(r) \/ MergeChunk(r) \/ MergedGone(r)
         \/ CopyFault(r) \/ MergeFault(r) \/ RemoveTmp(r)
  PROVE  SafeInv'
<1>1. UNCHANGED <<files, queue, session, object>>
  BY DEF SelectForMerge, OpenMerged, MergeChunk, MergedGone, CopyFault,
         MergeFault, RemoveTmp, tables, disk
<1>2. Stored' = Stored
  BY <1>1 DEF Stored
<1>3. merges'[r].pc \in {"open", "merge", "move"} \cup Answered
  <2>1. merges[r] \in MergeReq /\ merges \in [Merges -> MergeReq]
    BY DEF TypeOK, MergesOK
  <2>2. ASSUME NEW u \in Users, NEW id \in UploadIds, SelectForMerge(r, u, id)
        PROVE  merges'[r].pc = "open"
    BY <2>1, <2>2 DEF SelectForMerge, MergeReq
  <2>3. CASE OpenMerged(r)
    BY <2>1, <2>3 DEF OpenMerged, MergeReq, Answered
  <2>4. CASE MergeChunk(r)
    BY <2>1, <2>4 DEF MergeChunk, MergeReq, Answered
  <2>5. CASE MergedGone(r) \/ CopyFault(r) \/ MergeFault(r) \/ RemoveTmp(r)
    BY <2>1, <2>5 DEF MergedGone, CopyFault, MergeFault, RemoveTmp, MergeReq, Answered
  <2> QED
    BY <2>2, <2>3, <2>4, <2>5
<1>4. \A q \in Merges : q # r => merges'[q] = merges[q]
  BY DEF SelectForMerge, OpenMerged, MergeChunk, MergedGone, CopyFault,
         MergeFault, RemoveTmp, TypeOK, MergesOK
<1>5. \A q \in Merges : InOrder(q)'
  <2>1. InOrder(r)'
    BY <1>3 DEF InOrder, Answered
  <2> QED
    BY <1>1, <1>2, <1>4, <2>1, InOrderFrame
<1>6. DoneKept
  BY <1>1 DEF DoneKept
<1> QED
  BY <1>1, <1>2, <1>5, <1>6, SafeFrame

LEMMA SafeStore ==
  ASSUME TypeOK, SafeInv, NEW r \in Merges,
         MoveMerged(r) \/ OpenObject(r) \/ CopyObject(r)
  PROVE  SafeInv'
<1>1. /\ UNCHANGED <<files, queue, session>> /\ merges[r] \in MergeReq
      /\ merges'[r].read = merges[r].read
      /\ merges'[r].pc \in {"copy", "register", "failed"}
      /\ \A q \in Merges : q # r => merges'[q] = merges[q]
  <2>1. merges \in [Merges -> MergeReq]
    BY DEF TypeOK, MergesOK
  <2>2. CASE MoveMerged(r)
    BY <2>1, <2>2 DEF MoveMerged, MergeReq, tables
  <2>3. CASE OpenObject(r)
    BY <2>1, <2>3 DEF OpenObject, MergeReq, tables
  <2>4. CASE CopyObject(r)
    BY <2>1, <2>4 DEF CopyObject, MergeReq, tables
  <2> QED
    BY <2>2, <2>3, <2>4
<1>2. Key(r)' = Key(r)
  BY <1>1 DEF Key
<1>3. Stored \subseteq Stored' /\ Key(r) \in Stored'
  <2>1. CASE MoveMerged(r) \/ OpenObject(r)
    <3>1. PICK f : object' = Bind(Key(r), f)
      BY <2>1 DEF MoveMerged, OpenObject
    <3> QED
      BY <3>1, BindStored
  <2>2. CASE CopyObject(r)
    <3>1. Key(r) \in Stored
      BY <2>2 DEF CopyObject, SafeInv, InOrder
    <3> QED
      BY <2>2, <3>1 DEF CopyObject, Stored
  <2> QED
    BY <2>1, <2>2
<1>4. \A q \in Merges : InOrder(q)'
  <2>1. InOrder(r)'
    BY <1>1, <1>2, <1>3 DEF InOrder
  <2> QED
    BY <1>1, <1>3, <2>1, InOrderFrame
<1>5. DoneKept
  BY <1>1 DEF DoneKept
<1> QED
  BY <1>1, <1>3, <1>4, <1>5, SafeFrame

LEMMA SafeRegister ==
  ASSUME TypeOK, SafeInv, NEW r \in Merges, RegisterFile(r)
  PROVE  SafeInv'
<1>1. /\ files' = files \cup {MergeRow(r)} /\ UNCHANGED <<queue, session, object>>
      /\ Key(r) \in Stored
  BY DEF RegisterFile, MergeRow, SafeInv, InOrder, disk
<1>2. Stored' = Stored
  BY <1>1 DEF Stored
<1>3. /\ merges'[r].pc = "publish" /\ MergeRow(r)' = MergeRow(r)
      /\ \A q \in Merges : q # r => merges'[q] = merges[q]
  BY DEF RegisterFile, TypeOK, MergesOK, MergeReq, MergeRow, Key
<1>4. RowsHaveObjects'
  BY <1>1, <1>2 DEF SafeInv, RowsHaveObjects, MergeRow
<1>5. MessagesHaveRows' /\ DoneSessionsHaveRows'
  BY <1>1 DEF SafeInv, MessagesHaveRows, DoneSessionsHaveRows
<1>6. \A q \in Merges : InOrder(q)'
  <2>1. InOrder(r)'
    BY <1>1, <1>3 DEF InOrder
  <2> QED
    BY <1>1, <1>2, <1>3, <2>1, InOrderFrame
<1> QED
  BY <1>4, <1>5, <1>6 DEF SafeInv

LEMMA SafePublish ==
  ASSUME TypeOK, SafeInv, NEW r \in Merges, PublishFile(r)
  PROVE  SafeInv'
<1> DEFINE msg == [by |-> r, uid |-> merges[r].uid, hash |-> Key(r)]
<1>1. /\ queue' \subseteq queue \cup {msg} /\ UNCHANGED <<files, session, object>>
      /\ MergeRow(r) \in files
  BY DEF PublishFile, SafeInv, InOrder, disk
<1>2. Stored' = Stored
  BY <1>1 DEF Stored
<1>3. /\ merges'[r].pc = "mark" /\ MergeRow(r)' = MergeRow(r)
      /\ \A q \in Merges : q # r => merges'[q] = merges[q]
  BY DEF PublishFile, TypeOK, MergesOK, MergeReq, MergeRow, Key
<1>4. RowsHaveObjects' /\ DoneSessionsHaveRows'
  BY <1>1, <1>2 DEF SafeInv, RowsHaveObjects, DoneSessionsHaveRows
<1>5. MessagesHaveRows'
  <2>1. \E f \in files : f.by = msg.by /\ f.uid = msg.uid /\ f.hash = msg.hash
    BY <1>1 DEF MergeRow
  <2> QED
    BY <1>1, <2>1 DEF SafeInv, MessagesHaveRows
<1>6. \A q \in Merges : InOrder(q)'
  <2>1. InOrder(r)'
    BY <1>1, <1>3 DEF InOrder
  <2> QED
    BY <1>1, <1>2, <1>3, <2>1, InOrderFrame
<1> QED
  BY <1>4, <1>5, <1>6 DEF SafeInv

LEMMA SafeMark ==
  ASSUME TypeOK, SafeInv, NEW r \in Merges, MarkDone(r)
  PROVE  SafeInv'
<1>1. UNCHANGED <<files, queue, object>> /\ MergeRow(r) \in files
  BY DEF MarkDone, SafeInv, InOrder, disk
<1>2. Stored' = Stored
  BY <1>1 DEF Stored
<1>3. merges'[r].pc = "rm" /\ \A q \in Merges : q # r => merges'[q] = merges[q]
  BY DEF MarkDone, TypeOK, MergesOK, MergeReq
<1>4. DoneKept
  <2>1. \A id \in UploadIds : id # merges[r].id => session'[id] = session[id]
    BY DEF MarkDone, TypeOK, TablesOK
  <2>2. MergeRow(r).upload = merges[r].id
    BY DEF MergeRow
  <2> QED
    BY <1>1, <2>1, <2>2 DEF DoneKept
<1>5. \A q \in Merges : InOrder(q)'
  <2>1. InOrder(r)'
    BY <1>3 DEF InOrder
  <2> QED
    BY <1>1, <1>2, <1>3, <2>1, InOrderFrame
<1> QED
  BY <1>1, <1>2, <1>4, <1>5, SafeFrame

LEMMA SafeRest ==
  ASSUME TypeOK, SafeInv, Tick \/ Crash \/ UNCHANGED vars
  PROVE  SafeInv'
<1>1. UNCHANGED <<files, queue, session, object>>
  BY DEF Tick, Crash, vars, tables, disk
<1>2. Stored' = Stored
  BY <1>1 DEF Stored
<1>3. ASSUME NEW r \in Merges PROVE InOrder(r)'
  <2>1. CASE merges'[r] = merges[r]
    BY <1>1, <1>2, <2>1, InOrderFrame
  <2>2. CASE merges'[r].pc = "lost"
    BY <2>2 DEF InOrder
  <2>3. merges'[r] = merges[r] \/ merges'[r].pc = "lost"
    BY DEF Tick, Crash, Lost, vars, TypeOK, MergesOK, MergeReq
  <2> QED
    BY <2>1, <2>2, <2>3
<1>4. DoneKept
  BY <1>1 DEF DoneKept
<1> QED
  BY <1>1, <1>2, <1>3, <1>4, SafeFrame

LEMMA SafeInvariant == Spec => []SafeInv
<1>1. Init => SafeInv
  BY DEF Init, SafeInv, RowsHaveObjects, MessagesHaveRows, DoneSessionsHaveRows, InOrder
<1>2. TypeOK /\ SafeInv /\ [Next]_vars => SafeInv'
  <2> SUFFICES ASSUME TypeOK, SafeInv, [Next]_vars PROVE SafeInv'
    OBVIOUS
  <2>1. ASSUME NEW r \in Merges, UploadComplete(r) PROVE SafeInv'
    BY <2>1, SafeElsewhere, SafeStore, SafeRegister, SafePublish, SafeMark DEF UploadComplete
  <2> QED
    BY <2>1, SafeInit, SafeChunk, SafeRest DEF Next
<1> QED
  BY <1>1, <1>2, TypeCorrect, PTL DEF Spec

\* A row of tbl_file always names an object that the storage has, whatever
\* requests race, fail, or are cut off by a restart.
THEOREM RowsAlwaysHaveObjects == Spec => []RowsHaveObjects
<1>1. SafeInv => RowsHaveObjects
  BY DEF SafeInv
<1> QED
  BY <1>1, SafeInvariant, PTL

\* A message on backup.queue always names a registered file.
THEOREM MessagesAlwaysHaveRows == Spec => []MessagesHaveRows
<1>1. SafeInv => MessagesHaveRows
  BY DEF SafeInv
<1> QED
  BY <1>1, SafeInvariant, PTL

\* A session that is marked done always has its file registered.
THEOREM DoneSessionsAlwaysHaveRows == Spec => []DoneSessionsHaveRows
<1>1. SafeInv => DoneSessionsHaveRows
  BY DEF SafeInv
<1> QED
  BY <1>1, SafeInvariant, PTL

============================================================================
