--------------------------- MODULE ContentProofs ---------------------------
(***************************************************************************)
(* What UploadComplete reads and what ends up in the storage: chunks in    *)
(* the order of their indices, torn ones only of requests in flight, and,  *)
(* where rename works, wrong objects only after two completes of one       *)
(* upload raced.                                                           *)
(***************************************************************************)
EXTENDS ChunkUploadProofs

-----------------------------------------------------------------------------
(* One turn of the merge loop. *)

Piece1(r) == NextPiece(merges[r])

LEMMA MergeTurn ==
  ASSUME TypeOK, NEW r \in Merges, MergeChunk(r)
  PROVE  /\ merges[r].pc = "merge"
         /\ merges'[r].id = merges[r].id /\ merges'[r].out = merges[r].out
         /\ merges'[r].pc \in {"merge", "move", "failed"}
         /\ \A q \in Merges : q # r => merges'[q] = merges[q]
         /\ \/ /\ merges'[r].next = merges[r].next /\ merges'[r].read = merges[r].read
               /\ UNCHANGED content
            \/ /\ merges'[r].next = merges[r].next + 1 /\ merges'[r].read = merges[r].read
               /\ UNCHANGED content
            \/ /\ Piece1(r) \in Piece
               /\ merges'[r].next = merges[r].next + 1
               /\ merges'[r].read = Append(merges[r].read, Piece1(r))
               /\ content' = [content EXCEPT ![merges[r].out] =
                                WriteAt(@, Len(merges[r].read), Piece1(r))]
<1>1. merges \in [Merges -> MergeReq] /\ merges[r].pc = "merge"
  BY DEF TypeOK, MergesOK, MergeChunk
<1>2. merges[r].id \in UploadIds /\ merges[r].next \in Indices
  BY <1>1, ChunksAssumption
     DEF TypeOK, MergesOK, MergeLocals, MergeReq, Running, Answered, Indices
<1>3. Piece1(r) \in Piece \cup {None, Torn}
  BY <1>2 DEF Piece1, NextPiece, TypeOK, DiskOK
<1> DEFINE p == IF merges[r].next + 1 = merges[r].total THEN "move" ELSE "merge"
           piece == Piece1(r)
<1>4. CASE piece = None
  <2>1. merges' = [merges EXCEPT ![r].pc = "failed"] /\ UNCHANGED content
    BY <1>4, NullAssumption DEF MergeChunk, Piece1
  <2> QED
    BY <1>1, <2>1 DEF MergeReq
<1>5. CASE piece = Torn
  <2>1. merges' = [merges EXCEPT ![r].next = @ + 1, ![r].pc = p] /\ UNCHANGED content
    BY <1>5, NullAssumption DEF MergeChunk, Piece1
  <2>2. p \in {"merge", "move"}
    OBVIOUS
  <2> HIDE DEF p, piece
  <2> QED
    BY <1>1, <2>1, <2>2 DEF MergeReq
<1>6. CASE piece # None /\ piece # Torn
  <2>1. /\ merges' = [merges EXCEPT ![r].next = @ + 1, ![r].read = Append(@, piece), ![r].pc = p]
        /\ content' = [content EXCEPT ![merges[r].out] = WriteAt(@, Len(merges[r].read), piece)]
    BY <1>6 DEF MergeChunk, Piece1
  <2>2. p \in {"merge", "move"} /\ piece \in Piece
    BY <1>3, <1>6
  <2> HIDE DEF p, piece
  <2>3. /\ merges'[r].next = merges[r].next + 1 /\ merges'[r].read = Append(merges[r].read, piece)
        /\ merges'[r].id = merges[r].id /\ merges'[r].out = merges[r].out /\ merges'[r].pc = p
        /\ \A q \in Merges : q # r => merges'[q] = merges[q]
    BY <1>1, <2>1 DEF MergeReq
  <2> QED
    BY <1>1, <2>1, <2>2, <2>3 DEF piece
<1> QED
  BY <1>4, <1>5, <1>6

\* A request that only goes on to another statement.
LEMMA PcKeeps ==
  ASSUME TypeOK, NEW r \in Merges, NEW p, merges' = [merges EXCEPT ![r].pc = p]
  PROVE  /\ merges'[r].pc = p
         /\ merges'[r].id = merges[r].id /\ merges'[r].out = merges[r].out
         /\ \A q \in Merges : /\ merges'[q].read = merges[q].read
                              /\ merges'[q].next = merges[q].next
                              /\ q # r => merges'[q] = merges[q]
  BY DEF TypeOK, MergesOK, MergeReq

\* Every other step leaves what a merge has read alone.
LEMMA ReadStep ==
  ASSUME TypeOK, [Next]_vars, \A r \in Merges : ~MergeChunk(r)
  PROVE  \A q \in Merges : merges'[q].read = merges[q].read /\ merges'[q].next = merges[q].next
<1>1. merges \in [Merges -> MergeReq]
  BY DEF TypeOK, MergesOK
<1> DEFINE Same == \A q \in Merges : /\ merges'[q].read = merges[q].read
                                     /\ merges'[q].next = merges[q].next
<1>2. ASSUME NEW r \in Merges, UploadComplete(r) PROVE Same
  <2>1. ASSUME NEW u \in Users, NEW id \in UploadIds, SelectForMerge(r, u, id) PROVE Same
    BY <1>1, <2>1 DEF SelectForMerge, MergeReq
  <2>2. CASE OpenMerged(r)
    <3> DEFINE f == IF merged[merges[r].id] = None THEN <<r, "merged">> ELSE merged[merges[r].id]
    <3>1. CASE merges' = [merges EXCEPT ![r].pc = "merge", ![r].out = f]
      <4> HIDE DEF f
      <4> QED
        BY <1>1, <3>1 DEF MergeReq
    <3>2. CASE merges' = [merges EXCEPT ![r].pc = "failed"]
      BY <3>2, PcKeeps
    <3> QED
      BY <2>2, <3>1, <3>2 DEF OpenMerged
  <2>3. CASE OpenObject(r)
    BY <1>1, <2>3 DEF OpenObject, MergeReq
  <2>4. CASE CopyObject(r)
    BY <1>1, <2>4 DEF CopyObject, MergeReq
  <2>5. CASE MoveMerged(r) \/ MergedGone(r) \/ CopyFault(r) \/ MergeFault(r)
    BY <2>5, PcKeeps DEF MoveMerged, MergedGone, CopyFault, MergeFault
  <2>6. CASE RegisterFile(r) \/ PublishFile(r) \/ MarkDone(r) \/ RemoveTmp(r)
    BY <2>6, PcKeeps DEF RegisterFile, PublishFile, MarkDone, RemoveTmp
  <2> QED
    BY <1>2, <2>1, <2>2, <2>3, <2>4, <2>5, <2>6 DEF UploadComplete
<1>3. CASE Crash
  BY <1>1, <1>3 DEF Crash, Lost, MergeReq
<1>4. ASSUME NEW r \in Inits, UploadInit(r) PROVE UNCHANGED merges
  BY <1>4 DEF UploadInit, SelectStale, RemoveStale, DeleteStale, MakeDir, InsertSession,
              InitFault, CleanupFault
<1>5. ASSUME NEW r \in Chunks, UploadChunk(r) PROVE UNCHANGED merges
  BY <1>5 DEF UploadChunk, SelectForChunk, OpenChunk, WriteChunk, ScanChunks,
              UpdateReceived, ChunkFault
<1> QED
  BY <1>2, <1>3, <1>4, <1>5 DEF Next, Tick, vars

-----------------------------------------------------------------------------
(* Chunk files. *)

\* A chunk file is as it was, or gone, or just truncated or written by a request.
ChunkMoves ==
  \A id \in UploadIds, i \in Indices :
    \/ chunk'[id][i] = chunk[id][i]
    \/ chunk'[id][i] = None
    \/ /\ chunk'[id][i] = Torn
       /\ \E r \in Chunks : puts'[r].id = id /\ puts'[r].idx = i /\ puts'[r].pc = "write"
    \/ \E v \in Versions : chunk'[id][i] = <<i, v>>

LEMMA ChunkStep ==
  ASSUME TypeOK, [Next]_vars
  PROVE  ChunkMoves
<1>1. CASE UNCHANGED chunk
  BY <1>1 DEF ChunkMoves
<1>2. ASSUME NEW id \in UploadIds, RemoveDir(id) PROVE ChunkMoves
  BY <1>2 DEF RemoveDir, ChunkMoves, TypeOK, DiskOK
<1>3. ASSUME NEW r \in Inits, UploadInit(r) PROVE ChunkMoves
  BY <1>1, <1>2, <1>3 DEF UploadInit, SelectStale, RemoveStale, DeleteStale, MakeDir,
                          InsertSession, InitFault, CleanupFault, disk
<1>4. ASSUME NEW r \in Merges, UploadComplete(r) PROVE ChunkMoves
  <2>1. CASE RemoveTmp(r)
    <3>1. merges[r].id \in UploadIds
      BY <2>1, MergeAtWork DEF RemoveTmp, TypeOK, Running, Answered
    <3> QED
      BY <1>1, <1>2, <2>1, <3>1 DEF RemoveTmp
  <2> QED
    BY <1>1, <1>4, <2>1
       DEF UploadComplete, SelectForMerge, OpenMerged, MergeChunk, MoveMerged, MergedGone,
           OpenObject, CopyObject, CopyFault, RegisterFile, PublishFile, MarkDone, MergeFault,
           disk
<1>5. ASSUME NEW r \in Chunks, UploadChunk(r) PROVE ChunkMoves
  <2>1. puts \in [Chunks -> PutReq] /\ chunk \in [UploadIds -> [Indices -> Piece \cup {None, Torn}]]
    BY DEF TypeOK, PutsOK, DiskOK
  <2>2. ASSUME OpenChunk(r), puts[r].id \in dir PROVE ChunkMoves
    <3>1. /\ puts'[r].pc = "write" /\ puts'[r].id = puts[r].id /\ puts'[r].idx = puts[r].idx
          /\ chunk' = [chunk EXCEPT ![puts[r].id][puts[r].idx] = Torn]
      BY <2>1, <2>2 DEF OpenChunk, PutReq
    <3> QED
      BY <2>1, <3>1 DEF ChunkMoves
  <2>3. ASSUME WriteChunk(r), chunk' = [chunk EXCEPT ![puts[r].id][puts[r].idx] =
                                          <<puts[r].idx, puts[r].data>>]
        PROVE  ChunkMoves
    <3>1. puts[r].data \in Versions
      BY <2>3 DEF WriteChunk, TypeOK, PutsOK, PutLocals
    <3> QED
      BY <2>1, <2>3, <3>1 DEF ChunkMoves
  <2> QED
    BY <1>1, <1>5, <2>2, <2>3
       DEF UploadChunk, SelectForChunk, OpenChunk, WriteChunk, ScanChunks, UpdateReceived,
           ChunkFault, disk
<1> QED
  BY <1>1, <1>3, <1>4, <1>5 DEF Next, Tick, Crash, vars, disk

-----------------------------------------------------------------------------
(* Chunks are read in order. *)

PiecesInPlace ==
  \A id \in UploadIds, i \in Indices : chunk[id][i] \in Piece => chunk[id][i][1] = i

ReadsBelow ==
  \A r \in Merges : \A k \in 1 .. Len(merges[r].read) : merges[r].read[k][1] < merges[r].next

ReadInv == PiecesInPlace /\ ReadsBelow /\ ReadsInOrder

LEMMA OthersRead ==
  ASSUME TypeOK, ReadInv, NEW r \in Merges, MergeChunk(r), NEW t,
         merges'[r].read = t, \A k \in 1 .. Len(t) : t[k][1] < merges'[r].next,
         \A j, k \in 1 .. Len(t) : j < k => t[j][1] < t[k][1]
  PROVE  ReadsBelow' /\ ReadsInOrder'
<1>1. \A q \in Merges : q # r => merges'[q] = merges[q]
  BY MergeTurn
<1>2. ReadsBelow'
  BY <1>1 DEF ReadInv, ReadsBelow
<1>3. ReadsInOrder'
  BY <1>1 DEF ReadInv, ReadsInOrder
<1> QED
  BY <1>2, <1>3

LEMMA ReadInvStep ==
  ASSUME TypeOK, ReadInv, [Next]_vars
  PROVE  ReadInv'
<1>1. PiecesInPlace'
  BY ChunkStep, NullAssumption DEF ChunkMoves, ReadInv, PiecesInPlace
<1>2. ASSUME NEW r \in Merges, MergeChunk(r) PROVE ReadsBelow' /\ ReadsInOrder'
  <2>1. /\ merges[r].next \in Indices /\ merges[r].id \in UploadIds
        /\ merges[r].read \in Seq(Piece)
    BY <1>2, ChunksAssumption
       DEF MergeChunk, TypeOK, MergesOK, MergeLocals, MergeReq, Running, Answered, Indices
  <2> DEFINE n == merges[r].next
             s == merges[r].read
             piece == Piece1(r)
  <2>2. n \in Nat /\ \A k \in 1 .. Len(s) : s[k][1] \in Nat /\ s[k][1] < n
    BY <2>1 DEF ReadInv, ReadsBelow, Indices, Piece
  <2>3. \A j, k \in 1 .. Len(s) : j < k => s[j][1] < s[k][1]
    BY DEF ReadInv, ReadsInOrder
  <2>4. ASSUME piece \in Piece PROVE piece[1] = n
    BY <2>1, <2>4 DEF Piece1, NextPiece, ReadInv, PiecesInPlace
  <2>5. CASE merges'[r].read = s /\ merges'[r].next \in {n, n + 1}
    <3>1. \A k \in 1 .. Len(s) : s[k][1] < n + 1
      BY <2>2
    <3>2. \A k \in 1 .. Len(s) : s[k][1] < merges'[r].next
      BY <2>2, <2>5, <3>1
    <3>3. merges'[r].read = s
      BY <2>5
    <3> HIDE DEF s, n, piece
    <3> QED
      BY <1>2, <2>3, <3>2, <3>3, OthersRead
  <2>6. CASE merges'[r].read = Append(s, piece) /\ merges'[r].next = n + 1 /\ piece \in Piece
    <3> DEFINE t == Append(s, piece)
    <3>1. Len(t) = Len(s) + 1 /\ Len(s) \in Nat /\ t[Len(s) + 1] = piece
          /\ \A k \in 1 .. Len(s) : t[k] = s[k]
      BY <2>1, <2>6
    <3>2. ASSUME NEW k \in 1 .. Len(t) PROVE t[k][1] < n + 1
      <4>1. k \in 1 .. Len(s) \/ k = Len(s) + 1
        BY <3>1
      <4>2. CASE k \in 1 .. Len(s)
        BY <2>2, <3>1, <4>2
      <4>3. CASE k = Len(s) + 1
        BY <2>2, <2>4, <2>6, <3>1, <4>3
      <4> QED
        BY <4>1, <4>2, <4>3
    <3>3. \A j, k \in 1 .. Len(t) : j < k => t[j][1] < t[k][1]
      BY <2>2, <2>3, <2>4, <2>6, <3>1
    <3>4. merges'[r].read = t /\ merges'[r].next = n + 1
      BY <2>6
    <3> HIDE DEF t, s, n, piece
    <3> QED
      BY <1>2, <3>2, <3>3, <3>4, OthersRead
  <2> QED
    BY <1>2, <2>5, <2>6, MergeTurn
<1>3. CASE \A r \in Merges : ~MergeChunk(r)
  <2>1. \A q \in Merges : merges'[q].read = merges[q].read /\ merges'[q].next = merges[q].next
    BY <1>3, ReadStep
  <2>2. ReadsBelow'
    BY <2>1 DEF ReadInv, ReadsBelow
  <2>3. ReadsInOrder'
    BY <2>1 DEF ReadInv, ReadsInOrder
  <2> QED
    BY <1>1, <2>2, <2>3 DEF ReadInv
<1> QED
  BY <1>1, <1>2, <1>3 DEF ReadInv

\* A merge hashes chunks in the order of their indices and none twice, whatever
\* happens to the chunk files meanwhile.
THEOREM ReadsAlwaysInOrder == Spec => []ReadsInOrder
<1>1. Init => ReadInv
  BY NullAssumption DEF Init, ReadInv, PiecesInPlace, ReadsBelow, ReadsInOrder
<1>2. TypeOK /\ ReadInv /\ [Next]_vars => ReadInv'
  BY ReadInvStep
<1>3. ReadInv => ReadsInOrder
  BY DEF ReadInv
<1> QED
  BY <1>1, <1>2, <1>3, TypeCorrect, PTL DEF Spec

-----------------------------------------------------------------------------
(* Torn chunk files. *)

\* A chunk file lies in a directory.
FilesInDirs == \A id \in UploadIds, i \in Indices : chunk[id][i] # None => id \in dir

TornInv == FilesInDirs /\ TornIsInFlight

\* The request that is to write this chunk file, or would have.
Writer(r, id, i) == puts[r].id = id /\ puts[r].idx = i /\ puts[r].pc \in {"write", "lost"}

\* A request stays the writer of its chunk file until it writes it.
LEMMA WriterStays ==
  ASSUME TypeOK, [Next]_vars, NEW r \in Chunks, NEW id, NEW i, Writer(r, id, i), ~WriteChunk(r)
  PROVE  Writer(r, id, i)'
<1>1. puts \in [Chunks -> PutReq] /\ puts[r].pc \in {"write", "lost"}
  BY DEF TypeOK, PutsOK, Writer
<1>2. ASSUME puts'[r] = puts[r] PROVE Writer(r, id, i)'
  BY <1>2 DEF Writer
<1>3. CASE Crash
  BY <1>1, <1>3 DEF Crash, Lost, PutReq, Writer
<1>4. ASSUME NEW q \in Chunks, UploadChunk(q) PROVE puts'[r] = puts[r]
  BY <1>1, <1>4 DEF UploadChunk, SelectForChunk, OpenChunk, WriteChunk, ScanChunks,
                    UpdateReceived, ChunkFault
<1>5. ASSUME NEW q \in Inits, UploadInit(q) PROVE UNCHANGED puts
  BY <1>5 DEF UploadInit, SelectStale, RemoveStale, DeleteStale, MakeDir, InsertSession,
              InitFault, CleanupFault
<1>6. ASSUME NEW q \in Merges, UploadComplete(q) PROVE UNCHANGED puts
  BY <1>6 DEF UploadComplete, SelectForMerge, OpenMerged, MergeChunk, MoveMerged, MergedGone,
              OpenObject, CopyObject, CopyFault, RegisterFile, PublishFile, MarkDone,
              RemoveTmp, MergeFault
<1> QED
  BY <1>2, <1>3, <1>4, <1>5, <1>6 DEF Next, Tick, vars

LEMMA FilesInDirsStep ==
  ASSUME TypeOK, FilesInDirs, [Next]_vars
  PROVE  FilesInDirs'
<1>1. CASE UNCHANGED chunk /\ dir \subseteq dir'
  BY <1>1 DEF FilesInDirs
<1>2. ASSUME NEW id \in UploadIds, RemoveDir(id) PROVE FilesInDirs'
  BY <1>2 DEF RemoveDir, FilesInDirs, TypeOK, DiskOK
<1>3. ASSUME NEW r \in Inits, UploadInit(r) PROVE FilesInDirs'
  BY <1>1, <1>2, <1>3 DEF UploadInit, SelectStale, RemoveStale, DeleteStale, MakeDir,
                          InsertSession, InitFault, CleanupFault, disk
<1>4. ASSUME NEW r \in Chunks, UploadChunk(r) PROVE FilesInDirs'
  <2>1. ASSUME NEW piece, puts[r].id \in dir, UNCHANGED dir,
               chunk' = [chunk EXCEPT ![puts[r].id][puts[r].idx] = piece]
        PROVE  FilesInDirs'
    <3>1. \A id \in UploadIds, i \in Indices : id = puts[r].id \/ chunk'[id][i] = chunk[id][i]
      BY <2>1 DEF TypeOK, DiskOK
    <3> QED
      BY <2>1, <3>1 DEF FilesInDirs
  <2>2. CASE OpenChunk(r) \/ WriteChunk(r)
    BY <1>1, <2>1, <2>2 DEF OpenChunk, WriteChunk
  <2> QED
    BY <1>1, <1>4, <2>2 DEF UploadChunk, SelectForChunk, ScanChunks, UpdateReceived, ChunkFault,
                            disk
<1>5. ASSUME NEW r \in Merges, UploadComplete(r) PROVE FilesInDirs'
  <2>1. CASE RemoveTmp(r)
    <3>1. merges[r].id \in UploadIds
      BY <2>1, MergeAtWork DEF RemoveTmp, TypeOK, Running, Answered
    <3> QED
      BY <1>1, <1>2, <2>1, <3>1 DEF RemoveTmp
  <2> QED
    BY <1>1, <1>5, <2>1
       DEF UploadComplete, SelectForMerge, OpenMerged, MergeChunk, MoveMerged, MergedGone,
           OpenObject, CopyObject, CopyFault, RegisterFile, PublishFile, MarkDone, MergeFault,
           disk
<1> QED
  BY <1>1, <1>3, <1>4, <1>5 DEF Next, Tick, Crash, vars, disk

\* The request that writes a chunk file leaves no torn one behind, unless the disk
\* fails unseen: if the directory is gone, so is the file.
LEMMA TornStep ==
  ASSUME TypeOK, TornInv, [Next]_vars
  PROVE  TornIsInFlight'
<1> SUFFICES ASSUME ~SilentFaults, NEW id \in UploadIds, NEW i \in Indices, chunk'[id][i] = Torn
             PROVE  \E r \in Chunks : Writer(r, id, i)'
  BY DEF TornIsInFlight, Writer
<1>1. CASE \E r \in Chunks : puts'[r].id = id /\ puts'[r].idx = i /\ puts'[r].pc = "write"
  BY <1>1 DEF Writer
<1>2. CASE chunk[id][i] = Torn
  <2>1. PICK r \in Chunks : Writer(r, id, i)
    BY <1>2 DEF TornInv, TornIsInFlight, Writer
  <2>2. ASSUME WriteChunk(r) PROVE FALSE
    <3>1. puts[r].id = id /\ puts[r].idx = i
      BY <2>1 DEF Writer
    <3>2. id \in dir
      BY <1>2, NullAssumption DEF TornInv, FilesInDirs
    <3>3. chunk' = [chunk EXCEPT ![id][i] = <<i, puts[r].data>>] /\ puts[r].data \in Versions
      BY <2>2, <3>1, <3>2 DEF WriteChunk, TypeOK, PutsOK, PutLocals
    <3>4. chunk'[id][i] = <<i, puts[r].data>>
      BY <3>3 DEF TypeOK, DiskOK
    <3> QED
      BY <3>3, <3>4, NullAssumption DEF Piece
  <2> QED
    BY <2>1, <2>2, WriterStays
<1>3. chunk'[id][i] # None /\ \A v \in Versions : chunk'[id][i] # <<i, v>>
  BY NullAssumption DEF Piece
<1> QED
  BY <1>1, <1>2, <1>3, ChunkStep DEF ChunkMoves

\* Without unseen disk errors, an empty chunk file is that of a request between
\* open and write, or of one that a restart cut off there.
THEOREM TornAlwaysInFlight == Spec => []TornIsInFlight
<1>1. Init => TornInv
  BY NullAssumption DEF Init, TornInv, FilesInDirs, TornIsInFlight
<1>2. TypeOK /\ TornInv /\ [Next]_vars => TornInv'
  BY FilesInDirsStep, TornStep DEF TornInv
<1>3. TornInv => TornIsInFlight
  BY DEF TornInv
<1> QED
  BY <1>1, <1>2, <1>3, TypeCorrect, PTL DEF Spec

-----------------------------------------------------------------------------
(* Wrong objects.  A merged file belongs to the complete that created it.    *)
(* As long as no other complete has the same upload, the file holds what its *)
(* owner has read, and it is stored under the hash of that.                  *)

Owns(q, f) == f = <<q, "merged">> /\ merges[q].out = f

Alone(q) == \A r \in Merges : r # q /\ merges[r].pc # "idle" => merges[r].id # merges[q].id

Untouched ==
  \A r \in Merges : merges[r].pc \in {"idle", "open"} => merges[r].out = None /\ merges[r].read = <<>>

OutsOwned ==
  \A r \in Merges : merges[r].out # None =>
    \E q \in Merges : Owns(q, merges[r].out) /\ merges[q].id = merges[r].id

MergedOwned ==
  \A id \in UploadIds : merged[id] # None =>
    \E q \in Merges : Owns(q, merged[id]) /\ merges[q].id = id

ObjectsOwned ==
  \A o \in object : \E q \in Merges :
    /\ Owns(q, o.inode)
    /\ Alone(q) => o.key = Key(q) /\ merges[q].pc # "merge"

ContentRead ==
  \A q \in Merges : Owns(q, <<q, "merged">>) /\ Alone(q) =>
                      content[<<q, "merged">>] = merges[q].read

NoCopy == \A r \in Merges : merges[r].pc # "copy"

OwnInv == Untouched /\ OutsOwned /\ MergedOwned /\ ObjectsOwned /\ ContentRead /\ NoCopy

\* Writing where the file ends appends to it.
LEMMA WriteAtEnd ==
  ASSUME NEW S, Hole \in S, NEW s \in Seq(S), NEW b \in S
  PROVE  WriteAt(s, Len(s), b) = Append(s, b)
<1> DEFINE w == WriteAt(s, Len(s), b)
           n == Len(s) + 1
<1>1. Len(s) \in Nat
  OBVIOUS
<1>2. w = [k \in 1 .. n |-> IF k = n THEN b ELSE IF k <= Len(s) THEN s[k] ELSE Hole]
  BY <1>1 DEF WriteAt
<1>3. w \in Seq(S)
  BY <1>1, WriteAtType
<1>4. Len(w) = n
  <2>1. DOMAIN w = 1 .. n /\ n \in Nat
    BY <1>1, <1>2
  <2> HIDE DEF w, n
  <2> QED
    BY <1>3, <2>1, LenProperties
<1>5. \A k \in 1 .. n : w[k] = Append(s, b)[k]
  <2>1. \A k \in 1 .. Len(s) : w[k] = s[k] /\ Append(s, b)[k] = s[k]
    BY <1>1, <1>2, AppendProperties
  <2>2. w[n] = b /\ Append(s, b)[n] = b
    BY <1>1, <1>2, AppendProperties
  <2>3. \A k \in 1 .. n : k = n \/ k \in 1 .. Len(s)
    BY <1>1
  <2> HIDE DEF w, n
  <2> QED
    BY <2>1, <2>2, <2>3
<1>6. Append(s, b) \in Seq(S) /\ Len(Append(s, b)) = n
  BY AppendProperties
<1> HIDE DEF w, n
<1> QED
  BY <1>3, <1>4, <1>5, <1>6, SeqEqual DEF w

\* Steps in which no complete gets an id, opens the merged file or reads.
QuietMerges ==
  \A r \in Merges :
    /\ merges'[r].id = merges[r].id /\ merges'[r].out = merges[r].out
    /\ merges'[r].read = merges[r].read
    /\ merges'[r].pc = merges[r].pc \/ merges'[r].pc \notin {"idle", "open", "merge", "copy"}

LEMMA QuietFacts ==
  ASSUME QuietMerges
  PROVE  \A q \in Merges : /\ \A f : Owns(q, f)' <=> Owns(q, f)
                           /\ Alone(q)' => Alone(q)
                           /\ Key(q)' = Key(q)
  BY DEF QuietMerges, Owns, Alone, Key

LEMMA OwnQuiet ==
  ASSUME OwnInv, QuietMerges, UNCHANGED content,
         \A id \in UploadIds : merged'[id] = merged[id] \/ merged'[id] = None,
         ObjectsOwned'
  PROVE  OwnInv'
<1>1. Untouched' /\ NoCopy'
  BY DEF OwnInv, Untouched, NoCopy, QuietMerges
<1>2. OutsOwned'
  BY QuietFacts DEF OwnInv, OutsOwned, QuietMerges
<1>3. MergedOwned'
  BY QuietFacts DEF OwnInv, MergedOwned, QuietMerges
<1>4. ContentRead'
  BY QuietFacts DEF OwnInv, ContentRead, QuietMerges
<1> QED
  BY <1>1, <1>2, <1>3, <1>4 DEF OwnInv

LEMMA ObjectsQuiet ==
  ASSUME OwnInv, QuietMerges, UNCHANGED object
  PROVE  ObjectsOwned'
<1> SUFFICES ASSUME NEW o \in object
             PROVE  \E q \in Merges : /\ Owns(q, o.inode)'
                                      /\ Alone(q)' => o.key = Key(q)' /\ merges'[q].pc # "merge"
  BY DEF ObjectsOwned
<1>1. PICK q \in Merges : /\ Owns(q, o.inode)
                          /\ Alone(q) => o.key = Key(q) /\ merges[q].pc # "merge"
  BY DEF OwnInv, ObjectsOwned
<1> QED
  BY <1>1, QuietFacts DEF QuietMerges

\* One complete takes a step; the others keep what they own, and alone after it
\* means alone before it.
LEMMA OneMoves ==
  ASSUME NEW r \in Merges, \A q \in Merges : q # r => merges'[q] = merges[q],
         merges'[r].pc # "idle",
         merges[r].pc = "idle" \/ merges'[r].id = merges[r].id
  PROVE  \A q \in Merges : q # r => /\ \A f : Owns(q, f)' <=> Owns(q, f)
                                    /\ Alone(q)' => Alone(q)
                                    /\ Key(q)' = Key(q)
  BY DEF Owns, Alone, Key

LEMMA SelectOwn ==
  ASSUME TypeOK, OwnInv, NEW r \in Merges, NEW u \in Users, NEW x \in UploadIds,
         SelectForMerge(r, u, x)
  PROVE  OwnInv'
<1>1. /\ merges[r].pc = "idle" /\ merges'[r].pc = "open"
      /\ merges'[r].out = merges[r].out /\ merges'[r].read = merges[r].read
      /\ \A q \in Merges : q # r => merges'[q] = merges[q]
      /\ UNCHANGED <<merged, content, object>>
  BY DEF SelectForMerge, TypeOK, MergesOK, MergeReq, disk
<1>2. merges[r].out = None /\ merges[r].read = <<>> /\ \A q \in Merges : <<q, "merged">> # None
  BY <1>1, NullAssumption DEF OwnInv, Untouched
<1>3. \A q \in Merges : q # r => /\ \A f : Owns(q, f)' <=> Owns(q, f)
                                 /\ Alone(q)' => Alone(q)
                                 /\ Key(q)' = Key(q)
  BY <1>1, OneMoves
<1>4. \A f : ~Owns(r, f) /\ ~Owns(r, f)'
  BY <1>1, <1>2 DEF Owns
<1>5. Untouched' /\ NoCopy'
  BY <1>1, <1>2 DEF OwnInv, Untouched, NoCopy
<1>6. OutsOwned'
  BY <1>1, <1>2, <1>3, <1>4 DEF OwnInv, OutsOwned
<1>7. MergedOwned'
  BY <1>1, <1>3, <1>4 DEF OwnInv, MergedOwned
<1>8. ObjectsOwned'
  BY <1>1, <1>3, <1>4 DEF OwnInv, ObjectsOwned
<1>9. ContentRead'
  BY <1>1, <1>3, <1>4 DEF OwnInv, ContentRead
<1> QED
  BY <1>5, <1>6, <1>7, <1>8, <1>9 DEF OwnInv

LEMMA OpenOwn ==
  ASSUME TypeOK, OwnInv, NEW r \in Merges, OpenMerged(r), merges[r].id \in dir
  PROVE  OwnInv'
<1> DEFINE f == IF merged[merges[r].id] = None THEN <<r, "merged">> ELSE merged[merges[r].id]
<1>1. PICK x \in UploadIds : x = merges[r].id
  BY MergeAtWork DEF OpenMerged, TypeOK, Running, Answered
<1>2. /\ merges[r].pc = "open" /\ merges' = [merges EXCEPT ![r].pc = "merge", ![r].out = f]
      /\ merged' = [merged EXCEPT ![x] = f] /\ content' = [content EXCEPT ![f] = <<>>]
      /\ UNCHANGED object
  BY <1>1 DEF OpenMerged
<1>3. merges[r].out = None /\ merges[r].read = <<>> /\ \A q \in Merges : <<q, "merged">> # None
  BY <1>2, NullAssumption DEF OwnInv, Untouched
<1>4. PICK o \in Merges : /\ f = <<o, "merged">>
                          /\ o # r => Owns(o, f) /\ merges[o].id = x
  <2>1. CASE merged[x] = None
    BY <1>1, <2>1
  <2>2. CASE merged[x] # None
    BY <1>1, <2>2 DEF OwnInv, MergedOwned, Owns
  <2> QED
    BY <2>1, <2>2
<1>5. f \in Inode
  BY <1>4 DEF Inode
<1> HIDE DEF f
<1>6. /\ merges'[r].pc = "merge" /\ merges'[r].out = f
      /\ merges'[r].id = x /\ merges'[r].read = <<>>
      /\ \A q \in Merges : q # r => merges'[q] = merges[q]
  BY <1>1, <1>2, <1>3 DEF TypeOK, MergesOK, MergeReq
<1>7. \A q \in Merges : q # r => /\ \A g : Owns(q, g)' <=> Owns(q, g)
                                 /\ Alone(q)' => Alone(q)
                                 /\ Key(q)' = Key(q)
  BY <1>1, <1>6, OneMoves
<1>8. /\ \A g : ~Owns(r, g)
      /\ Owns(o, <<o, "merged">>)' /\ merges'[o].id = x /\ merges'[r].out = <<o, "merged">>
      /\ o # r => ~Alone(o)'
  <2>1. \A g : ~Owns(r, g)
    BY <1>3 DEF Owns
  <2>2. merges'[o].out = <<o, "merged">> /\ merges'[o].id = x
    BY <1>4, <1>6 DEF Owns
  <2>3. o # r => ~Alone(o)'
    BY <1>6, <2>2 DEF Alone
  <2> QED
    BY <1>4, <1>6, <2>1, <2>2, <2>3 DEF Owns
<1>9. Untouched' /\ NoCopy'
  BY <1>6 DEF OwnInv, Untouched, NoCopy
<1>10. OutsOwned'
  <2> SUFFICES ASSUME NEW q \in Merges, merges'[q].out # None
               PROVE  \E p \in Merges : /\ merges'[q].out = <<p, "merged">>
                                        /\ merges'[p].out = merges'[q].out
                                        /\ merges'[p].id = merges'[q].id
    BY DEF OutsOwned, Owns
  <2>1. CASE q = r
    <3>1. /\ merges'[q].out = <<o, "merged">> /\ merges'[o].out = <<o, "merged">>
          /\ merges'[o].id = merges'[q].id
      BY <1>6, <1>8, <2>1 DEF Owns
    <3> QED
      BY <3>1
  <2>2. CASE q # r
    <3>1. PICK p \in Merges : Owns(p, merges[q].out) /\ merges[p].id = merges[q].id
      BY <1>6, <2>2 DEF OwnInv, OutsOwned
    <3>2. p # r /\ merges[q].out = <<p, "merged">>
      BY <1>8, <3>1 DEF Owns
    <3> QED
      BY <1>6, <2>2, <3>1, <3>2 DEF Owns
  <2> QED
    BY <2>1, <2>2
<1>11. MergedOwned'
  <2>1. merged'[x] = f /\ \A id \in UploadIds : id # x => merged'[id] = merged[id]
    BY <1>2 DEF TypeOK, DiskOK
  <2> SUFFICES ASSUME NEW id \in UploadIds, merged'[id] # None
               PROVE  \E p \in Merges : /\ merged'[id] = <<p, "merged">>
                                        /\ Owns(p, <<p, "merged">>)' /\ merges'[p].id = id
    BY DEF MergedOwned, Owns
  <2>2. CASE id = x
    BY <1>4, <1>8, <2>1, <2>2
  <2>3. CASE id # x
    <3>1. PICK p \in Merges : Owns(p, merged[id]) /\ merges[p].id = id
      BY <2>1, <2>3 DEF OwnInv, MergedOwned
    <3>2. p # r /\ merged[id] = <<p, "merged">>
      BY <1>8, <3>1 DEF Owns
    <3> QED
      BY <1>6, <1>7, <2>1, <2>3, <3>1, <3>2
  <2> QED
    BY <2>2, <2>3
<1>12. ObjectsOwned'
  <2> SUFFICES ASSUME NEW b \in object
               PROVE  \E q \in Merges : /\ Owns(q, b.inode)'
                                        /\ Alone(q)' => b.key = Key(q)' /\ merges'[q].pc # "merge"
    BY <1>2 DEF ObjectsOwned
  <2>1. PICK q \in Merges : /\ Owns(q, b.inode)
                            /\ Alone(q) => b.key = Key(q) /\ merges[q].pc # "merge"
    BY DEF OwnInv, ObjectsOwned
  <2>2. q # r
    BY <1>8, <2>1
  <2> QED
    BY <1>6, <1>7, <2>1, <2>2
<1>13. ContentRead'
  <2>1. content'[f] = <<>> /\ \A g \in Inode : g # f => content'[g] = content[g]
    BY <1>2, <1>5 DEF TypeOK, DiskOK
  <2> SUFFICES ASSUME NEW q \in Merges, Owns(q, <<q, "merged">>)', Alone(q)'
               PROVE  content'[<<q, "merged">>] = merges'[q].read
    BY DEF ContentRead
  <2>2. CASE q = r
    BY <1>6, <2>1, <2>2 DEF Owns
  <2>3. CASE q # r
    <3>1. <<q, "merged">> # f /\ <<q, "merged">> \in Inode
      BY <1>4, <1>8, <2>3 DEF Inode
    <3> QED
      BY <1>6, <1>7, <2>1, <2>3, <3>1 DEF OwnInv, ContentRead
  <2> QED
    BY <2>2, <2>3
<1> QED
  BY <1>9, <1>10, <1>11, <1>12, <1>13 DEF OwnInv

LEMMA ReadOwn ==
  ASSUME TypeOK, OwnInv, NEW r \in Merges, MergeChunk(r)
  PROVE  OwnInv'
<1>1. /\ merges[r].pc = "merge" /\ merges'[r].pc \in {"merge", "move", "failed"}
      /\ merges'[r].id = merges[r].id /\ merges'[r].out = merges[r].out
      /\ \A q \in Merges : q # r => merges'[q] = merges[q]
      /\ UNCHANGED <<merged, object>>
  BY MergeTurn DEF MergeChunk
<1>2. merges[r].out \in Inode /\ merges[r].out # None /\ merges[r].read \in Seq(Piece)
  BY <1>1, NullAssumption DEF TypeOK, MergesOK, MergeLocals, MergeReq, Inode
<1>3. PICK o \in Merges : Owns(o, merges[r].out) /\ merges[o].id = merges[r].id
  BY <1>2 DEF OwnInv, OutsOwned
<1>4. \A q \in Merges : q # r => /\ \A f : Owns(q, f)' <=> Owns(q, f)
                                 /\ Alone(q)' => Alone(q)
                                 /\ Key(q)' = Key(q)
  BY <1>1, OneMoves
<1>5. /\ \A f : Owns(r, f)' <=> Owns(r, f)
      /\ Alone(r)' => Alone(r)
      /\ o # r => ~Alone(o)
  BY <1>1, <1>3 DEF Owns, Alone
<1>6. Untouched' /\ NoCopy'
  BY <1>1 DEF OwnInv, Untouched, NoCopy
<1>7. OutsOwned'
  BY <1>1, <1>4, <1>5 DEF OwnInv, OutsOwned
<1>8. MergedOwned'
  BY <1>1, <1>4, <1>5 DEF OwnInv, MergedOwned
<1>9. ObjectsOwned'
  <2> SUFFICES ASSUME NEW b \in object
               PROVE  \E q \in Merges : /\ Owns(q, b.inode)'
                                        /\ Alone(q)' => b.key = Key(q)' /\ merges'[q].pc # "merge"
    BY <1>1 DEF ObjectsOwned
  <2>1. PICK q \in Merges : /\ Owns(q, b.inode)
                            /\ Alone(q) => b.key = Key(q) /\ merges[q].pc # "merge"
    BY DEF OwnInv, ObjectsOwned
  <2>2. CASE q = r
    BY <1>1, <1>5, <2>1, <2>2
  <2>3. CASE q # r
    BY <1>1, <1>4, <2>1, <2>3
  <2> QED
    BY <2>2, <2>3
<1>10. ContentRead'
  <2> SUFFICES ASSUME NEW q \in Merges, Owns(q, <<q, "merged">>), Alone(q)
               PROVE  content'[<<q, "merged">>] = merges'[q].read
    BY <1>4, <1>5 DEF ContentRead
  <2>1. content[<<q, "merged">>] = merges[q].read /\ <<q, "merged">> \in Inode
    BY DEF OwnInv, ContentRead, Inode
  <2>2. CASE q = r
    <3>1. merges[r].out = <<q, "merged">>
      BY <2>2 DEF Owns
    <3>2. CASE merges'[r].read = merges[r].read /\ UNCHANGED content
      BY <2>1, <2>2, <3>2
    <3>3. CASE /\ Piece1(r) \in Piece /\ merges'[r].read = Append(merges[r].read, Piece1(r))
               /\ content' = [content EXCEPT ![merges[r].out] =
                                WriteAt(@, Len(merges[r].read), Piece1(r))]
      <4> DEFINE s == merges[r].read
                 b == Piece1(r)
                 S == Piece \cup {Hole}
      <4>1. content'[<<q, "merged">>] = WriteAt(s, Len(s), b)
        BY <2>1, <2>2, <3>1, <3>3 DEF TypeOK, DiskOK
      <4>2. Hole \in S /\ s \in Seq(S) /\ b \in S
        BY <1>2, <3>3
      <4>3. WriteAt(s, Len(s), b) = Append(s, b)
        <5> HIDE DEF s, b, S
        <5> QED
          BY <4>2, WriteAtEnd
      <4> QED
        BY <2>2, <3>3, <4>1, <4>3
    <3> QED
      BY <3>2, <3>3, MergeTurn
  <2>3. CASE q # r
    <3>1. <<q, "merged">> # merges[r].out
      BY <1>3, <1>5, <2>3 DEF Owns
    <3>2. content'[<<q, "merged">>] = content[<<q, "merged">>]
      <4>1. CASE UNCHANGED content
        BY <4>1
      <4>2. CASE content' = [content EXCEPT ![merges[r].out] =
                               WriteAt(@, Len(merges[r].read), Piece1(r))]
        BY <2>1, <3>1, <4>2 DEF TypeOK, DiskOK
      <4> QED
        BY <4>1, <4>2, MergeTurn
    <3> QED
      BY <1>1, <2>1, <2>3, <3>2
  <2> QED
    BY <2>2, <2>3
<1> QED
  BY <1>6, <1>7, <1>8, <1>9, <1>10 DEF OwnInv

\* A step that only takes one request to another statement.
LEMMA PcQuiet ==
  ASSUME TypeOK, NEW r \in Merges, NEW p, merges' = [merges EXCEPT ![r].pc = p],
         p \notin {"idle", "open", "merge", "copy"}
  PROVE  QuietMerges
  BY PcKeeps DEF QuietMerges

LEMMA MoveOwn ==
  ASSUME TypeOK, OwnInv, NEW r \in Merges, MoveMerged(r)
  PROVE  OwnInv'
<1>1. QuietMerges /\ merges'[r].pc = "register" /\ UNCHANGED content
  <2>1. merges' = [merges EXCEPT ![r].pc = "register"] /\ UNCHANGED content
    BY DEF MoveMerged
  <2>2. merges'[r].pc = "register"
    BY <2>1, PcKeeps
  <2>3. QuietMerges
    BY <2>1, PcKeeps DEF QuietMerges
  <2> QED
    BY <2>1, <2>2, <2>3
<1>2. PICK x \in UploadIds : x = merges[r].id /\ merges[r].pc = "move"
  BY MergeAtWork DEF MoveMerged, TypeOK, Running, Answered
<1>3. /\ merged[x] # None /\ object' = Bind(Key(r), merged[x])
      /\ \A id \in UploadIds : merged'[id] = merged[id] \/ merged'[id] = None
  BY <1>2 DEF MoveMerged, TypeOK, DiskOK
<1>4. PICK o \in Merges : Owns(o, merged[x]) /\ merges[o].id = x
  BY <1>3 DEF OwnInv, MergedOwned
<1>5. ObjectsOwned'
  <2> DEFINE new == [key |-> Key(r), inode |-> <<o, "merged">>]
  <2> SUFFICES ASSUME NEW b \in object'
               PROVE  \E q \in Merges : /\ Owns(q, b.inode)'
                                        /\ Alone(q)' => b.key = Key(q)' /\ merges'[q].pc # "merge"
    BY DEF ObjectsOwned
  <2>1. b \in object \/ b = new
    BY <1>3, <1>4 DEF Bind, Owns
  <2>2. CASE b \in object
    <3>1. PICK q \in Merges : /\ Owns(q, b.inode)
                              /\ Alone(q) => b.key = Key(q) /\ merges[q].pc # "merge"
      BY <2>2 DEF OwnInv, ObjectsOwned
    <3> QED
      BY <1>1, <3>1, QuietFacts DEF QuietMerges
  <2>3. CASE b = new
    <3>1. b.inode = <<o, "merged">> /\ b.key = Key(r) /\ Owns(o, <<o, "merged">>)
      BY <1>4, <2>3 DEF Owns
    <3>2. Owns(o, b.inode)'
      BY <1>1, <3>1, QuietFacts DEF Owns
    <3>3. CASE o = r
      BY <1>1, <3>1, <3>2, <3>3, QuietFacts
    <3>4. CASE o # r
      <4>1. ~Alone(o)
        BY <1>2, <1>4, <3>4 DEF Alone
      <4> QED
        BY <1>1, <3>2, <4>1, QuietFacts
    <3> QED
      BY <3>3, <3>4
  <2> QED
    BY <2>1, <2>2, <2>3
<1> QED
  BY <1>1, <1>3, <1>5, OwnQuiet

LEMMA OwnStep ==
  ASSUME RenameWorks, TypeOK, OwnInv, [Next]_vars
  PROVE  OwnInv'
<1>1. ASSUME QuietMerges, UNCHANGED <<content, object>>,
             \A id \in UploadIds : merged'[id] = merged[id] \/ merged'[id] = None
      PROVE  OwnInv'
  BY <1>1, OwnQuiet, ObjectsQuiet
<1>2. ASSUME UNCHANGED merges PROVE QuietMerges
  BY <1>2 DEF QuietMerges
<1>3. ASSUME NEW x \in UploadIds, RemoveDir(x)
      PROVE  \A id \in UploadIds : merged'[id] = merged[id] \/ merged'[id] = None
  BY <1>3 DEF RemoveDir, TypeOK, DiskOK
<1>4. ASSUME NEW r \in Inits, UploadInit(r) PROVE OwnInv'
  BY <1>1, <1>2, <1>3, <1>4 DEF UploadInit, SelectStale, RemoveStale, DeleteStale, MakeDir,
                                InsertSession, InitFault, CleanupFault, disk
<1>5. ASSUME NEW r \in Chunks, UploadChunk(r) PROVE OwnInv'
  <2>1. UNCHANGED <<merges, content, object, merged>>
    BY <1>5 DEF UploadChunk, SelectForChunk, OpenChunk, WriteChunk, ScanChunks,
                UpdateReceived, ChunkFault, disk
  <2> QED
    BY <1>1, <1>2, <2>1
<1>6. ASSUME NEW r \in Merges, UploadComplete(r) PROVE OwnInv'
  <2>1. CASE OpenMerged(r) /\ merges[r].id \notin dir
    BY <1>1, <2>1, PcQuiet DEF OpenMerged
  <2>2. CASE MergedGone(r) \/ MergeFault(r)
    BY <1>1, <2>2, PcQuiet DEF MergedGone, MergeFault, disk
  <2>3. CASE RegisterFile(r) \/ PublishFile(r) \/ MarkDone(r)
    BY <1>1, <2>3, PcQuiet DEF RegisterFile, PublishFile, MarkDone, disk
  <2>4. CASE RemoveTmp(r)
    <3>1. merges[r].id \in UploadIds
      BY <2>4, MergeAtWork DEF RemoveTmp, TypeOK, Running, Answered
    <3>2. \A id \in UploadIds : merged'[id] = merged[id] \/ merged'[id] = None
      BY <1>3, <2>4, <3>1 DEF RemoveTmp
    <3>3. merges' = [merges EXCEPT ![r].pc = "ok"] /\ UNCHANGED <<content, object>>
      BY <2>4 DEF RemoveTmp
    <3>4. QuietMerges
      BY <3>3, PcKeeps DEF QuietMerges
    <3> QED
      BY <1>1, <3>2, <3>3, <3>4
  <2>5. ~OpenObject(r) /\ ~CopyObject(r) /\ ~CopyFault(r)
    BY DEF OpenObject, CopyObject, CopyFault, OwnInv, NoCopy
  <2> QED
    BY <1>6, <2>1, <2>2, <2>3, <2>4, <2>5, SelectOwn, OpenOwn, ReadOwn, MoveOwn
       DEF UploadComplete
<1>7. CASE Crash
  <2>1. QuietMerges
    BY <1>7 DEF Crash, Lost, Running, Answered, QuietMerges, TypeOK, MergesOK, MergeReq
  <2> QED
    BY <1>1, <1>7, <2>1 DEF Crash, disk
<1>8. CASE Tick \/ UNCHANGED vars
  BY <1>1, <1>2, <1>8 DEF Tick, vars, disk
<1> QED
  BY <1>4, <1>5, <1>6, <1>7, <1>8 DEF Next

\* Where rename works, an object whose bytes are not what its key says takes two
\* completes of one upload, both past the check, one of which created the file.
THEOREM CorruptionAlwaysRaced == Spec => []CorruptionNeedsRacingCompletes
<1>1. CASE ~RenameWorks
  <2>1. CorruptionNeedsRacingCompletes
    BY <1>1 DEF CorruptionNeedsRacingCompletes
  <2> QED
    BY <2>1, PTL
<1>2. CASE RenameWorks
  <2>1. Init => OwnInv
    BY NullAssumption DEF Init, OwnInv, Untouched, OutsOwned, MergedOwned, ObjectsOwned,
                          ContentRead, NoCopy, Owns
  <2>2. TypeOK /\ OwnInv /\ [Next]_vars => OwnInv'
    BY <1>2, OwnStep
  <2>3. OwnInv => CorruptionNeedsRacingCompletes
    <3> SUFFICES ASSUME OwnInv, NEW b \in object, Sha256(content[b.inode]) # b.key
                 PROVE  \E q, r \in Merges : /\ q # r /\ merges[q].id = merges[r].id
                                             /\ merges[q].out = b.inode
      BY DEF CorruptionNeedsRacingCompletes
    <3>1. PICK q \in Merges : Owns(q, b.inode) /\ (Alone(q) => b.key = Key(q))
      BY DEF OwnInv, ObjectsOwned
    <3>2. Alone(q) => content[b.inode] = merges[q].read
      BY <3>1 DEF OwnInv, ContentRead, Owns
    <3>3. ~Alone(q)
      BY <3>1, <3>2 DEF Key
    <3> QED
      BY <3>1, <3>3 DEF Alone, Owns
  <2> QED
    BY <2>1, <2>2, <2>3, TypeCorrect, PTL DEF Spec
<1> QED
  BY <1>1, <1>2
============================================================================
