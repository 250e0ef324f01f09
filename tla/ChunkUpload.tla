---------------------------- MODULE ChunkUpload ----------------------------
(***************************************************************************)
(* Resumable upload in the file service: the handlers UploadInit,          *)
(* UploadChunk and UploadComplete of FileServiceImpl, and LocalStorage's   *)
(* putFromFile, which UploadComplete calls.                                *)
(*                                                                         *)
(* The service has no lock of its own: any number of RPC threads run these *)
(* handlers at once, and what they share is one MySQL database and one     *)
(* directory tree.  So one action is one SQL statement (each is its own    *)
(* transaction) or one file-system call, and a request carries its         *)
(* handler's local variables from one to the next.                         *)
(*                                                                         *)
(* The file system keeps two levels apart, because the code depends on the *)
(* difference: a PATH is bound to an INODE, an open stream holds an inode. *)
(* rename and rm change paths; a stream opened before still writes to its  *)
(* inode, wherever that inode has gone meanwhile.                          *)
(*                                                                         *)
(* Abstractions.  A chunk's bytes are one Piece, its index and the version *)
(* of the payload; file offsets count pieces.  rm -rf of one upload's      *)
(* directory is one step.  A request that is refused before it changes     *)
(* anything is a stuttering step, so it is not an action.  A ticket of the *)
(* pools Inits, Chunks and Merges is used for one request and kept as its  *)
(* history; retries and duplicates are further tickets.                    *)
(***************************************************************************)
EXTENDS Integers, Sequences, FiniteSets

CONSTANTS
  Inits, Chunks, Merges,  \* requests to UploadInit, UploadChunk, UploadComplete
  Users,                  \* uid values
  UploadIds,              \* what crypto::random_hex(32) can return
  Versions,               \* payloads a client may send for one chunk index
  MaxChunks,              \* 10000 in the code
  TTL,                    \* INTERVAL 24 HOUR
  MaxNow, MaxCrashes,     \* bounds of the clock and of the restarts
  RenameWorks,            \* uploads/tmp and uploads/ are on one file system
  Faults,                 \* SQL exceptions and checked I/O errors happen
  SilentFaults,           \* I/O errors the code does not look at happen
  Monolith,               \* cleanup has a try block of its own (webdisk)
  None, Torn, Hole        \* no value; a truncated chunk file; unwritten bytes

ASSUME ChunksAssumption == MaxChunks \in Nat \ {0}
ASSUME ClockAssumption == TTL \in Nat /\ MaxNow \in Nat /\ MaxCrashes \in Nat
ASSUME SwitchAssumption == {RenameWorks, Faults, SilentFaults, Monolith} \subseteq BOOLEAN

Indices == 0 .. MaxChunks - 1
Piece == Indices \X Versions

\* A row of tbl_upload_session.
Row == [uid : Users, total : 1 .. MaxChunks, received : 0 .. MaxChunks,
        status : {0, 1}, created : 0 .. MaxNow]

ASSUME NullAssumption ==
  /\ None \notin UploadIds \cup Users \cup Row \cup Piece \cup (Merges \X {"merged", "object"})
  /\ Torn \notin Piece \cup {None}
  /\ Hole \notin Piece

\* The files the model creates: m's uploads/tmp/<id>/merged, and the copy that
\* putFromFile makes when rename fails.
Inode == Merges \X {"merged", "object"}

\* sha256: a different digest for every content.
Sha256(bytes) == [sha256 |-> bytes]
Digest == [sha256 : Seq(Piece)]

VARIABLES
  now,      \* the database's NOW(), in hours
  session,  \* tbl_upload_session: its row for each id, or None
  dir,      \* the ids whose directory uploads/tmp/<id> exists
  chunk,    \* chunk[id][i]: the file uploads/tmp/<id>/<i>
  merged,   \* merged[id]: the inode of uploads/tmp/<id>/merged
  content,  \* the bytes of each inode
  object,   \* the storage directory: each key with its inode
  files,    \* the rows UploadComplete put into tbl_file
  queue,    \* the messages published to backup.queue
  inits, puts, merges,  \* the locals of each request's handler
  crashes

tables == <<now, session, files, queue>>
disk   == <<dir, chunk, merged, content, object>>
vars   == <<tables, disk, inits, puts, merges, crashes>>

\* "by", the request, stands for the AUTO_INCREMENT id and for the filename.
FileRow == [by : Merges, uid : Users, upload : UploadIds, hash : Digest]
Message == [by : Merges, uid : Users, hash : Digest]

Answered == {"ok", "failed", "lost"}
InitPc  == {"idle", "rm", "purge", "mkdir", "insert"} \cup Answered
PutPc   == {"idle", "open", "write", "scan", "update"} \cup Answered
MergePc == {"idle", "open", "merge", "move", "copy", "register", "publish",
            "mark", "rm"} \cup Answered

InitReq  == [pc : InitPc, uid : Users \cup {None}, id : UploadIds \cup {None},
             stale : SUBSET UploadIds]
PutReq   == [pc : PutPc, id : UploadIds \cup {None}, idx : Indices \cup {None},
             data : Versions \cup {None}, total : 0 .. MaxChunks, count : 0 .. MaxChunks]
MergeReq == [pc : MergePc, uid : Users \cup {None}, id : UploadIds \cup {None},
             total : 0 .. MaxChunks, next : 0 .. MaxChunks, read : Seq(Piece),
             out : Inode \cup {None}, dst : Inode \cup {None}]

Running(req) == req.pc \notin Answered \cup {"idle"}

Init ==
  /\ now = 0 /\ crashes = 0
  /\ session = [id \in UploadIds |-> None]
  /\ dir = {}
  /\ chunk = [id \in UploadIds |-> [i \in Indices |-> None]]
  /\ merged = [id \in UploadIds |-> None]
  /\ content = [f \in Inode |-> <<>>]
  /\ object = {} /\ files = {} /\ queue = {}
  /\ inits = [r \in Inits |-> [pc |-> "idle", uid |-> None, id |-> None, stale |-> {}]]
  /\ puts = [r \in Chunks |-> [pc |-> "idle", id |-> None, idx |-> None, data |-> None,
                               total |-> 0, count |-> 0]]
  /\ merges = [r \in Merges |-> [pc |-> "idle", uid |-> None, id |-> None, total |-> 0,
                                 next |-> 0, read |-> <<>>, out |-> None, dst |-> None]]

-----------------------------------------------------------------------------
(* The file system. *)

\* The chunk files of an upload that std::ifstream can open.
Present(id) == {i \in Indices : chunk[id][i] # None}

\* Mutant of RemoveDir: rm -rf uploads/tmp/<id>/*.
RemoveContents(id) ==
  /\ dir' = dir
  /\ chunk' = [chunk EXCEPT ![id] = [i \in Indices |-> None]]
  /\ merged' = [merged EXCEPT ![id] = None]

\* rm -rf uploads/tmp/<id>: every path below it is unbound.
RemoveDir(id) ==
  /\ dir' = dir \ {id}
  /\ chunk' = [chunk EXCEPT ![id] = [i \in Indices |-> None]]
  /\ merged' = [merged EXCEPT ![id] = None]

\* Mutant of WriteAt: the stream does not keep its offset.
WriteAtStart(bytes, p, b) == <<b>> \o SubSeq(bytes, 2, Len(bytes))

\* write() at offset p: what lies between the end and p reads as zero bytes.
WriteAt(bytes, p, b) ==
  [k \in 1 .. (IF p + 1 > Len(bytes) THEN p + 1 ELSE Len(bytes)) |->
     IF k = p + 1 THEN b ELSE IF k <= Len(bytes) THEN bytes[k] ELSE Hole]

\* The storage directory after its entry for key is bound to inode f.
Bind(key, f) == {o \in object : o.key # key} \cup {[key |-> key, inode |-> f]}

-----------------------------------------------------------------------------
(* UploadInit. *)

\* Mutant of Stale: the cleanup forgets "AND status = 0".
StaleAnyStatus(id, u) ==
  session[id] # None /\ session[id].uid = u /\ session[id].created + TTL < now

\* The WHERE clause of the SELECT and of the DELETE, each with its own NOW().
Stale(id, u) ==
  /\ session[id] # None
  /\ session[id].uid = u
  /\ session[id].status = 0
  /\ session[id].created + TTL < now

SelectStale(r, u) ==
  /\ inits[r].pc = "idle"
  /\ LET stale == {id \in UploadIds : Stale(id, u)} IN
       inits' = [inits EXCEPT ![r].uid = u, ![r].stale = stale,
                              ![r].pc = IF stale = {} THEN "mkdir" ELSE "rm"]
  /\ UNCHANGED <<tables, disk, puts, merges, crashes>>

\* The loop over stale_ids; the status of std::system is not looked at.
RemoveStale(r, id) ==
  /\ inits[r].pc = "rm" /\ id \in inits[r].stale
  /\ inits' = [inits EXCEPT ![r].stale = @ \ {id},
                            ![r].pc = IF inits[r].stale = {id} THEN "purge" ELSE "rm"]
  /\ \/ RemoveDir(id)
     \/ SilentFaults /\ UNCHANGED <<dir, chunk, merged>>
  /\ UNCHANGED <<tables, content, object, puts, merges, crashes>>

DeleteStale(r) ==
  /\ inits[r].pc = "purge"
  /\ session' = [id \in UploadIds |-> IF Stale(id, inits[r].uid) THEN None ELSE session[id]]
  /\ inits' = [inits EXCEPT ![r].pc = "mkdir"]
  /\ UNCHANGED <<now, files, queue, disk, puts, merges, crashes>>

\* 256 random bits: an id no request has had before.
MakeDir(r, id) ==
  /\ inits[r].pc = "mkdir"
  /\ \A q \in Inits : inits[q].id # id
  /\ dir' = dir \cup {id}
  /\ inits' = [inits EXCEPT ![r].pc = "insert", ![r].id = id]
  /\ UNCHANGED <<tables, chunk, merged, content, object, puts, merges, crashes>>

InsertSession(r, n) ==
  /\ inits[r].pc = "insert"
  /\ session' = [session EXCEPT ![inits[r].id] =
                   [uid |-> inits[r].uid, total |-> n, received |-> 0,
                    status |-> 0, created |-> now]]
  /\ inits' = [inits EXCEPT ![r].pc = "ok"]
  /\ UNCHANGED <<now, files, queue, disk, puts, merges, crashes>>

\* An SQL exception, or mkdir fails.
InitFault(r) ==
  /\ Faults
  /\ inits[r].pc \in {"mkdir", "insert"} \cup (IF Monolith THEN {} ELSE {"purge"})
  /\ inits' = [inits EXCEPT ![r].pc = "failed"]
  /\ UNCHANGED <<tables, disk, puts, merges, crashes>>

\* The monolith's cleanup has a try block of its own: an SQL exception in the
\* SELECT or in the DELETE is logged, and the upload goes on.
CleanupFault(r, u) ==
  /\ Faults /\ Monolith
  /\ \/ inits[r].pc = "idle"
     \/ inits[r].pc = "purge" /\ inits[r].uid = u
  /\ inits' = [inits EXCEPT ![r].uid = u, ![r].pc = "mkdir"]
  /\ UNCHANGED <<tables, disk, puts, merges, crashes>>

-----------------------------------------------------------------------------
(* UploadChunk. *)

\* WHERE id = ? AND uid = ? AND status = 0, in UploadChunk and in UploadComplete.
Active(id, u) == session[id] # None /\ session[id].uid = u /\ session[id].status = 0

\* Mutant of SelectForChunk: chunk_index is not compared with total_chunks.
SelectForAnyIndex(r, u, id, i, v) ==
  /\ puts[r].pc = "idle"
  /\ Active(id, u)
  /\ puts' = [puts EXCEPT ![r] = [pc |-> "open", id |-> id, idx |-> i, data |-> v,
                                  total |-> session[id].total, count |-> 0]]
  /\ UNCHANGED <<tables, disk, inits, merges, crashes>>

\* The session SELECT, and the chunk_index check against its total_chunks.
SelectForChunk(r, u, id, i, v) ==
  /\ puts[r].pc = "idle"
  /\ Active(id, u)
  /\ i < session[id].total
  /\ puts' = [puts EXCEPT ![r] = [pc |-> "open", id |-> id, idx |-> i, data |-> v,
                                  total |-> session[id].total, count |-> 0]]
  /\ UNCHANGED <<tables, disk, inits, merges, crashes>>

\* std::ofstream truncates the chunk file, or creates it if the directory exists.
OpenChunk(r) ==
  /\ puts[r].pc = "open"
  /\ IF puts[r].id \in dir
     THEN /\ chunk' = [chunk EXCEPT ![puts[r].id][puts[r].idx] = Torn]
          /\ puts' = [puts EXCEPT ![r].pc = "write"]
     ELSE /\ puts' = [puts EXCEPT ![r].pc = "failed"]
          /\ UNCHANGED chunk
  /\ UNCHANGED <<tables, dir, merged, content, object, inits, merges, crashes>>

\* Mutant of WriteChunk: what was written is not flushed.
WriteNothing(r) ==
  /\ puts[r].pc = "write"
  /\ puts' = [puts EXCEPT ![r].pc = "scan"]
  /\ UNCHANGED <<tables, disk, inits, merges, crashes>>

\* ofs.write and the close, whose outcome is not looked at.  The path is gone if
\* the directory was removed meanwhile.
WriteChunk(r) ==
  /\ puts[r].pc = "write"
  /\ \/ /\ puts[r].id \in dir
        /\ chunk' = [chunk EXCEPT ![puts[r].id][puts[r].idx] = <<puts[r].idx, puts[r].data>>]
     \/ /\ puts[r].id \notin dir \/ SilentFaults
        /\ UNCHANGED chunk
  /\ puts' = [puts EXCEPT ![r].pc = "scan"]
  /\ UNCHANGED <<tables, dir, merged, content, object, inits, merges, crashes>>

\* The loop that opens every chunk file.  Files are added one by one and removed
\* all at once, so the count is that of some moment within the loop.
ScanChunks(r) ==
  /\ puts[r].pc = "scan"
  /\ puts' = [puts EXCEPT ![r].count = Cardinality(Present(puts[r].id) \cap (0 .. puts[r].total - 1)),
                          ![r].pc = "update"]
  /\ UNCHANGED <<tables, disk, inits, merges, crashes>>

\* Mutant of UpdateReceived: SET received_chunks = received_chunks + 1.
CountRequests(r) ==
  /\ puts[r].pc = "update"
  /\ session' = [session EXCEPT ![puts[r].id] =
                   IF @ = None THEN None ELSE [@ EXCEPT !.received = @ + 1]]
  /\ puts' = [puts EXCEPT ![r].pc = "ok"]
  /\ UNCHANGED <<now, files, queue, disk, inits, merges, crashes>>

\* UPDATE ... WHERE id = ?: no condition on the status, no row is no error.
UpdateReceived(r) ==
  /\ puts[r].pc = "update"
  /\ session' = [session EXCEPT ![puts[r].id] =
                   IF @ = None THEN None ELSE [@ EXCEPT !.received = puts[r].count]]
  /\ puts' = [puts EXCEPT ![r].pc = "ok"]
  /\ UNCHANGED <<now, files, queue, disk, inits, merges, crashes>>

\* The UPDATE throws: the chunk is on disk, the answer is an error.
ChunkFault(r) ==
  /\ Faults
  /\ puts[r].pc = "update"
  /\ puts' = [puts EXCEPT ![r].pc = "failed"]
  /\ UNCHANGED <<tables, disk, inits, merges, crashes>>

-----------------------------------------------------------------------------
(* UploadComplete. *)

\* Mutant of AllReceived: off by one.
AlmostAllReceived(id) == session[id].received + 1 >= session[id].total

\* Not "received_chunks < total_chunks".
AllReceived(id) == session[id].received >= session[id].total

SelectForMerge(r, u, id) ==
  /\ merges[r].pc = "idle"
  /\ Active(id, u)
  /\ AllReceived(id)
  /\ merges' = [merges EXCEPT ![r].pc = "open", ![r].uid = u, ![r].id = id,
                              ![r].total = session[id].total]
  /\ UNCHANGED <<tables, disk, inits, puts, crashes>>

\* std::ofstream out(tmp_merge): truncate the file at that path, or create it.
OpenMerged(r) ==
  LET id == merges[r].id
      f  == IF merged[id] = None THEN <<r, "merged">> ELSE merged[id]
  IN /\ merges[r].pc = "open"
     /\ IF id \in dir
        THEN /\ merged' = [merged EXCEPT ![id] = f]
             /\ content' = [content EXCEPT ![f] = <<>>]
             /\ merges' = [merges EXCEPT ![r].pc = "merge", ![r].out = f]
        ELSE /\ merges' = [merges EXCEPT ![r].pc = "failed"]
             /\ UNCHANGED <<merged, content>>
     /\ UNCHANGED <<tables, dir, chunk, object, inits, puts, crashes>>

\* Mutant of NextPiece: the parts are taken from the last to the first.
LastPiece(m) == chunk[m.id][m.total - 1 - m.next]

\* The chunk file that the merge loop opens in this turn.
NextPiece(m) == chunk[m.id][m.next]

\* One turn of the merge loop: the next chunk is hashed and appended through
\* the stream; an empty chunk file adds nothing.
MergeChunk(r) ==
  LET m     == merges[r]
      piece == NextPiece(m)
  IN /\ m.pc = "merge"
     /\ CASE piece = None ->
               /\ merges' = [merges EXCEPT ![r].pc = "failed"]
               /\ UNCHANGED content
          [] piece = Torn ->
               /\ merges' = [merges EXCEPT ![r].next = @ + 1,
                               ![r].pc = IF m.next + 1 = m.total THEN "move" ELSE "merge"]
               /\ UNCHANGED content
          [] OTHER ->
               /\ merges' = [merges EXCEPT ![r].next = @ + 1, ![r].read = Append(@, piece),
                               ![r].pc = IF m.next + 1 = m.total THEN "move" ELSE "merge"]
               /\ content' = [content EXCEPT ![m.out] = WriteAt(@, Len(m.read), piece)]
     /\ UNCHANGED <<tables, dir, chunk, merged, object, inits, puts, crashes>>

Key(r) == Sha256(merges[r].read)

\* putFromFile: std::rename binds the key to whatever file the path names now.
MoveMerged(r) ==
  /\ merges[r].pc = "move" /\ RenameWorks
  /\ merged[merges[r].id] # None
  /\ object' = Bind(Key(r), merged[merges[r].id])
  /\ merged' = [merged EXCEPT ![merges[r].id] = None]
  /\ merges' = [merges EXCEPT ![r].pc = "register"]
  /\ UNCHANGED <<tables, dir, chunk, content, inits, puts, crashes>>

\* Mutant of MergedGone: the answer of putFromFile is ignored.
MergedGoneIgnored(r) ==
  /\ merges[r].pc = "move" /\ merged[merges[r].id] = None
  /\ merges' = [merges EXCEPT ![r].pc = "register"]
  /\ UNCHANGED <<tables, disk, inits, puts, crashes>>

\* putFromFile: rename failed and the source cannot be opened either.
MergedGone(r) ==
  /\ merges[r].pc = "move"
  /\ merged[merges[r].id] = None
  /\ merges' = [merges EXCEPT ![r].pc = "failed"]
  /\ UNCHANGED <<tables, disk, inits, puts, crashes>>

\* putFromFile across file systems: both streams are opened, which truncates the
\* object if the key is stored already.
OpenObject(r) ==
  LET bound == {o \in object : o.key = Key(r)}
      f     == IF bound = {} THEN <<r, "object">> ELSE (CHOOSE o \in bound : TRUE).inode
  IN /\ merges[r].pc = "move" /\ ~RenameWorks
     /\ merged[merges[r].id] # None
     /\ object' = Bind(Key(r), f)
     /\ content' = [content EXCEPT ![f] = <<>>]
     /\ merges' = [merges EXCEPT ![r].pc = "copy", ![r].out = merged[merges[r].id], ![r].dst = f]
     /\ UNCHANGED <<tables, dir, chunk, merged, inits, puts, crashes>>

\* The object's bytes once k pieces are copied over what it holds.
Copied(r, k) ==
  LET src == content[merges[r].out]
      dst == content[merges[r].dst]
  IN SubSeq(src, 1, k) \o SubSeq(dst, k + 1, Len(dst))

\* dst << src.rdbuf(), which fails when there is nothing to copy.  dst.good() is asked
\* before dst.close(), so that a flush may fail unseen.  The source path is removed in
\* either case.
CopyObject(r) ==
  LET src == content[merges[r].out] IN
    /\ merges[r].pc = "copy"
    /\ \E k \in 0 .. Len(src) :
         /\ k = Len(src) \/ SilentFaults
         /\ content' = [content EXCEPT ![merges[r].dst] = Copied(r, k)]
    /\ merged' = [merged EXCEPT ![merges[r].id] = None]
    /\ merges' = [merges EXCEPT ![r].pc = IF src = <<>> THEN "failed" ELSE "register"]
    /\ UNCHANGED <<tables, dir, chunk, object, inits, puts, crashes>>

\* The copy stops somewhere, so dst is not good; what was truncated stays truncated.
CopyFault(r) ==
  /\ Faults
  /\ merges[r].pc = "copy"
  /\ \E k \in 0 .. Len(content[merges[r].out]) :
       content' = [content EXCEPT ![merges[r].dst] = Copied(r, k)]
  /\ merged' = [merged EXCEPT ![merges[r].id] = None]
  /\ merges' = [merges EXCEPT ![r].pc = "failed"]
  /\ UNCHANGED <<tables, dir, chunk, object, inits, puts, crashes>>

RegisterFile(r) ==
  /\ merges[r].pc = "register"
  /\ files' = files \cup {[by |-> r, uid |-> merges[r].uid, upload |-> merges[r].id, hash |-> Key(r)]}
  /\ merges' = [merges EXCEPT ![r].pc = "publish"]
  /\ UNCHANGED <<now, session, queue, disk, inits, puts, crashes>>

\* Producer::publish answers false when the broker is away; nobody looks.
PublishFile(r) ==
  /\ merges[r].pc = "publish"
  /\ \/ queue' = queue \cup {[by |-> r, uid |-> merges[r].uid, hash |-> Key(r)]}
     \/ SilentFaults /\ UNCHANGED queue
  /\ merges' = [merges EXCEPT ![r].pc = "mark"]
  /\ UNCHANGED <<now, session, files, disk, inits, puts, crashes>>

\* Mutant of MarkDone: the session is closed before the file is registered.
MarkDoneEarly(r) ==
  /\ merges[r].pc = "register"
  /\ session' = [session EXCEPT ![merges[r].id] =
                   IF @ = None THEN None ELSE [@ EXCEPT !.status = 1]]
  /\ merges' = [merges EXCEPT ![r].pc = "rm"]
  /\ UNCHANGED <<now, files, queue, disk, inits, puts, crashes>>

MarkDone(r) ==
  /\ merges[r].pc = "mark"
  /\ session' = [session EXCEPT ![merges[r].id] =
                   IF @ = None THEN None ELSE [@ EXCEPT !.status = 1]]
  /\ merges' = [merges EXCEPT ![r].pc = "rm"]
  /\ UNCHANGED <<now, files, queue, disk, inits, puts, crashes>>

RemoveTmp(r) ==
  /\ merges[r].pc = "rm"
  /\ \/ RemoveDir(merges[r].id)
     \/ SilentFaults /\ UNCHANGED <<dir, chunk, merged>>
  /\ merges' = [merges EXCEPT ![r].pc = "ok"]
  /\ UNCHANGED <<tables, content, object, inits, puts, crashes>>

\* Mutant of MergeFault: a failed INSERT is logged and the handler goes on.
RegisterFaultIgnored(r) ==
  /\ Faults /\ merges[r].pc = "register"
  /\ merges' = [merges EXCEPT ![r].pc = "publish"]
  /\ UNCHANGED <<tables, disk, inits, puts, crashes>>

\* Mutant of MergeFault: a failed UPDATE is logged and the handler goes on.
MarkFaultIgnored(r) ==
  /\ Faults /\ merges[r].pc = "mark"
  /\ merges' = [merges EXCEPT ![r].pc = "rm"]
  /\ UNCHANGED <<tables, disk, inits, puts, crashes>>

\* An SQL exception; out cannot be opened or is not good after close; putFromFile
\* answers false.
MergeFault(r) ==
  /\ Faults
  /\ merges[r].pc \in {"open", "move", "register", "mark"}
  /\ merges' = [merges EXCEPT ![r].pc = "failed"]
  /\ UNCHANGED <<tables, disk, inits, puts, crashes>>

-----------------------------------------------------------------------------
Tick ==
  /\ now < MaxNow
  /\ now' = now + 1
  /\ UNCHANGED <<session, files, queue, disk, inits, puts, merges, crashes>>

\* The process dies and is started again: every handler is gone, files and tables
\* stay, and main() repairs nothing.
Lost(reqs) == [r \in DOMAIN reqs |->
                 IF Running(reqs[r]) THEN [reqs[r] EXCEPT !.pc = "lost"] ELSE reqs[r]]

Crash ==
  /\ crashes < MaxCrashes
  /\ crashes' = crashes + 1
  /\ inits' = Lost(inits) /\ puts' = Lost(puts) /\ merges' = Lost(merges)
  /\ UNCHANGED <<tables, disk>>

UploadInit(r) ==
  \/ \E u \in Users : SelectStale(r, u)
  \/ \E id \in UploadIds : RemoveStale(r, id)
  \/ DeleteStale(r)
  \/ \E id \in UploadIds : MakeDir(r, id)
  \/ \E n \in 1 .. MaxChunks : InsertSession(r, n)
  \/ InitFault(r)
  \/ \E u \in Users : CleanupFault(r, u)

UploadChunk(r) ==
  \/ \E u \in Users, id \in UploadIds, i \in Indices, v \in Versions :
       SelectForChunk(r, u, id, i, v)
  \/ OpenChunk(r)
  \/ WriteChunk(r)
  \/ ScanChunks(r)
  \/ UpdateReceived(r)
  \/ ChunkFault(r)

UploadComplete(r) ==
  \/ \E u \in Users, id \in UploadIds : SelectForMerge(r, u, id)
  \/ OpenMerged(r)
  \/ MergeChunk(r)
  \/ MoveMerged(r)
  \/ MergedGone(r)
  \/ OpenObject(r)
  \/ CopyObject(r)
  \/ CopyFault(r)
  \/ RegisterFile(r)
  \/ PublishFile(r)
  \/ MarkDone(r)
  \/ RemoveTmp(r)
  \/ MergeFault(r)

Next ==
  \/ \E r \in Inits : UploadInit(r)
  \/ \E r \in Chunks : UploadChunk(r)
  \/ \E r \in Merges : UploadComplete(r)
  \/ Tick
  \/ Crash

Spec == Init /\ [][Next]_vars

-----------------------------------------------------------------------------
(* What holds. *)

TablesOK ==
  /\ now \in 0 .. MaxNow
  /\ session \in [UploadIds -> Row \cup {None}]
  /\ files \subseteq FileRow
  /\ queue \subseteq Message

DiskOK ==
  /\ dir \subseteq UploadIds
  /\ chunk \in [UploadIds -> [Indices -> Piece \cup {None, Torn}]]
  /\ merged \in [UploadIds -> Inode \cup {None}]
  /\ content \in [Inode -> Seq(Piece \cup {Hole})]
  /\ object \subseteq [key : Digest, inode : Inode]

\* Which locals are set where: no statement runs on a value that was never read.
InitLocals(q) ==
  /\ q.pc \in {"rm", "purge", "mkdir", "insert"} => q.uid \in Users
  /\ q.pc \in {"insert", "ok"} => q.id \in UploadIds

PutLocals(q) ==
  q.pc \in {"open", "write", "scan", "update"} =>
    /\ q.id \in UploadIds /\ q.idx \in Indices /\ q.data \in Versions
    /\ q.idx < q.total

MergeLocals(q) ==
  /\ Running(q) => q.uid \in Users /\ q.id \in UploadIds /\ q.total > 0
  /\ q.pc \in {"idle", "open"} => q.next = 0
  /\ q.pc = "merge" => q.next < q.total /\ q.out \in Inode
  /\ q.pc = "copy" => q.out \in Inode /\ q.dst \in Inode

InitsOK  == inits \in [Inits -> InitReq] /\ \A r \in Inits : InitLocals(inits[r])
PutsOK   == puts \in [Chunks -> PutReq] /\ \A r \in Chunks : PutLocals(puts[r])
MergesOK == merges \in [Merges -> MergeReq] /\ \A r \in Merges : MergeLocals(merges[r])

\* The tables, the directory tree and the handlers' locals have their types.
TypeOK == TablesOK /\ DiskOK /\ InitsOK /\ PutsOK /\ MergesOK /\ crashes \in 0 .. MaxCrashes

Stored == {o.key : o \in object}

\* UploadComplete stores before it registers: whatever fails or races, a row of
\* tbl_file names a key that the storage has, so FileDownload can open it.
RowsHaveObjects == \A f \in files : f.hash \in Stored

\* UploadComplete registers before it publishes: the backup worker is never sent
\* a hash without a row, nor one it cannot open.
MessagesHaveRows ==
  \A m \in queue : \E f \in files : f.by = m.by /\ f.uid = m.uid /\ f.hash = m.hash

\* A session is marked done only after its file is registered: a session that
\* answers "not active" because it is done has not lost the user's upload.
DoneSessionsHaveRows ==
  \A id \in UploadIds :
    session[id] # None /\ session[id].status = 1 => \E f \in files : f.upload = id

\* received_chunks is written from a scan that may be old by then, and it is
\* overwritten, never added to.  It may lag behind the directory but does not run
\* ahead of it: as long as the directory is there, so many chunk files are too.
CountIsBacked ==
  \A id \in dir : session[id] # None => session[id].received <= Cardinality(Present(id))

\* The check of received_chunks suffices for the merge loop: "missing chunk" is
\* answered only when another request removed the directory after the check.
MergeFindsChunks ==
  \A r \in Merges :
    merges[r].pc \in {"open", "merge"} /\ merges[r].id \in dir =>
      0 .. merges[r].total - 1 \subseteq Present(merges[r].id)

\* A merge hashes each chunk at most once and in the order of the indices, even
\* when chunk files are rewritten or removed under it.
ReadsInOrder ==
  \A r \in Merges :
    LET read == merges[r].read IN
      \A j, k \in 1 .. Len(read) : j < k => read[j][1] < read[k][1]

\* When every write succeeds, a chunk file is empty only while its request is
\* between open and write, or if the process died there.
TornIsInFlight ==
  SilentFaults \/
  \A id \in UploadIds, i \in Indices :
    chunk[id][i] = Torn =>
      \E r \in Chunks : puts[r].id = id /\ puts[r].idx = i /\ puts[r].pc \in {"write", "lost"}

Inactive(id) == session[id] = None \/ session[id].status = 1

\* Another init of r's user is past its cleanup.  Unless rm fails unseen, it had found
\* the session of a third init to purge: only then does it delete at all, by a NOW()
\* of its own.
PurgedWith(r) ==
  \E q \in Inits \ {r} :
    /\ inits[q].uid = inits[r].uid /\ inits[q].pc \notin {"idle", "rm", "purge"}
    /\ SilentFaults \/ \E p \in Inits \ {q, r} :
         inits[p].uid = inits[r].uid /\ inits[p].pc = "ok" /\ Inactive(inits[p].id)

\* A directory without an active session, which no cleanup will ever find, is left only
\* by an UploadInit whose INSERT failed or never ran, by an UploadComplete cut off
\* between its last UPDATE and its rm (or whose rm failed), or by a cleanup whose
\* DELETE hit more than its SELECT had found (file_service_impl.cpp:307, 342, 596).
OrphansHaveCause ==
  \A id \in dir :
    Inactive(id) =>
      \/ \E r \in Inits : inits[r].id = id /\ inits[r].pc \in {"insert", "failed", "lost"}
      \/ /\ session[id] = None
         /\ \E r \in Inits : inits[r].id = id /\ PurgedWith(r)
      \/ /\ session[id] # None
         /\ \E r \in Merges :
              merges[r].id = id /\ merges[r].pc \in {"rm", "lost"} \cup (IF SilentFaults THEN {"ok"} ELSE {})

\* Where rename works, an object whose bytes are not what its key says takes two
\* UploadComplete requests of one upload that both passed the received_chunks
\* check, one of which created the file: the code has no other way to it.
CorruptionNeedsRacingCompletes ==
  RenameWorks =>
    \A o \in object :
      Sha256(content[o.inode]) # o.key =>
        \E q, r \in Merges : /\ q # r /\ merges[q].id = merges[r].id
                            /\ merges[q].out = o.inode

\* UploadComplete checks the session, registers and closes it in three statements, so
\* that a file can be registered twice.  But an upload that is registered already is
\* taken up again only while the earlier request stands between its INSERT and its
\* UPDATE, or after it failed or was cut off there: one that got past its UPDATE is
\* never followed by another, whatever chunk requests and cleanups do meanwhile.
RegisteredAgainHasCause ==
  [][\A r \in Merges :
       merges[r].pc = "idle" /\ merges'[r].pc # "idle" =>
         \A f \in files : f.upload = merges'[r].id =>
           merges[f.by].pc \in {"publish", "mark", "failed", "lost"}]_vars

\* What a client is told, as UploadLifecycle states it.
Begun(id) == \E r \in Inits : inits[r].id = id /\ inits[r].pc = "ok"
Phase(id) ==
  IF session[id] # None THEN IF session[id].status = 1 THEN "done" ELSE "open"
  ELSE IF Begun(id) THEN "expired" ELSE "none"

Lifecycle == INSTANCE UploadLifecycle WITH
  phase <- [id \in UploadIds |-> Phase(id)],
  registered <- {f.upload : f \in files}

\* The handlers together implement the lifecycle of an upload.
ImplementsLifecycle == Lifecycle!Spec
============================================================================
