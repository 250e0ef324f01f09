----------------------------- MODULE FileStore -----------------------------
(***************************************************************************)
(* Files of up to 10 MB: the handlers FileUpload, FileDownload, FileDelete *)
(* and FileRename of FileServiceImpl, over the table tbl_file and over     *)
(* LocalStorage's put and get.                                             *)
(*                                                                         *)
(* An object is named by the hash of its content, so uploads of equal      *)
(* content write the same bytes to the same path.  But put truncates that  *)
(* path and writes it again in place, with no lock, while other handlers   *)
(* and the backup worker read it.  One action is one SQL statement, one    *)
(* open, or the transfer of one block between a handler and the file.      *)
(*                                                                         *)
(* Abstractions.  All contents have Blocks blocks; a block of an object is *)
(* Good if it has the bytes its key stands for, Zero if it was never       *)
(* written since the last truncation.  A request that is refused before it *)
(* changes anything is a stuttering step.  A ticket of Uploads, which also *)
(* stands for its row's AUTO_INCREMENT id, is used for one request.        *)
(***************************************************************************)
EXTENDS Integers, Sequences, FiniteSets

CONSTANTS
  Uploads, Downloads,  \* requests to FileUpload, FileDownload
  Users, Names,        \* uid and filename values
  Keys,                \* SHA-256 values of the contents sent
  Blocks,              \* blocks in a content; an empty one is refused
  MaxCrashes,          \* bound of the service's restarts
  Faults,              \* SQL exceptions and checked I/O errors happen
  SilentFaults,        \* I/O errors the code does not look at happen
  None, Good, Zero

ASSUME BlocksAssumption == Blocks \in Nat \ {0}
ASSUME CrashAssumption == MaxCrashes \in Nat
ASSUME FaultsAssumption == {Faults, SilentFaults} \subseteq BOOLEAN

Whole == [j \in 1 .. Blocks |-> Good]

\* A row of tbl_file; live stands for status = 0.
FileRow == [uid : Users, name : Names, hash : Keys, live : BOOLEAN]

ASSUME ValueAssumption ==
  /\ Good # Zero
  /\ None \notin Keys \cup Users \cup Names \cup FileRow \cup Seq({Good, Zero})

VARIABLES
  object,     \* the storage directory: the blocks under each key, or None
  files,      \* tbl_file: the row that each upload inserted, or None
  queue,      \* backup.queue, the oldest message first
  uploads, downloads,  \* the locals of each request's handler
  crashes

handlers  == <<uploads, downloads>>
storeVars == <<object, files, queue, handlers, crashes>>

UploadReq ==
  [pc : {"idle", "write", "insert", "publish", "ok", "failed", "lost"},
   uid : Users \cup {None}, name : Names \cup {None}, hash : Keys \cup {None},
   at : 0 .. Blocks, published : BOOLEAN]
DownloadReq ==
  [pc : {"idle", "open", "read", "ok", "failed", "lost"},
   uid : Users \cup {None}, hash : Keys \cup {None},
   row : Uploads \cup {None}, got : Seq({Good, Zero})]

StoreInit ==
  /\ object = [k \in Keys |-> None]
  /\ files = [r \in Uploads |-> None]
  /\ queue = <<>>
  /\ uploads = [r \in Uploads |-> [pc |-> "idle", uid |-> None, name |-> None, hash |-> None,
                                   at |-> 0, published |-> FALSE]]
  /\ downloads = [d \in Downloads |-> [pc |-> "idle", uid |-> None, hash |-> None,
                                       row |-> None, got |-> <<>>]]
  /\ crashes = 0

-----------------------------------------------------------------------------
(* FileUpload and LocalStorage::put. *)

\* Mutant of WriteBlock: the stream is opened with std::ios::app.
AppendBlock(bytes, at) == Append(bytes, Good)

\* write() at offset at; what lies between the end and at reads as zero bytes.
WriteBlock(bytes, at) ==
  [j \in 1 .. (IF at + 1 > Len(bytes) THEN at + 1 ELSE Len(bytes)) |->
     IF j = at + 1 THEN Good ELSE IF j <= Len(bytes) THEN bytes[j] ELSE Zero]

\* Mutant of BeginPut: the row is inserted before the content is stored.
RegisterThenPut(r, u, n, k) ==
  /\ uploads[r].pc = "idle"
  /\ object' = [object EXCEPT ![k] = <<>>]
  /\ uploads' = [uploads EXCEPT ![r] = [pc |-> "write", uid |-> u, name |-> n, hash |-> k,
                                        at |-> 0, published |-> FALSE]]
  /\ files' = [files EXCEPT ![r] = [uid |-> u, name |-> n, hash |-> k, live |-> TRUE]]
  /\ UNCHANGED <<queue, downloads, crashes>>

\* The checks of the request, its hash, and put's std::ofstream, which truncates.
BeginPut(r, u, n, k) ==
  /\ uploads[r].pc = "idle"
  /\ object' = [object EXCEPT ![k] = <<>>]
  /\ uploads' = [uploads EXCEPT ![r] = [pc |-> "write", uid |-> u, name |-> n, hash |-> k,
                                        at |-> 0, published |-> FALSE]]
  /\ UNCHANGED <<files, queue, downloads, crashes>>

\* Mutant of PutBlock: the loop runs one block too far.
PutBlockTooMany(r) ==
  /\ uploads[r].pc = "write"
  /\ object' = [object EXCEPT ![uploads[r].hash] = WriteBlock(@, uploads[r].at)]
  /\ uploads' = [uploads EXCEPT ![r].at = @ + 1,
                   ![r].pc = IF uploads[r].at = Blocks THEN "insert" ELSE "write"]
  /\ UNCHANGED <<files, queue, downloads, crashes>>

PutBlock(r) ==
  /\ uploads[r].pc = "write"
  /\ object' = [object EXCEPT ![uploads[r].hash] = WriteBlock(@, uploads[r].at)]
  /\ uploads' = [uploads EXCEPT ![r].at = @ + 1,
                   ![r].pc = IF uploads[r].at + 1 = Blocks THEN "insert" ELSE "write"]
  /\ UNCHANGED <<files, queue, downloads, crashes>>

\* A small content stays in the stream's buffer until the destructor, which runs
\* after good() was asked: put answers true and nothing is written.
PutUnflushed(r) ==
  /\ SilentFaults
  /\ uploads[r].pc = "write" /\ uploads[r].at = 0
  /\ uploads' = [uploads EXCEPT ![r].pc = "insert"]
  /\ UNCHANGED <<object, files, queue, downloads, crashes>>

InsertRow(r) ==
  /\ uploads[r].pc = "insert"
  /\ files' = [files EXCEPT ![r] = [uid |-> uploads[r].uid, name |-> uploads[r].name,
                                    hash |-> uploads[r].hash, live |-> TRUE]]
  /\ uploads' = [uploads EXCEPT ![r].pc = "publish"]
  /\ UNCHANGED <<object, queue, downloads, crashes>>

\* put answers false, or the INSERT throws: the object stays as it is.
UploadFault(r) ==
  /\ Faults
  /\ uploads[r].pc \in {"write", "insert"}
  /\ uploads' = [uploads EXCEPT ![r].pc = "failed"]
  /\ UNCHANGED <<object, files, queue, downloads, crashes>>

\* Producer::publish sends under its mutex; nobody looks at its answer.
Publish(r) ==
  /\ uploads[r].pc = "publish"
  /\ \/ /\ queue' = Append(queue, r)
        /\ uploads' = [uploads EXCEPT ![r].pc = "ok", ![r].published = TRUE]
     \/ /\ SilentFaults
        /\ uploads' = [uploads EXCEPT ![r].pc = "ok"]
        /\ UNCHANGED queue
  /\ UNCHANGED <<object, files, downloads, crashes>>

-----------------------------------------------------------------------------
(* FileDownload and LocalStorage::get; FileDelete and FileRename. *)

\* WHERE uid = ? AND filename = ? AND hashcode = ? AND status = 0.
Matches(f, u, n, k) == f # None /\ f.uid = u /\ f.name = n /\ f.hash = k /\ f.live

SelectForDownload(d, u, n, k) ==
  /\ downloads[d].pc = "idle"
  /\ \E r \in Uploads :
       /\ Matches(files[r], u, n, k)
       /\ downloads' = [downloads EXCEPT ![d].pc = "open", ![d].uid = u, ![d].hash = k, ![d].row = r]
  /\ UNCHANGED <<object, files, queue, uploads, crashes>>

\* The SELECT throws.  The handler sets code 1 and goes on.
SelectThrows(d, u, k) ==
  /\ Faults
  /\ downloads[d].pc = "idle"
  /\ downloads' = [downloads EXCEPT ![d].pc = "open", ![d].uid = u, ![d].hash = k]
  /\ UNCHANGED <<object, files, queue, uploads, crashes>>

\* get: false only if the file cannot be opened.
OpenForRead(d) ==
  /\ downloads[d].pc = "open"
  /\ downloads' = [downloads EXCEPT ![d].pc = IF object[downloads[d].hash] = None
                                              THEN "failed" ELSE "read"]
  /\ UNCHANGED <<object, files, queue, uploads, crashes>>

\* istreambuf_iterator: the next block, or the end of the file as it is now.
\* After it the handler overwrites the code with 0.
ReadBlock(d) ==
  LET bytes == object[downloads[d].hash]
      got   == downloads[d].got
  IN /\ downloads[d].pc = "read"
     /\ downloads' = [downloads EXCEPT ![d] =
          IF Len(got) < Len(bytes) THEN [@ EXCEPT !.got = Append(got, bytes[Len(got) + 1])]
          ELSE [@ EXCEPT !.pc = "ok"]]
     /\ UNCHANGED <<object, files, queue, uploads, crashes>>

\* Every row that matches is changed; none, and the answer is "file not found".
Delete(u, n, k) ==
  /\ \E r \in Uploads : Matches(files[r], u, n, k)
  /\ files' = [r \in Uploads |-> IF Matches(files[r], u, n, k)
                                 THEN [files[r] EXCEPT !.live = FALSE] ELSE files[r]]
  /\ UNCHANGED <<object, queue, handlers, crashes>>

\* MySQL counts the rows whose value changed, so the old name again is "not found".
Rename(u, n, m, k) ==
  /\ m # n
  /\ \E r \in Uploads : Matches(files[r], u, n, k)
  /\ files' = [r \in Uploads |-> IF Matches(files[r], u, n, k)
                                 THEN [files[r] EXCEPT !.name = m] ELSE files[r]]
  /\ UNCHANGED <<object, queue, handlers, crashes>>

-----------------------------------------------------------------------------
\* The file service dies and is started again.
Lost(reqs) ==
  [r \in DOMAIN reqs |-> IF reqs[r].pc \in {"idle", "ok", "failed"}
                         THEN reqs[r] ELSE [reqs[r] EXCEPT !.pc = "lost"]]

Crash ==
  /\ crashes < MaxCrashes
  /\ crashes' = crashes + 1
  /\ uploads' = Lost(uploads) /\ downloads' = Lost(downloads)
  /\ UNCHANGED <<object, files, queue>>

\* The steps that a handler takes once it was called.
UploadStep(r) ==
  PutBlock(r) \/ PutUnflushed(r) \/ InsertRow(r) \/ UploadFault(r) \/ Publish(r)

FileUpload(r) ==
  \/ \E u \in Users, n \in Names, k \in Keys : BeginPut(r, u, n, k)
  \/ UploadStep(r)

FileDownload(d) ==
  \/ \E u \in Users, n \in Names, k \in Keys : SelectForDownload(d, u, n, k)
  \/ \E u \in Users, k \in Keys : SelectThrows(d, u, k)
  \/ OpenForRead(d)
  \/ ReadBlock(d)

StoreNext ==
  \/ \E r \in Uploads : FileUpload(r)
  \/ \E d \in Downloads : FileDownload(d)
  \/ \E u \in Users, n \in Names, k \in Keys : Delete(u, n, k)
  \/ \E u \in Users, n, m \in Names, k \in Keys : Rename(u, n, m, k)
  \/ Crash

StoreSpec == StoreInit /\ [][StoreNext]_storeVars

-----------------------------------------------------------------------------
(* What holds. *)

UploadLocals(q) ==
  /\ q.pc = "idle" <=> q.hash = None
  /\ q.pc # "idle" => q.uid \in Users /\ q.name \in Names
  /\ q.pc = "write" => q.at < Blocks

DownloadLocals(q) == q.pc # "idle" => q.hash \in Keys

StoreTypeOK ==
  /\ object \in [Keys -> Seq({Good, Zero}) \cup {None}]
  /\ files \in [Uploads -> FileRow \cup {None}]
  /\ uploads \in [Uploads -> UploadReq] /\ \A r \in Uploads : UploadLocals(uploads[r])
  /\ downloads \in [Downloads -> DownloadReq] /\ \A d \in Downloads : DownloadLocals(downloads[d])
  /\ crashes \in 0 .. MaxCrashes

\* However uploads of one content truncate and rewrite its object under each
\* other, and wherever they stop: when all of them got through their put, the
\* object is whole.  A damaged object is the work of a put that is under way,
\* failed, or was cut off.
DamageIsUnfinishedPut ==
  SilentFaults \/
  \A k \in Keys : object[k] \notin {None, Whole} =>
    \E r \in Uploads : uploads[r].hash = k /\ uploads[r].at < Blocks

\* A download that found its row and is answered with less than the content has
\* met a second upload of that content; the one that made the row is not enough,
\* since the row is inserted after the object is written.
ShortAnswerNeedsRewrite ==
  SilentFaults \/
  \A d \in Downloads :
    downloads[d].pc = "ok" /\ downloads[d].row # None /\ downloads[d].got # Whole =>
      \E r \in Uploads : r # downloads[d].row /\ uploads[r].hash = downloads[d].hash

-----------------------------------------------------------------------------
(* What the repository says, and the code does not keep. *)

\* file_service_impl.cpp:685: a download is answered with a file of the caller,
\* which the handler confirms first.
AnswersComeFromRows ==
  \A d \in Downloads : downloads[d].pc = "ok" =>
    \E r \in Uploads : files[r] # None /\ files[r].uid = downloads[d].uid
                                       /\ files[r].hash = downloads[d].hash
============================================================================
