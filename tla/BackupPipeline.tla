--------------------------- MODULE BackupPipeline ---------------------------
(***************************************************************************)
(* The backup of stored files: the messages that FileUpload publishes, the *)
(* queues of the broker, and the loop of backup_worker.cpp, composed with  *)
(* the FileStore that goes on rewriting the objects the worker copies.     *)
(*                                                                         *)
(* The worker takes a message without giving up the broker's copy, copies  *)
(* uploads/<hash> over backup/<hash> in place, and then acknowledges or    *)
(* rejects.  When it dies the broker puts an unacknowledged message back.  *)
(*                                                                         *)
(* The broker is external: durable queues, persistent messages, rejected   *)
(* ones moved to the dead-letter queue, redelivery at the old place.  One  *)
(* worker runs.  A message is named by the upload that published it.       *)
(*                                                                         *)
(* What all this promises of an upload is BackupPromise, at the end.       *)
(***************************************************************************)
EXTENDS FileStore

CONSTANTS
  Junk,      \* messages in the queue that do not parse
  MaxStops   \* bound of the worker's crashes, signals and lost connections

ASSUME StopAssumption == MaxStops \in Nat
ASSUME JunkAssumption == Junk \cap Uploads = {} /\ None \notin Junk \cup Uploads

Messages == Uploads \cup Junk

VARIABLES
  backup,   \* the directory backup/: the blocks under each key, or None
  worker,   \* the worker's loop: its pc and the message it holds
  dlq,      \* backup.queue.dlq, which nothing consumes
  acked,    \* the messages acknowledged so far
  stops

workerVars == <<backup, worker, dlq, acked, stops>>
vars == <<storeVars, workerVars>>

Worker == [pc : {"poll", "parse", "copy", "ack", "reject", "down"}, msg : Messages \cup {None}]

Init ==
  /\ StoreInit
  /\ backup = [k \in Keys |-> None]
  /\ worker = [pc |-> "down", msg |-> None]
  /\ dlq = <<>> /\ acked = {} /\ stops = 0

\* The key the worker is at work on.
Hash == uploads[worker.msg].hash

Goto(pc) == worker' = [worker EXCEPT !.pc = pc]
NextMessage == worker' = [pc |-> "poll", msg |-> None]

-----------------------------------------------------------------------------
\* The worker is started; it declares the queues and polls.
Start ==
  /\ worker.pc = "down"
  /\ NextMessage
  /\ UNCHANGED <<storeVars, backup, dlq, acked, stops>>

\* Mutant of Get: BasicGet with no_ack = true.
GetNoAck ==
  /\ worker.pc = "poll"
  /\ queue # <<>>
  /\ worker' = [pc |-> "parse", msg |-> Head(queue)]
  /\ queue' = Tail(queue)
  /\ acked' = acked \cup {Head(queue)}
  /\ UNCHANGED <<object, files, handlers, crashes, backup, dlq, stops>>

\* BasicGet with no_ack = false; an empty queue is polled again.
Get ==
  /\ worker.pc = "poll"
  /\ queue # <<>>
  /\ worker' = [pc |-> "parse", msg |-> Head(queue)]
  /\ queue' = Tail(queue)
  /\ UNCHANGED <<object, files, handlers, crashes, backup, dlq, acked, stops>>

\* What does not parse is acknowledged and thereby dropped.
Discard ==
  /\ worker.pc = "parse" /\ worker.msg \in Junk
  /\ acked' = acked \cup {worker.msg}
  /\ NextMessage
  /\ UNCHANGED <<storeVars, backup, dlq, stops>>

\* backupFile opens the source, and then the destination, which it truncates.
OpenCopy ==
  /\ worker.pc = "parse" /\ worker.msg \in Uploads
  /\ object[Hash] # None
  /\ backup' = [backup EXCEPT ![Hash] = <<>>]
  /\ Goto("copy")
  /\ UNCHANGED <<storeVars, dlq, acked, stops>>

\* dst << src.rdbuf(), block by block.
CopyBlock ==
  /\ worker.pc = "copy"
  /\ Len(backup[Hash]) < Len(object[Hash])
  /\ backup' = [backup EXCEPT ![Hash] = Append(@, object[Hash][Len(@) + 1])]
  /\ UNCHANGED <<storeVars, worker, dlq, acked, stops>>

\* The end of the source as it is now.  The operator fails if it moved nothing.
\* What the destructor flushes after good() was asked may get lost unseen.
EndCopy ==
  LET copied == backup[Hash] IN
  /\ worker.pc = "copy"
  /\ Len(copied) >= Len(object[Hash])
  /\ Goto(IF copied = <<>> THEN "reject" ELSE "ack")
  /\ \/ UNCHANGED backup
     \/ /\ SilentFaults /\ copied # <<>>
        /\ backup' = [backup EXCEPT ![Hash] = SubSeq(copied, 1, Len(copied) - 1)]
  /\ UNCHANGED <<storeVars, dlq, acked, stops>>

\* backupFile answers false: the destination cannot be opened, or is not good.
CopyFault ==
  /\ Faults
  /\ worker.pc \in {"parse", "copy"} /\ worker.msg \in Uploads
  /\ Goto("reject")
  /\ UNCHANGED <<storeVars, backup, dlq, acked, stops>>

Ack ==
  /\ worker.pc = "ack"
  /\ acked' = acked \cup {worker.msg}
  /\ NextMessage
  /\ UNCHANGED <<storeVars, backup, dlq, stops>>

\* Mutant of Reject: BasicReject with requeue = true.
RejectRequeue ==
  /\ worker.pc = "reject"
  /\ queue' = <<worker.msg>> \o queue
  /\ NextMessage
  /\ UNCHANGED <<object, files, handlers, crashes, backup, dlq, acked, stops>>

\* Mutant of Reject: the message is acknowledged although backupFile failed.
RejectAcks ==
  /\ worker.pc = "reject"
  /\ acked' = acked \cup {worker.msg}
  /\ NextMessage
  /\ UNCHANGED <<storeVars, backup, dlq, stops>>

\* BasicReject with requeue = false: the broker moves the message to the dlq.
Reject ==
  /\ worker.pc = "reject"
  /\ dlq' = Append(dlq, worker.msg)
  /\ NextMessage
  /\ UNCHANGED <<storeVars, backup, acked, stops>>

\* Mutant of Stop: what the worker held is gone with it.
StopForgetting ==
  /\ worker.pc # "down" /\ stops < MaxStops
  /\ stops' = stops + 1
  /\ worker' = [pc |-> "down", msg |-> None]
  /\ UNCHANGED <<storeVars, backup, dlq, acked>>

\* The worker dies anywhere, loses its connection (the exception ends it) or ends
\* on a signal between two messages.  The broker takes back what it held.
Stop ==
  /\ worker.pc # "down" /\ stops < MaxStops
  /\ stops' = stops + 1
  /\ worker' = [pc |-> "down", msg |-> None]
  /\ queue' = IF worker.msg = None THEN queue ELSE <<worker.msg>> \o queue
  /\ UNCHANGED <<object, files, handlers, crashes, backup, dlq, acked>>

\* Another program puts something into the queue.
PublishJunk(j) ==
  /\ j \notin acked /\ worker.msg # j
  /\ \A i \in DOMAIN queue : queue[i] # j
  /\ queue' = Append(queue, j)
  /\ UNCHANGED <<object, files, handlers, crashes, workerVars>>

WorkerStep ==
  Get \/ Discard \/ OpenCopy \/ CopyBlock \/ EndCopy \/ CopyFault \/ Ack \/ Reject

Next ==
  \/ StoreNext /\ UNCHANGED workerVars
  \/ WorkerStep
  \/ Start
  \/ Stop
  \/ \E j \in Junk : PublishJunk(j)

Spec == Init /\ [][Next]_vars

\* A running worker's loop goes on, and so does a handler's thread.  Nothing makes
\* the operator start the worker, and nothing makes a client call.
FairSpec ==
  /\ Spec
  /\ WF_vars(WorkerStep)
  /\ \A r \in Uploads : WF_vars(UploadStep(r) /\ UNCHANGED workerVars)

-----------------------------------------------------------------------------
(* What holds. *)

\* The tables, directories, queues and locals have their types, and the worker
\* holds a message exactly while it is at work on one.
TypeOK ==
  /\ StoreTypeOK
  /\ queue \in Seq(Messages) /\ dlq \in Seq(Uploads)
  /\ backup \in [Keys -> Seq({Good, Zero}) \cup {None}]
  /\ worker \in Worker
  /\ worker.pc \in {"poll", "down"} <=> worker.msg = None
  /\ worker.pc \in {"copy", "ack", "reject"} => worker.msg \in Uploads
  /\ worker.pc = "copy" => backup[Hash] # None /\ object[Hash] # None
  /\ acked \subseteq Messages
  /\ stops \in 0 .. MaxStops

Copies(s, m) == Cardinality({i \in DOMAIN s : s[i] = m})

\* The broker and the worker together neither lose nor double a message, whenever
\* the worker dies: what was published is in exactly one place.
MessagesAreAccountedFor ==
  \A r \in Uploads :
    Copies(queue, r) + Copies(dlq, r)
      + (IF worker.msg = r THEN 1 ELSE 0) + (IF r \in acked THEN 1 ELSE 0)
    = (IF uploads[r].published THEN 1 ELSE 0)

\* Backups are written in place, from objects that are rewritten in place, and
\* again for each further upload of the same content.  Still, once the messages
\* of all uploads of a content are acknowledged, its backup is whole: a copy
\* that met a rewrite is made again for the upload that was rewriting.
AckedMeansBackedUp ==
  SilentFaults \/
  \A k \in Keys :
    LET of == {r \in Uploads : uploads[r].hash = k} IN
      of # {} /\ of \subseteq acked => backup[k] = Whole

\* As long as the worker is not down for good, every published message is in the
\* end acknowledged or in the dead-letter queue; no message blocks the queue.
EveryMessageIsHandled ==
  <>[](worker.pc # "down") =>
    \A r \in Uploads : uploads[r].published ~> (r \in acked \/ Copies(dlq, r) > 0)

-----------------------------------------------------------------------------
(* The promise. *)

Contents == [r \in Uploads |-> uploads[r].hash]

Dead(r) == \E i \in DOMAIN dlq : dlq[i] = r

MessageStates ==
  [r \in Uploads |-> IF r \in acked THEN "acked"
                     ELSE IF Dead(r) THEN "dead"
                     ELSE IF uploads[r].published THEN "sent" ELSE "none"]

WholeBackups == {k \in Keys : backup[k] = Whole}

Promise == INSTANCE BackupPromise WITH
  content <- Contents, message <- MessageStates, whole <- WholeBackups, Lossy <- SilentFaults

\* The message of an upload is sent once and is settled once and for good, by an
\* acknowledgement or by the dead-letter queue; a backup changes only while a
\* message of its content is out; and when the last of them is acknowledged the
\* backup is whole, and stays so until that content is uploaded again.
KeepsPromise == Promise!Spec
=============================================================================
