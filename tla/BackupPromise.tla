--------------------------- MODULE BackupPromise ---------------------------
(***************************************************************************)
(* What the backup promises of the uploads, without blocks, handlers, the  *)
(* broker or the worker: the message of an upload is sent once and is then *)
(* acknowledged or given up, for good; a backup changes only on account of *)
(* a message that is out; and the last message of a content that is        *)
(* acknowledged finds its backup whole.                                    *)
(*                                                                         *)
(* It promises no more, and the weak places are the code's.  An upload may *)
(* never send its message, a message may be given up, and a copy may spoil *)
(* a backup that was whole.                                                *)
(***************************************************************************)
CONSTANTS
  Uploads, Keys,
  Lossy,  \* I/O errors that nobody looks at happen
  None

VARIABLES
  content,  \* the key of each upload that was begun, or None
  message,  \* "none", "sent", "acked" or "dead", for each upload
  whole     \* the keys whose backup is complete

vars == <<content, message, whole>>

Init ==
  /\ content = [r \in Uploads |-> None]
  /\ message = [r \in Uploads |-> "none"]
  /\ whole = {}

\* FileUpload has the content and its hash.
Begin(r, k) ==
  /\ content[r] = None
  /\ content' = [content EXCEPT ![r] = k]
  /\ UNCHANGED <<message, whole>>

\* FileUpload publishes.
Send(r) ==
  /\ content[r] # None /\ message[r] = "none"
  /\ message' = [message EXCEPT ![r] = "sent"]
  /\ UNCHANGED <<content, whole>>

\* The worker writes the backup that r's message asks for, well or badly.
Copy(r) ==
  /\ message[r] = "sent"
  /\ whole' \in {whole \cup {content[r]}, whole \ {content[r]}}
  /\ UNCHANGED <<content, message>>

\* The other uploads of r's content are through as well.
IsLast(r) == \A q \in Uploads \ {r} : content[q] = content[r] => message[q] = "acked"

Acknowledge(r) ==
  /\ message[r] = "sent"
  /\ IsLast(r) => Lossy \/ content[r] \in whole
  /\ message' = [message EXCEPT ![r] = "acked"]
  /\ UNCHANGED <<content, whole>>

\* The message goes to the dead-letter queue.
GiveUp(r) ==
  /\ message[r] = "sent"
  /\ message' = [message EXCEPT ![r] = "dead"]
  /\ UNCHANGED <<content, whole>>

Next ==
  \/ \E r \in Uploads, k \in Keys : Begin(r, k)
  \/ \E r \in Uploads : Send(r) \/ Copy(r) \/ Acknowledge(r) \/ GiveUp(r)

Spec == Init /\ [][Next]_vars
============================================================================
