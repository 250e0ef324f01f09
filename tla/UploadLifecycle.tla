-------------------------- MODULE UploadLifecycle --------------------------
(***************************************************************************)
(* What the resumable upload promises of one upload id, without requests,  *)
(* directories or chunks: an id is given out once; its session ends done   *)
(* or expired and stays so; and it is done only when its file is           *)
(* registered.                                                             *)
(*                                                                         *)
(* It promises no more, and the weak places are the code's.  A file may be *)
(* registered after its session has expired, because the cleanup does not  *)
(* look for a merge in progress, and may be registered again after the     *)
(* session is done.                                                        *)
(***************************************************************************)
CONSTANT UploadIds

VARIABLES
  phase,      \* "none", "open", "done" or "expired", for each id
  registered  \* the ids with a file in tbl_file

vars == <<phase, registered>>

Init ==
  /\ phase = [id \in UploadIds |-> "none"]
  /\ registered = {}

\* UploadInit gives out an id.
Begin(id) ==
  /\ phase[id] = "none"
  /\ phase' = [phase EXCEPT ![id] = "open"]
  /\ UNCHANGED registered

\* UploadComplete inserts the row of tbl_file.
Register(id) ==
  /\ phase[id] # "none"
  /\ registered' = registered \cup {id}
  /\ UNCHANGED phase

\* UploadComplete marks the session.
Finish(id) ==
  /\ phase[id] = "open" /\ id \in registered
  /\ phase' = [phase EXCEPT ![id] = "done"]
  /\ UNCHANGED registered

\* A later UploadInit deletes the sessions that were open for too long.
Expire(ids) ==
  /\ \A id \in ids : phase[id] = "open"
  /\ phase' = [id \in UploadIds |-> IF id \in ids THEN "expired" ELSE phase[id]]
  /\ UNCHANGED registered

Next ==
  \/ \E id \in UploadIds : Begin(id) \/ Register(id) \/ Finish(id)
  \/ \E ids \in SUBSET UploadIds : Expire(ids)

Spec == Init /\ [][Next]_vars
============================================================================
