--------------------------- MODULE ResumableClient ---------------------------
(***************************************************************************)
(* The browser's side of a resumable upload: uploadChunked of home.js in   *)
(* several tabs that share one localStorage, against the upload handlers   *)
(* of the file service.                                                    *)
(*                                                                         *)
(* A tab asks for one thing at a time and waits.  When the answer is an    *)
(* error, is lost or comes too late, uploadChunked throws; the user clicks *)
(* again, and what the tab then knows is what localStorage remembers under *)
(* the file's name and size, and what UploadStatus says.  A handler whose  *)
(* tab has given up goes on.                                               *)
(*                                                                         *)
(* The handlers are here in the steps that a resumed upload can tell apart *)
(* (ChunkUpload has them statement by statement): UploadInit with its      *)
(* purge and UploadStatus are one step; UploadChunk truncates the chunk's  *)
(* file, writes it and scans, and sets the count; UploadComplete checks    *)
(* and merges, registers, and marks the session and removes its directory. *)
(* All tabs are one user's, and every file here has the same number of     *)
(* chunks.  A chunk's bytes are the file and the index it came from.       *)
(***************************************************************************)
EXTENDS Integers, FiniteSets, FiniteSetsExt

CONSTANTS
  Tabs, Files,
  Name, Size,       \* of each file
  Chunks,           \* how many chunks a file has
  UploadIds,        \* what random_hex returns
  Handlers,         \* RPC threads of the service
  MaxFaults,        \* bounds lost answers, SQL errors, restarts and expiries together
  None, Torn        \* no value; a chunk file that was truncated and not written

ASSUME SizeAssumption == Chunks \in Nat \ {0} /\ MaxFaults \in Nat
ASSUME FilesAssumption == DOMAIN Name = Files /\ DOMAIN Size = Files

Indices == 0 .. Chunks - 1
Piece == Files \X Indices

\* Mutant of resumeKey: files are told apart by their names.
resumeKeyByName(f) == <<Name[f]>>

resumeKey(f) == <<Name[f], Size[f]>>

Keys == {resumeKey(f) : f \in Files}

VARIABLES
  tabs,         \* the locals of uploadChunked in each tab
  stored,       \* localStorage: the upload id under each key, or None
  session,      \* tbl_upload_session: the row of each id, or None
  part,         \* part[id][i]: the file uploads/tmp/<id>/<i>, None if there is none
  handlers,     \* what each RPC thread is doing, and for whom
  rows,         \* the rows of tbl_file
  disturbed,    \* as <<id, index>>: chunks of which a request was cut off, and all those
                \* of an upload that a second tab has continued, or whose UploadComplete
                \* was given up before it had merged
  faults

vars == <<tabs, stored, session, part, handlers, rows, disturbed, faults>>

Tab == [pc : {"idle", "waiting", "failed", "done"}, file : Files \cup {None},
        id : UploadIds \cup {None}, todo : SUBSET Indices]

\* file stands for the file name, and for the total_size the session is told.
\* A deleted row is kept as "deleted", so that no id is given twice.
Session == [file : Files, received : 0 .. Chunks, status : {"active", "done", "deleted"},
            old : BOOLEAN]

ASSUME NoneAssumption ==
  /\ None \notin Tabs \cup Files \cup UploadIds \cup Piece \cup Session
  /\ Torn \notin Piece \cup {None}

Handler ==
  [op : {"none", "status", "init", "chunk", "complete"},
   pc : {"new", "save", "update", "register", "mark", "ok", "refused", "gone"},
   tab : Tabs \cup {None}, file : Files \cup {None}, id : UploadIds \cup {None},
   idx : Indices \cup {None}, have : SUBSET Indices, count : 0 .. Chunks,
   bytes : [Indices -> Piece \cup {Torn}] \cup {None}]

Free == [op |-> "none", pc |-> "new", tab |-> None, file |-> None, id |-> None,
         idx |-> None, have |-> {}, count |-> 0, bytes |-> None]

Init ==
  /\ tabs = [t \in Tabs |-> [pc |-> "idle", file |-> None, id |-> None, todo |-> {}]]
  /\ stored = [k \in Keys |-> None]
  /\ session = [id \in UploadIds |-> None]
  /\ part = [id \in UploadIds |-> [i \in Indices |-> None]]
  /\ handlers = [h \in Handlers |-> Free]
  /\ rows = {} /\ disturbed = {} /\ faults = 0

-----------------------------------------------------------------------------
(* The tabs. *)

Asks(h, t, op, id, idx) ==
  [Free EXCEPT !.op = op, !.tab = t, !.id = id, !.idx = idx, !.file = tabs'[t].file]

\* The button: a remembered upload is continued, otherwise a new one is begun.
Click(t, f, h) ==
  /\ \/ tabs[t].pc = "idle"
     \/ tabs[t].pc = "failed" /\ tabs[t].file = f
  /\ handlers[h].op = "none"
  /\ tabs' = [tabs EXCEPT ![t] = [pc |-> "waiting", file |-> f, id |-> stored[resumeKey(f)],
                                  todo |-> Indices]]
  /\ handlers' = [handlers EXCEPT ![h] =
       Asks(h, t, IF stored[resumeKey(f)] # None THEN "status" ELSE "init",
            stored[resumeKey(f)], None)]
  /\ disturbed' = disturbed \cup
       (IF stored[resumeKey(f)] # None /\ \E x \in Tabs \ {t} : tabs[x].id = stored[resumeKey(f)]
        THEN {stored[resumeKey(f)]} \X Indices ELSE {})
  /\ UNCHANGED <<stored, session, part, rows, faults>>

\* The next chunk that is missing, or UploadComplete.
Continue(h, t, id, todo) ==
  /\ tabs' = [tabs EXCEPT ![t].id = id, ![t].todo = todo]
  /\ handlers' = [handlers EXCEPT ![h] =
       IF todo # {} THEN Asks(h, t, "chunk", id, Min(todo)) ELSE Asks(h, t, "complete", id, None)]

Stop(h, t, pc) ==
  /\ tabs' = [tabs EXCEPT ![t].pc = pc]
  /\ handlers' = [handlers EXCEPT ![h] = Free]

Answered(h, op) == handlers[h].op = op /\ handlers[h].tab # None /\ handlers[h].pc \in {"ok", "refused", "gone"}

\* An error is as good as an empty list.
fetchReceivedChunks(h) ==
  /\ Answered(h, "status")
  /\ LET t == handlers[h].tab IN
       Continue(h, t, tabs[t].id, IF handlers[h].pc = "ok" THEN Indices \ handlers[h].have ELSE Indices)
  /\ UNCHANGED <<stored, session, part, rows, disturbed, faults>>

Begun(h) ==
  /\ Answered(h, "init")
  /\ LET t == handlers[h].tab IN
       IF handlers[h].pc = "ok"
       THEN /\ stored' = [stored EXCEPT ![resumeKey(tabs[t].file)] = handlers[h].id]
            /\ Continue(h, t, handlers[h].id, Indices)
       ELSE /\ Stop(h, t, "failed")
            /\ UNCHANGED stored
  /\ UNCHANGED <<session, part, rows, disturbed, faults>>

\* Mutant of ChunkAnswered: a session that is gone stays remembered.
ChunkAnsweredKept(h) ==
  /\ Answered(h, "chunk")
  /\ LET t == handlers[h].tab IN
       IF handlers[h].pc = "ok" THEN Continue(h, t, tabs[t].id, tabs[t].todo \ {handlers[h].idx})
       ELSE Stop(h, t, "failed")
  /\ UNCHANGED <<stored, session, part, rows, disturbed, faults>>

\* "not found" makes the tab forget the upload; any other error does not.
ChunkAnswered(h) ==
  /\ Answered(h, "chunk")
  /\ LET t == handlers[h].tab IN
       /\ IF handlers[h].pc = "ok" THEN Continue(h, t, tabs[t].id, tabs[t].todo \ {handlers[h].idx})
          ELSE Stop(h, t, "failed")
       /\ stored' = IF handlers[h].pc = "gone"
                    THEN [stored EXCEPT ![resumeKey(tabs[t].file)] = None] ELSE stored
  /\ UNCHANGED <<session, part, rows, disturbed, faults>>

\* Mutant of Completed: the answer's code is not looked at.
CompletedAnyhow(h) ==
  /\ Answered(h, "complete")
  /\ LET t == handlers[h].tab IN
       /\ Stop(h, t, "done")
       /\ stored' = [stored EXCEPT ![resumeKey(tabs[t].file)] = None]
  /\ UNCHANGED <<session, part, rows, disturbed, faults>>

Completed(h) ==
  /\ Answered(h, "complete")
  /\ LET t == handlers[h].tab IN
       IF handlers[h].pc = "ok"
       THEN /\ Stop(h, t, "done")
            /\ stored' = [stored EXCEPT ![resumeKey(tabs[t].file)] = None]
       ELSE /\ Stop(h, t, "failed")
            /\ UNCHANGED stored
  /\ UNCHANGED <<session, part, rows, disturbed, faults>>

Fault == faults < MaxFaults /\ faults' = faults + 1

CutOff(hs) ==
  {<<handlers[h].id, handlers[h].idx>> :
     h \in {g \in hs : handlers[g].op = "chunk" /\ handlers[g].pc \in {"new", "save"}}}
  \cup {handlers[h].id : h \in {g \in hs : handlers[g].op = "complete" /\ handlers[g].pc = "new"}}
       \X Indices

\* fetch throws: the answer is lost or late, or the network is down.  Without an answer
\* fetchReceivedChunks goes on with nothing, everything else fails.  The handler runs on.
GiveUp(h) ==
  /\ Fault
  /\ handlers[h].tab # None
  /\ LET t == handlers[h].tab IN
       IF handlers[h].op = "status"
       THEN Continue(h, t, tabs[t].id, Indices)
       ELSE /\ tabs' = [tabs EXCEPT ![t].pc = "failed"]
            /\ handlers' = [handlers EXCEPT ![h] =
                 IF @.pc \in {"ok", "refused", "gone"} THEN Free ELSE [@ EXCEPT !.tab = None]]
  /\ disturbed' = disturbed \cup CutOff({h})
  /\ UNCHANGED <<stored, session, part, rows>>

-----------------------------------------------------------------------------
(* The handlers. *)

Active(id) == session[id] # None /\ session[id].status = "active"

Received(id) == {i \in Indices : part[id][i] # None}

At(h, op, pc) == handlers[h].op = op /\ handlers[h].pc = pc

\* The handler returns; without a tab nobody hears it.
Return(h, answer) ==
  handlers' = [handlers EXCEPT ![h] = IF @.tab = None THEN Free ELSE answer]

Ends(h, pc) == Return(h, [handlers[h] EXCEPT !.pc = pc])

UploadStatus(h) ==
  /\ At(h, "status", "new")
  /\ Return(h, IF Active(handlers[h].id)
               THEN [handlers[h] EXCEPT !.pc = "ok", !.have = Received(handlers[h].id)]
               ELSE [handlers[h] EXCEPT !.pc = "gone"])
  /\ UNCHANGED <<tabs, stored, session, part, rows, disturbed, faults>>

\* The user's sessions of more than 24 hours go, with what they have received.
UploadInit(h) ==
  /\ At(h, "init", "new")
  /\ LET old == {id \in UploadIds : Active(id) /\ session[id].old} IN
       \E id \in {i \in UploadIds : session[i] = None} :
         /\ session' = [i \in UploadIds |->
              IF i = id THEN [file |-> handlers[h].file, received |-> 0, status |-> "active", old |-> FALSE]
              ELSE IF i \in old THEN [session[i] EXCEPT !.status = "deleted"] ELSE session[i]]
         /\ part' = [i \in UploadIds |-> IF i \in old THEN [k \in Indices |-> None] ELSE part[i]]
         /\ Return(h, [handlers[h] EXCEPT !.pc = "ok", !.id = id])
  /\ UNCHANGED <<tabs, stored, rows, disturbed, faults>>

OpenChunk(h) ==
  /\ At(h, "chunk", "new")
  /\ LET id == handlers[h].id IN
       IF Active(id)
       THEN /\ part' = [part EXCEPT ![id][handlers[h].idx] = Torn]
            /\ handlers' = [handlers EXCEPT ![h].pc = "save"]
       ELSE /\ Ends(h, "gone")
            /\ UNCHANGED part
  /\ UNCHANGED <<tabs, stored, session, rows, disturbed, faults>>

\* Mutant of SaveChunk: chunks are numbered as they come.
SaveChunkAsCounted(h) ==
  /\ At(h, "chunk", "save")
  /\ LET id == handlers[h].id
         i  == handlers[h].idx IN
       /\ part' = IF part[id][i] = None THEN part
                  ELSE [part EXCEPT ![id][Cardinality(Received(id)) - 1] = <<handlers[h].file, i>>]
       /\ handlers' = [handlers EXCEPT ![h].pc = "update", ![h].count = Cardinality(Received(id))]
  /\ UNCHANGED <<tabs, stored, session, rows, disturbed, faults>>

\* The stream writes to the file it has opened, wherever its path has gone.
SaveChunk(h) ==
  /\ At(h, "chunk", "save")
  /\ LET id == handlers[h].id
         i  == handlers[h].idx IN
       /\ part' = IF part[id][i] = None THEN part
                  ELSE [part EXCEPT ![id][i] = <<handlers[h].file, i>>]
       /\ handlers' = [handlers EXCEPT ![h].pc = "update", ![h].count = Cardinality(Received(id))]
  /\ UNCHANGED <<tabs, stored, session, rows, disturbed, faults>>

\* Mutant of UpdateCount: one more chunk each time.
UpdateCountByOne(h) ==
  /\ At(h, "chunk", "update")
  /\ LET id == handlers[h].id IN
       session' = IF session[id].status = "deleted" THEN session
                  ELSE [session EXCEPT ![id].received = @ + 1]
  /\ Ends(h, "ok")
  /\ UNCHANGED <<tabs, stored, part, rows, disturbed, faults>>

UpdateCount(h) ==
  /\ At(h, "chunk", "update")
  /\ LET id == handlers[h].id IN
       session' = IF session[id].status = "deleted" THEN session
                  ELSE [session EXCEPT ![id].received = handlers[h].count]
  /\ Ends(h, "ok")
  /\ UNCHANGED <<tabs, stored, part, rows, disturbed, faults>>

\* The check of the session, and the merge: what is put together is put into the storage.
MergeChunks(h) ==
  /\ At(h, "complete", "new")
  /\ LET id == handlers[h].id IN
       IF ~Active(id) THEN Ends(h, "gone")
       ELSE IF session[id].received < Chunks \/ Received(id) # Indices THEN Ends(h, "refused")
       ELSE handlers' = [handlers EXCEPT ![h].pc = "register", ![h].bytes = part[id]]
  /\ UNCHANGED <<tabs, stored, session, part, rows, disturbed, faults>>

RegisterFile(h) ==
  /\ At(h, "complete", "register")
  /\ LET id == handlers[h].id IN
       rows' = rows \cup {[id |-> id, file |-> session[id].file, bytes |-> handlers[h].bytes]}
  /\ handlers' = [handlers EXCEPT ![h].pc = "mark"]
  /\ UNCHANGED <<tabs, stored, session, part, disturbed, faults>>

MarkDone(h) ==
  /\ At(h, "complete", "mark")
  /\ LET id == handlers[h].id IN
       /\ session' = IF session[id].status = "deleted" THEN session
                     ELSE [session EXCEPT ![id].status = "done"]
       /\ part' = [part EXCEPT ![id] = [i \in Indices |-> None]]
  /\ Ends(h, "ok")
  /\ UNCHANGED <<tabs, stored, rows, disturbed, faults>>

\* An SQL statement throws.  The one that does not look for a session is UploadInit's.
Throw(h) ==
  /\ Fault
  /\ handlers[h].op # "none" /\ handlers[h].pc \in {"new", "update", "register", "mark"}
  /\ Ends(h, "refused")
  /\ UNCHANGED <<tabs, stored, session, part, rows, disturbed>>

\* The service dies and is started again; what tabs wait for fails.  A tab that waited
\* for the list of its chunks goes on without one.
Asking(h) == handlers[h].op = "status" /\ handlers[h].tab # None

Crash ==
  /\ Fault
  /\ tabs' = [t \in Tabs |->
       IF tabs[t].pc = "waiting" /\ ~\E h \in Handlers : Asking(h) /\ handlers[h].tab = t
       THEN [tabs[t] EXCEPT !.pc = "failed"] ELSE tabs[t]]
  /\ handlers' = [h \in Handlers |->
       IF Asking(h) THEN Asks(h, handlers[h].tab, "chunk", handlers[h].id, Min(Indices)) ELSE Free]
  /\ disturbed' = disturbed \cup CutOff(Handlers)
  /\ UNCHANGED <<stored, session, part, rows>>

\* 24 hours pass over a session.
Age(id) ==
  /\ Fault
  /\ Active(id) /\ ~session[id].old
  /\ session' = [session EXCEPT ![id].old = TRUE]
  /\ UNCHANGED <<tabs, stored, part, handlers, rows, disturbed>>

UploadChunk(h) == OpenChunk(h) \/ SaveChunk(h) \/ UpdateCount(h)

UploadComplete(h) == MergeChunks(h) \/ RegisterFile(h) \/ MarkDone(h)

Serve(h) == UploadStatus(h) \/ UploadInit(h) \/ UploadChunk(h) \/ UploadComplete(h)

Hear(h) == fetchReceivedChunks(h) \/ Begun(h) \/ ChunkAnswered(h) \/ Completed(h)

Clicks(t) == \E f \in Files, h \in Handlers : Click(t, f, h)

Next ==
  \/ \E t \in Tabs : Clicks(t)
  \/ \E h \in Handlers : Hear(h) \/ GiveUp(h) \/ Serve(h) \/ Throw(h)
  \/ \E id \in UploadIds : Age(id)
  \/ Crash

\* Threads run, answers are heard, and the user tries again until it works.
Fairness ==
  /\ \A h \in Handlers : WF_vars(Serve(h)) /\ WF_vars(Hear(h))
  /\ \A t \in Tabs : WF_vars(Clicks(t))

Spec == Init /\ [][Next]_vars
FairSpec == Spec /\ Fairness

-----------------------------------------------------------------------------
(* What holds. *)

TypeOK ==
  /\ tabs \in [Tabs -> Tab]
  /\ stored \in [Keys -> UploadIds \cup {None}]
  /\ session \in [UploadIds -> Session \cup {None}]
  /\ part \in [UploadIds -> [Indices -> Piece \cup {None, Torn}]]
  /\ handlers \in [Handlers -> Handler]
  /\ rows \subseteq [id : UploadIds, file : Files, bytes : [Indices -> Piece \cup {Torn}]]
  /\ disturbed \subseteq UploadIds \X Indices
  /\ faults \in 0 .. MaxFaults

\* A registered file is put together of its own chunks, each in its place.  The only
\* other things in it are chunks of a file with the same name and size, which the
\* browser takes for the same (home.js:230), and what is missing of chunks of which a
\* request was cut off, or which were sent again during the merge, by a second tab or
\* after an UploadComplete that was given up.
RowsAreAccountedFor ==
  \A r \in rows, i \in Indices :
    IF r.bytes[i] = Torn THEN <<r.id, i>> \in disturbed
    ELSE /\ r.bytes[i][2] = i
         /\ Name[r.bytes[i][1]] = Name[r.file] /\ Size[r.bytes[i][1]] = Size[r.file]

\* A user who is told that the upload has succeeded has the file in the list.
DoneMeansRegistered ==
  \A t \in Tabs :
    tabs[t].pc = "done" =>
      \E r \in rows : r.id = tabs[t].id /\ resumeKey(r.file) = resumeKey(tabs[t].file)

\* The upload that a click would continue.
Remembered(f) == IF f = None THEN None ELSE stored[resumeKey(f)]

\* An upload that can be continued and never completed: every chunk is there, so none
\* is sent again, but their count is too low, and only sending a chunk corrects it.
Stuck(id) ==
  Active(id) /\ Received(id) = Indices /\ session[id].received < Chunks

\* A user who keeps trying gets the file uploaded, through lost answers, errors,
\* restarts and expired sessions, as long as these end; unless from some time on the
\* upload that the browser remembers is stuck, and stays so for good.
UploadedOrStuck ==
  \A t \in Tabs :
    \/ <>(tabs[t].pc = "done")
    \/ <>[](Remembered(tabs[t].file) # None /\ Stuck(Remembered(tabs[t].file)))

\* home.js:313: after a lost session or another error the local record is cleared, so
\* that the next try begins anew.
RetriesSucceed == \A t \in Tabs : <>(tabs[t].pc = "done")
============================================================================
