-------------------------- MODULE LifecycleProofs --------------------------
(***************************************************************************)
(* ChunkUpload implements UploadLifecycle.  Beside the order of            *)
(* UploadComplete's steps (SafeInv), the proof needs that ids are fresh:   *)
(* a session or a merge that has an id got it from the one UploadInit that *)
(* answered with it.                                                       *)
(*                                                                         *)
(* On fresh ids rest also the counts: received_chunks never overstates the *)
(* directory, and a merge finds its chunks.  That proof looks at a step    *)
(* through five lemmas, one for each kind of state the invariant speaks    *)
(* of: directories and chunk files, sessions, chunk requests, merges, and  *)
(* the ids given out (BegunGrows).                                         *)
(*                                                                         *)
(* Then come directories without an active session: each has the request   *)
(* that left it behind.  On the same facts about sessions rests the last   *)
(* part: which completes can register an upload again.                     *)
(***************************************************************************)
EXTENDS ChunkUploadProofs

IdsDistinct ==
  \A p, q \in Inits : p # q /\ inits[p].id = inits[q].id => inits[p].id = None

SessionsBegun == \A id \in UploadIds : session[id] # None => Begun(id)

MergesBegun == \A r \in Merges, id \in UploadIds : merges[r].id = id => Begun(id)

IdInv == IdsDistinct /\ SessionsBegun /\ MergesBegun

-----------------------------------------------------------------------------
(* What a step does to the requests of UploadInit. *)

\* Every request but r stays as it is; r neither was nor becomes answered.
OnlyMoves(r) ==
  /\ inits[r].pc # "ok" /\ inits'[r].pc # "ok"
  /\ \A q \in Inits : q # r => inits'[q] = inits[q]

LEMMA SelectMoves ==
  ASSUME TypeOK, NEW r \in Inits, NEW u \in Users, SelectStale(r, u)
  PROVE  /\ inits[r].pc = "idle" /\ inits'[r].pc \in {"mkdir", "rm"}
         /\ inits'[r].id = inits[r].id
         /\ \A q \in Inits : q # r => inits'[q] = inits[q]
<1> DEFINE stale == {id \in UploadIds : Stale(id, u)}
           pc == IF stale = {} THEN "mkdir" ELSE "rm"
<1>1. /\ inits[r].pc = "idle" /\ pc \in {"mkdir", "rm"}
      /\ inits' = [inits EXCEPT ![r].uid = u, ![r].stale = stale, ![r].pc = pc]
  BY DEF SelectStale
<1> HIDE DEF stale, pc
<1> QED
  BY <1>1 DEF TypeOK, InitsOK, InitReq

LEMMA InitMoves ==
  ASSUME TypeOK, NEW r \in Inits,
         \/ \E u \in Users : SelectStale(r, u) \/ CleanupFault(r, u)
         \/ \E id \in UploadIds : RemoveStale(r, id)
         \/ DeleteStale(r) \/ InitFault(r)
  PROVE  OnlyMoves(r) /\ inits'[r].id = inits[r].id
<1>1. inits \in [Inits -> InitReq]
  BY DEF TypeOK, InitsOK
<1>2. ASSUME NEW u \in Users, SelectStale(r, u)
      PROVE  OnlyMoves(r) /\ inits'[r].id = inits[r].id
  BY <1>2, SelectMoves DEF OnlyMoves
<1>3. ASSUME NEW u \in Users, CleanupFault(r, u)
      PROVE  OnlyMoves(r) /\ inits'[r].id = inits[r].id
  BY <1>1, <1>3 DEF CleanupFault, InitReq, OnlyMoves
<1>4. ASSUME NEW id \in UploadIds, RemoveStale(r, id)
      PROVE  OnlyMoves(r) /\ inits'[r].id = inits[r].id
  BY <1>1, <1>4 DEF RemoveStale, InitReq, OnlyMoves
<1>5. CASE DeleteStale(r)
  BY <1>1, <1>5 DEF DeleteStale, InitReq, OnlyMoves
<1>6. CASE InitFault(r)
  BY <1>1, <1>6 DEF InitFault, InitReq, OnlyMoves
<1> QED
  BY <1>2, <1>3, <1>4, <1>5, <1>6

LEMMA MakeDirMoves ==
  ASSUME TypeOK, NEW r \in Inits, NEW id \in UploadIds, MakeDir(r, id)
  PROVE  OnlyMoves(r) /\ inits'[r].id = id
  BY DEF TypeOK, InitsOK, MakeDir, InitReq, OnlyMoves

LEMMA InsertMoves ==
  ASSUME TypeOK, NEW r \in Inits, NEW n \in 1 .. MaxChunks, InsertSession(r, n)
  PROVE  /\ inits[r].pc = "insert" /\ inits'[r].pc = "ok"
         /\ inits[r].id \in UploadIds /\ inits'[r].id = inits[r].id
         /\ \A q \in Inits : q # r => inits'[q] = inits[q]
  BY DEF TypeOK, InitsOK, InitLocals, InsertSession, InitReq

LEMMA CrashMoves ==
  ASSUME TypeOK, Crash
  PROVE  \A r \in Inits : /\ inits'[r].id = inits[r].id
                          /\ inits'[r].pc = "ok" <=> inits[r].pc = "ok"
  BY DEF TypeOK, InitsOK, InitReq, Crash, Lost, Running, Answered

\* Which ids have been given out follows from the requests that are answered.
LEMMA BegunSame ==
  ASSUME NEW id,
         \A q \in Inits : \/ inits'[q] = inits[q]
                          \/ inits[q].pc # "ok" /\ inits'[q].pc # "ok"
                          \/ /\ inits'[q].id = inits[q].id
                             /\ inits'[q].pc = "ok" <=> inits[q].pc = "ok"
  PROVE  Begun(id)' <=> Begun(id)
  BY DEF Begun

LEMMA BegunGrows ==
  ASSUME TypeOK, [Next]_vars, NEW id, Begun(id)
  PROVE  Begun(id)'
<1>1. ASSUME NEW r \in Inits, UploadInit(r) PROVE Begun(id)'
  <2>1. CASE OnlyMoves(r)
    BY <2>1 DEF OnlyMoves, Begun
  <2>2. ASSUME NEW n \in 1 .. MaxChunks, InsertSession(r, n) PROVE Begun(id)'
    BY <2>2, InsertMoves DEF Begun
  <2> QED
    BY <1>1, <2>1, <2>2, InitMoves, MakeDirMoves DEF UploadInit
<1>2. CASE UNCHANGED inits
  BY <1>2 DEF Begun
<1>3. CASE Crash
  BY <1>3, CrashMoves, BegunSame
<1>4. ASSUME NEW r \in Chunks, UploadChunk(r) PROVE UNCHANGED inits
  BY <1>4 DEF UploadChunk, SelectForChunk, OpenChunk, WriteChunk, ScanChunks,
              UpdateReceived, ChunkFault
<1>5. ASSUME NEW r \in Merges, UploadComplete(r) PROVE UNCHANGED inits
  BY <1>5 DEF UploadComplete, SelectForMerge, OpenMerged, MergeChunk, MoveMerged, MergedGone,
              OpenObject, CopyObject, CopyFault, RegisterFile, PublishFile, MarkDone,
              RemoveTmp, MergeFault
<1> QED
  BY <1>1, <1>2, <1>3, <1>4, <1>5 DEF Next, Tick, vars

-----------------------------------------------------------------------------
(* Ids are fresh. *)

LEMMA DistinctStep ==
  ASSUME TypeOK, IdsDistinct, [Next]_vars
  PROVE  IdsDistinct'
<1>1. CASE \A q \in Inits : inits'[q].id = inits[q].id
  BY <1>1 DEF IdsDistinct
<1>2. ASSUME NEW r \in Inits, NEW id \in UploadIds, MakeDir(r, id) PROVE IdsDistinct'
  <2>1. /\ inits'[r].id = id /\ \A q \in Inits : inits[q].id # id
        /\ \A q \in Inits : q # r => inits'[q].id = inits[q].id
    BY <1>2, MakeDirMoves DEF MakeDir, OnlyMoves
  <2> QED
    BY <2>1 DEF IdsDistinct
<1>3. ASSUME NEW r \in Inits, UploadInit(r), \A id \in UploadIds : ~MakeDir(r, id)
      PROVE  \A q \in Inits : inits'[q].id = inits[q].id
  BY <1>3, InitMoves, InsertMoves DEF UploadInit, OnlyMoves
<1>4. ASSUME Crash PROVE \A q \in Inits : inits'[q].id = inits[q].id
  BY <1>4, CrashMoves
<1>5. ASSUME NEW r \in Chunks, UploadChunk(r) PROVE UNCHANGED inits
  BY <1>5 DEF UploadChunk, SelectForChunk, OpenChunk, WriteChunk, ScanChunks,
              UpdateReceived, ChunkFault
<1>6. ASSUME NEW r \in Merges, UploadComplete(r) PROVE UNCHANGED inits
  BY <1>6 DEF UploadComplete, SelectForMerge, OpenMerged, MergeChunk, MoveMerged, MergedGone,
              OpenObject, CopyObject, CopyFault, RegisterFile, PublishFile, MarkDone,
              RemoveTmp, MergeFault
<1> QED
  BY <1>1, <1>2, <1>3, <1>4, <1>5, <1>6 DEF Next, Tick, vars

\* A step leaves a session absent, or its id was given out, or is by this step.
LEMMA SessionsStep ==
  ASSUME TypeOK, SessionsBegun, [Next]_vars
  PROVE  SessionsBegun'
<1> SUFFICES ASSUME NEW id \in UploadIds, session'[id] # None PROVE Begun(id)'
  BY DEF SessionsBegun
<1>1. CASE session[id] # None
  BY <1>1, BegunGrows DEF SessionsBegun
<1>2. CASE session[id] = None
  <2>1. ASSUME NEW r \in Inits, NEW n \in 1 .. MaxChunks, InsertSession(r, n)
        PROVE  Begun(id)'
    <3>1. id = inits[r].id
      BY <2>1, <1>2 DEF InsertSession, TypeOK, TablesOK
    <3> QED
      BY <2>1, <3>1, InsertMoves DEF Begun
  <2>2. ASSUME NEW r \in Inits, UploadInit(r), \A n \in 1 .. MaxChunks : ~InsertSession(r, n)
        PROVE  session'[id] = None
    BY <1>2, <2>2 DEF UploadInit, SelectStale, RemoveStale, DeleteStale, MakeDir, InitFault,
                      CleanupFault, tables
  <2>3. ASSUME NEW r \in Chunks, UploadChunk(r) PROVE session'[id] = None
    BY <1>2, <2>3 DEF UploadChunk, SelectForChunk, OpenChunk, WriteChunk, ScanChunks,
                      UpdateReceived, ChunkFault, tables, TypeOK, TablesOK
  <2>4. ASSUME NEW r \in Merges, UploadComplete(r) PROVE session'[id] = None
    BY <1>2, <2>4 DEF UploadComplete, SelectForMerge, OpenMerged, MergeChunk, MoveMerged,
                      MergedGone, OpenObject, CopyObject, CopyFault, RegisterFile, PublishFile,
                      MarkDone, RemoveTmp, MergeFault, tables, TypeOK, TablesOK
  <2>5. ASSUME Tick \/ Crash \/ UNCHANGED vars PROVE session'[id] = None
    BY <1>2, <2>5 DEF Tick, Crash, vars, tables
  <2> QED
    BY <2>1, <2>2, <2>3, <2>4, <2>5 DEF Next
<1> QED
  BY <1>1, <1>2

\* Only SelectForMerge gives a request its id.
LEMMA MergeKeepsId ==
  ASSUME TypeOK, NEW r \in Merges, UploadComplete(r),
         \A u \in Users, id \in UploadIds : ~SelectForMerge(r, u, id)
  PROVE  \A q \in Merges : merges'[q].id = merges[q].id
<1>1. merges \in [Merges -> MergeReq]
  BY DEF TypeOK, MergesOK
<1>2. CASE OpenMerged(r)
  <2> DEFINE f == IF merged[merges[r].id] = None THEN <<r, "merged">> ELSE merged[merges[r].id]
  <2>1. CASE merges[r].id \in dir
    <3>1. merges' = [merges EXCEPT ![r].pc = "merge", ![r].out = f]
      BY <1>2, <2>1 DEF OpenMerged
    <3> HIDE DEF f
    <3> QED
      BY <1>1, <3>1 DEF MergeReq
  <2>2. CASE merges[r].id \notin dir
    <3>1. merges' = [merges EXCEPT ![r].pc = "failed"]
      BY <1>2, <2>2 DEF OpenMerged
    <3> QED
      BY <1>1, <3>1 DEF MergeReq
  <2> QED
    BY <2>1, <2>2
<1>3. CASE MergeChunk(r)
  <2> DEFINE m == merges[r]
             piece == NextPiece(m)
             p == IF m.next + 1 = m.total THEN "move" ELSE "merge"
  <2>1. CASE piece = None
    <3>1. merges' = [merges EXCEPT ![r].pc = "failed"]
      BY <1>3, <2>1, NullAssumption DEF MergeChunk
    <3> QED
      BY <1>1, <3>1 DEF MergeReq
  <2>2. CASE piece = Torn
    <3>1. merges' = [merges EXCEPT ![r].next = @ + 1, ![r].pc = p]
      BY <1>3, <2>2, NullAssumption DEF MergeChunk
    <3> HIDE DEF p, piece, m
    <3> QED
      BY <1>1, <3>1 DEF MergeReq
  <2>3. CASE piece # None /\ piece # Torn
    <3>1. merges' = [merges EXCEPT ![r].next = @ + 1, ![r].read = Append(@, piece), ![r].pc = p]
      BY <1>3, <2>3 DEF MergeChunk
    <3> HIDE DEF p, piece, m
    <3> QED
      BY <1>1, <3>1 DEF MergeReq
  <2> QED
    BY <2>1, <2>2, <2>3
<1>4. CASE MoveMerged(r)
  BY <1>1, <1>4 DEF MoveMerged, MergeReq
<1>5. CASE MergedGone(r)
  BY <1>1, <1>5 DEF MergedGone, MergeReq
<1>6. CASE OpenObject(r)
  BY <1>1, <1>6 DEF OpenObject, MergeReq
<1>7. CASE CopyObject(r)
  BY <1>1, <1>7 DEF CopyObject, MergeReq
<1>8. CASE CopyFault(r)
  BY <1>1, <1>8 DEF CopyFault, MergeReq
<1>9. CASE RegisterFile(r)
  BY <1>1, <1>9 DEF RegisterFile, MergeReq
<1>10. CASE PublishFile(r)
  BY <1>1, <1>10 DEF PublishFile, MergeReq
<1>11. CASE MarkDone(r)
  BY <1>1, <1>11 DEF MarkDone, MergeReq
<1>12. CASE RemoveTmp(r)
  BY <1>1, <1>12 DEF RemoveTmp, MergeReq
<1>13. CASE MergeFault(r)
  BY <1>1, <1>13 DEF MergeFault, MergeReq
<1> QED
  BY <1>2, <1>3, <1>4, <1>5, <1>6, <1>7, <1>8, <1>9, <1>10, <1>11, <1>12, <1>13 DEF UploadComplete

LEMMA MergesStepBegun ==
  ASSUME TypeOK, SessionsBegun, MergesBegun, [Next]_vars
  PROVE  MergesBegun'
<1> SUFFICES ASSUME NEW q \in Merges, NEW x \in UploadIds, merges'[q].id = x PROVE Begun(x)'
  BY DEF MergesBegun
<1>1. CASE merges'[q].id = merges[q].id
  BY <1>1, BegunGrows DEF MergesBegun
<1>2. ASSUME NEW r \in Merges, NEW u \in Users, NEW id \in UploadIds, SelectForMerge(r, u, id)
      PROVE  Begun(x)'
  <2>1. CASE q = r
    <3>1. id = x /\ session[id] # None
      BY <1>2, <2>1 DEF SelectForMerge, Active, TypeOK, MergesOK, MergeReq
    <3> QED
      BY <3>1, BegunGrows DEF SessionsBegun
  <2>2. CASE q # r
    BY <1>1, <1>2, <2>2 DEF SelectForMerge, TypeOK, MergesOK
  <2> QED
    BY <2>1, <2>2
<1>3. ASSUME NEW r \in Merges, UploadComplete(r),
             \A u \in Users, id \in UploadIds : ~SelectForMerge(r, u, id)
      PROVE  merges'[q].id = merges[q].id
  BY <1>3, MergeKeepsId
<1>4. ASSUME Crash PROVE merges'[q].id = merges[q].id
  BY <1>4 DEF Crash, Lost, TypeOK, MergesOK, MergeReq
<1>5. ASSUME NEW r \in Inits, UploadInit(r) PROVE merges'[q].id = merges[q].id
  BY <1>5 DEF UploadInit, SelectStale, RemoveStale, DeleteStale, MakeDir, InsertSession,
              InitFault, CleanupFault
<1>6. ASSUME NEW r \in Chunks, UploadChunk(r) PROVE merges'[q].id = merges[q].id
  BY <1>6 DEF UploadChunk, SelectForChunk, OpenChunk, WriteChunk, ScanChunks,
              UpdateReceived, ChunkFault
<1>7. ASSUME Tick \/ UNCHANGED vars PROVE merges'[q].id = merges[q].id
  BY <1>7 DEF Tick, vars
<1> QED
  BY <1>1, <1>2, <1>3, <1>4, <1>5, <1>6, <1>7 DEF Next

LEMMA IdInvariant == Spec => []IdInv
<1>1. Init => IdInv
  BY NullAssumption DEF Init, IdInv, IdsDistinct, SessionsBegun, MergesBegun
<1>2. TypeOK /\ IdInv /\ [Next]_vars => IdInv'
  BY DistinctStep, SessionsStep, MergesStepBegun DEF IdInv
<1> QED
  BY <1>1, <1>2, TypeCorrect, PTL DEF Spec

-----------------------------------------------------------------------------
(* The refinement mapping, step by step. *)

Phases == [id \in UploadIds |-> Phase(id)]
Registered == {f.upload : f \in files}

\* A step that neither begins nor purges nor closes a session.
LEMMA PhasesSame ==
  ASSUME \A id \in UploadIds :
           /\ session'[id] = None <=> session[id] = None
           /\ session[id] # None => session'[id].status = session[id].status
           /\ Begun(id)' <=> Begun(id)
  PROVE  Phases' = Phases
<1>1. ASSUME NEW id \in UploadIds PROVE Phase(id)' = Phase(id)
  BY DEF Phase
<1> QED
  BY <1>1 DEF Phases

LEMMA BegunFrame ==
  ASSUME UNCHANGED inits, NEW id
  PROVE  Begun(id)' <=> Begun(id)
  BY DEF Begun

LEMMA PurgeRefines ==
  ASSUME TypeOK, IdInv, NEW r \in Inits, DeleteStale(r)
  PROVE  /\ \E ids \in SUBSET UploadIds :
              /\ \A id \in ids : Phases[id] = "open"
              /\ Phases' = [id \in UploadIds |-> IF id \in ids THEN "expired" ELSE Phases[id]]
         /\ Registered' = Registered
<1> DEFINE ids == {id \in UploadIds : Stale(id, inits[r].uid)}
<1>1. \A id \in UploadIds : Begun(id)' <=> Begun(id)
  BY InitMoves, BegunSame DEF OnlyMoves
<1>2. ASSUME NEW id \in ids PROVE Phases[id] = "open" /\ Phase(id)' = "expired"
  <2>1. session[id] # None /\ session[id].status = 0 /\ session'[id] = None
    BY DEF DeleteStale, Stale
  <2>2. Begun(id)'
    BY <1>1, <2>1 DEF IdInv, SessionsBegun
  <2> QED
    BY <2>1, <2>2 DEF Phases, Phase
<1>3. ASSUME NEW id \in UploadIds \ ids PROVE Phase(id)' = Phases[id]
  <2>1. session'[id] = session[id]
    BY DEF DeleteStale
  <2> QED
    BY <1>1, <2>1 DEF Phases, Phase
<1>4. Phases' = [id \in UploadIds |-> IF id \in ids THEN "expired" ELSE Phases[id]]
  BY <1>2, <1>3 DEF Phases
<1>5. Registered' = Registered
  BY DEF DeleteStale, Registered
<1>6. ids \in SUBSET UploadIds
  OBVIOUS
<1> QED
  BY <1>2, <1>4, <1>5, <1>6

LEMMA InsertRefines ==
  ASSUME TypeOK, IdInv, NEW r \in Inits, NEW n \in 1 .. MaxChunks, InsertSession(r, n)
  PROVE  /\ \E id \in UploadIds : /\ Phases[id] = "none"
                                  /\ Phases' = [Phases EXCEPT ![id] = "open"]
         /\ Registered' = Registered
<1>1. PICK x \in UploadIds : x = inits[r].id
  BY InsertMoves
<1>2. ~Begun(x)
  BY <1>1, InsertMoves, NullAssumption DEF Begun, IdInv, IdsDistinct
<1>3. session[x] = None
  BY <1>2 DEF IdInv, SessionsBegun
<1>4. Phase(x) = "none"
  BY <1>2, <1>3 DEF Phase
<1> DEFINE row == [uid |-> inits[r].uid, total |-> n, received |-> 0,
                   status |-> 0, created |-> now]
<1>5. row.status = 0 /\ row # None /\ session'[x] = row
  <2>1. row.status = 0 /\ session' = [session EXCEPT ![x] = row]
    BY <1>1 DEF InsertSession
  <2>2. row # None
    <3>1. inits[r].uid \in Users /\ now \in 0 .. MaxNow
      BY DEF InsertSession, TypeOK, TablesOK, InitsOK, InitLocals
    <3>2. row \in Row
      BY <3>1, ChunksAssumption DEF Row
    <3> HIDE DEF row
    <3> QED
      BY <3>2, NullAssumption
  <2> QED
    BY <2>1, <2>2 DEF TypeOK, TablesOK
<1> HIDE DEF row
<1>6. Phase(x)' = "open"
  BY <1>5 DEF Phase
<1>7. ASSUME NEW id \in UploadIds, id # x PROVE Phase(id)' = Phase(id)
  <2>1. session'[id] = session[id]
    BY <1>1, <1>7 DEF InsertSession, TypeOK, TablesOK
  <2>2. Begun(id)' <=> Begun(id)
    BY <1>1, <1>7, InsertMoves DEF Begun
  <2> QED
    BY <2>1, <2>2 DEF Phase
<1>8. Registered' = Registered
  BY DEF InsertSession, Registered
<1>9. Phases' = [Phases EXCEPT ![x] = "open"]
  BY <1>6, <1>7 DEF Phases
<1> QED
  BY <1>4, <1>8, <1>9 DEF Phases

LEMMA RegisterRefines ==
  ASSUME TypeOK, IdInv, NEW r \in Merges, RegisterFile(r)
  PROVE  /\ \E id \in UploadIds : /\ Phases[id] # "none"
                                  /\ Registered' = Registered \cup {id}
         /\ Phases' = Phases
<1>1. PICK x \in UploadIds : x = merges[r].id
  BY MergeAtWork DEF RegisterFile, TypeOK, Running, Answered
<1>2. Begun(x)
  BY <1>1 DEF IdInv, MergesBegun
<1>3. Phases[x] # "none"
  BY <1>2 DEF Phases, Phase
<1>4. Registered' = Registered \cup {x}
  <2> DEFINE row == MergeRow(r)
  <2>1. row.upload = x /\ files' = files \cup {row}
    BY <1>1 DEF RegisterFile, MergeRow
  <2> HIDE DEF row
  <2> QED
    BY <2>1 DEF Registered
<1>5. Phases' = Phases
  <2>1. UNCHANGED <<session, inits>>
    BY DEF RegisterFile
  <2> QED
    BY <2>1, PhasesSame, BegunFrame
<1> QED
  BY <1>3, <1>4, <1>5

\* Marking an open session finishes it; marking one that is done already, or that
\* was purged, changes nothing.
LEMMA MarkRefines ==
  ASSUME TypeOK, SafeInv, NEW r \in Merges, MarkDone(r)
  PROVE  /\ \/ \E id \in UploadIds : /\ Phases[id] = "open" /\ id \in Registered
                                     /\ Phases' = [Phases EXCEPT ![id] = "done"]
            \/ Phases' = Phases
         /\ Registered' = Registered
<1>1. PICK x \in UploadIds : x = merges[r].id
  BY MergeAtWork DEF MarkDone, TypeOK, Running, Answered
<1>2. UNCHANGED <<inits, files>>
  BY DEF MarkDone
<1>3. x \in Registered
  <2>1. MergeRow(r) \in files
    BY DEF MarkDone, SafeInv, InOrder
  <2>2. MergeRow(r).upload = x
    BY <1>1 DEF MergeRow
  <2> QED
    BY <2>1, <2>2 DEF Registered
<1>4. \A id \in UploadIds : id # x => session'[id] = session[id]
  BY <1>1 DEF MarkDone, TypeOK, TablesOK
<1>5. CASE session[x] = None
  <2>1. session'[x] = None
    BY <1>1, <1>5 DEF MarkDone, TypeOK, TablesOK
  <2> QED
    BY <1>2, <1>4, <1>5, <2>1, PhasesSame, BegunFrame DEF Registered
<1>6. CASE session[x] # None
  <2>1. session[x] \in Row
    BY <1>6 DEF TypeOK, TablesOK
  <2> DEFINE row == [session[x] EXCEPT !.status = 1]
  <2>2. row \in Row /\ row.status = 1
    BY <2>1 DEF Row
  <2>3. session'[x] = row
    BY <1>1, <1>6 DEF MarkDone, TypeOK, TablesOK
  <2> HIDE DEF row
  <2>4. session'[x] # None /\ session'[x].status = 1
    BY <2>2, <2>3, NullAssumption
  <2>5. CASE session[x].status = 1
    BY <1>2, <1>4, <1>6, <2>4, <2>5, PhasesSame, BegunFrame DEF Registered
  <2>6. CASE session[x].status # 1
    <3>1. Phases[x] = "open" /\ Phase(x)' = "done"
      BY <1>6, <2>4, <2>6 DEF Phases, Phase
    <3>2. ASSUME NEW id \in UploadIds, id # x PROVE Phase(id)' = Phase(id)
      BY <1>2, <1>4, <3>2, BegunFrame DEF Phase
    <3>3. Phases' = [Phases EXCEPT ![x] = "done"]
      BY <3>1, <3>2 DEF Phases
    <3> QED
      BY <1>2, <1>3, <3>1, <3>3 DEF Registered
  <2> QED
    BY <2>5, <2>6
<1> QED
  BY <1>5, <1>6

LEMMA CountRefines ==
  ASSUME TypeOK, NEW r \in Chunks, UpdateReceived(r)
  PROVE  Phases' = Phases /\ Registered' = Registered
<1>1. PICK x \in UploadIds : x = puts[r].id
  BY DEF UpdateReceived, TypeOK, PutsOK, PutLocals
<1>2. UNCHANGED <<inits, files>>
  BY DEF UpdateReceived
<1>3. \A id \in UploadIds : id # x => session'[id] = session[id]
  BY <1>1 DEF UpdateReceived, TypeOK, TablesOK
<1>4. CASE session[x] = None
  <2>1. session'[x] = None
    BY <1>1, <1>4 DEF UpdateReceived, TypeOK, TablesOK
  <2> QED
    BY <1>2, <1>3, <1>4, <2>1, PhasesSame, BegunFrame DEF Registered
<1>5. CASE session[x] # None
  <2>1. session[x] \in Row
    BY <1>5 DEF TypeOK, TablesOK
  <2> DEFINE row == [session[x] EXCEPT !.received = puts[r].count]
  <2>2. row \in Row /\ row.status = session[x].status
    BY <2>1 DEF Row, TypeOK, PutsOK, PutReq
  <2>3. session'[x] = row
    BY <1>1, <1>5 DEF UpdateReceived, TypeOK, TablesOK
  <2> HIDE DEF row
  <2>4. session'[x] # None /\ session'[x].status = session[x].status
    BY <2>2, <2>3, NullAssumption
  <2> QED
    BY <1>2, <1>3, <1>5, <2>4, PhasesSame, BegunFrame DEF Registered
<1> QED
  BY <1>4, <1>5

\* Every other step leaves phases and registrations alone.
LEMMA StutterRefines ==
  ASSUME TypeOK, UNCHANGED <<session, files>>,
         \A id \in UploadIds : Begun(id)' <=> Begun(id)
  PROVE  Phases' = Phases /\ Registered' = Registered
  BY PhasesSame DEF Registered

LEMMA InitRefines ==
  ASSUME TypeOK, IdInv, NEW r \in Inits, UploadInit(r)
  PROVE  [Lifecycle!Next]_(Lifecycle!vars)
<1>1. CASE DeleteStale(r)
  BY <1>1, PurgeRefines
     DEF Lifecycle!Next, Lifecycle!vars, Lifecycle!Expire, Phases, Registered
<1>2. ASSUME NEW n \in 1 .. MaxChunks, InsertSession(r, n)
      PROVE  [Lifecycle!Next]_(Lifecycle!vars)
  BY <1>2, InsertRefines
     DEF Lifecycle!Next, Lifecycle!vars, Lifecycle!Begin, Phases, Registered
<1>3. ASSUME ~DeleteStale(r), \A n \in 1 .. MaxChunks : ~InsertSession(r, n)
      PROVE  Phases' = Phases /\ Registered' = Registered
  <2>1. UNCHANGED <<session, files>>
    BY <1>3 DEF UploadInit, SelectStale, RemoveStale, MakeDir, InitFault, CleanupFault, tables
  <2>2. OnlyMoves(r)
    BY <1>3, InitMoves, MakeDirMoves DEF UploadInit
  <2>3. \A id \in UploadIds : Begun(id)' <=> Begun(id)
    BY <2>2, BegunSame DEF OnlyMoves
  <2> QED
    BY <2>1, <2>3, StutterRefines
<1> QED
  BY <1>1, <1>2, <1>3 DEF Lifecycle!vars, Phases, Registered

LEMMA StepRefines ==
  ASSUME TypeOK, IdInv, SafeInv, [Next]_vars
  PROVE  [Lifecycle!Next]_(Lifecycle!vars)
<1>1. ASSUME NEW r \in Chunks, UploadChunk(r) PROVE Phases' = Phases /\ Registered' = Registered
  <2>1. CASE UpdateReceived(r)
    BY <2>1, CountRefines
  <2>2. CASE ~UpdateReceived(r)
    <3>1. UNCHANGED <<session, files, inits>>
      BY <1>1, <2>2 DEF UploadChunk, SelectForChunk, OpenChunk, WriteChunk, ScanChunks,
                        ChunkFault, tables
    <3> QED
      BY <3>1, StutterRefines, BegunFrame
  <2> QED
    BY <2>1, <2>2
<1>2. ASSUME NEW r \in Merges, UploadComplete(r) PROVE [Lifecycle!Next]_(Lifecycle!vars)
  <2>1. CASE RegisterFile(r)
    BY <2>1, RegisterRefines
       DEF Lifecycle!Next, Lifecycle!vars, Lifecycle!Register, Phases, Registered
  <2>2. CASE MarkDone(r)
    BY <2>2, MarkRefines
       DEF Lifecycle!Next, Lifecycle!vars, Lifecycle!Finish, Phases, Registered
  <2>3. CASE ~RegisterFile(r) /\ ~MarkDone(r)
    <3>1. UNCHANGED <<session, files, inits>>
      BY <1>2, <2>3 DEF UploadComplete, SelectForMerge, OpenMerged, MergeChunk, MoveMerged,
            MergedGone, OpenObject, CopyObject, CopyFault, PublishFile, RemoveTmp, MergeFault,
            tables
    <3> QED
      BY <3>1, StutterRefines, BegunFrame DEF Lifecycle!vars, Phases, Registered
  <2> QED
    BY <2>1, <2>2, <2>3
<1>3. CASE Crash
  <2>1. \A id \in UploadIds : Begun(id)' <=> Begun(id)
    BY <1>3, CrashMoves, BegunSame
  <2> QED
    BY <1>3, <2>1, StutterRefines DEF Crash, tables, Lifecycle!vars, Phases, Registered
<1>4. CASE Tick \/ UNCHANGED vars
  BY <1>4, StutterRefines, BegunFrame
     DEF Tick, vars, tables, Lifecycle!vars, Phases, Registered
<1> QED
  BY <1>1, <1>2, <1>3, <1>4, InitRefines DEF Next, Lifecycle!vars, Phases, Registered

\* The handlers, interleaved in any way, failing and restarted anywhere, implement
\* the life cycle of an upload: it is begun once, it is registered only if begun,
\* and once it is done or expired it stays so.
THEOREM LifecycleImplemented == Spec => ImplementsLifecycle
<1>1. Init => Lifecycle!Init
  BY DEF Init, Lifecycle!Init, Phase, Begun
<1>2. TypeOK /\ IdInv /\ SafeInv /\ [Next]_vars => [Lifecycle!Next]_(Lifecycle!vars)
  BY StepRefines
<1> QED
  BY <1>1, <1>2, TypeCorrect, IdInvariant, SafeInvariant, PTL
     DEF Spec, ImplementsLifecycle, Lifecycle!Spec

-----------------------------------------------------------------------------
(* Counts. *)


AtWork(p) == p.pc \in {"open", "write", "scan", "update"}

PutsBegun ==
  \A r \in Chunks, id \in UploadIds : AtWork(puts[r]) /\ puts[r].id = id => Begun(id)

\* What is about to be written into received_chunks is on disk.
ScansBacked ==
  \A r \in Chunks, id \in dir :
    puts[r].pc = "update" /\ puts[r].id = id => puts[r].count <= Cardinality(Present(id))

ChunksInRange ==
  \A id \in UploadIds : session[id] # None => Present(id) \subseteq 0 .. session[id].total - 1

TotalsAgree ==
  \A r \in Chunks, id \in UploadIds :
    AtWork(puts[r]) /\ puts[r].id = id /\ session[id] # None => puts[r].total = session[id].total

NoChunksBefore == \A id \in UploadIds : ~Begun(id) => Present(id) = {}

CountInv ==
  /\ CountIsBacked /\ ScansBacked /\ PutsBegun /\ ChunksInRange
  /\ TotalsAgree /\ NoChunksBefore /\ MergeFindsChunks

-----------------------------------------------------------------------------
(* Directories and chunk files. *)

\* A directory that is there after a step was there before, with no more chunk
\* files, or is of an id that was not given out; and a chunk file that appears is
\* the one of a chunk request at work.
DiskMoves ==
  \A id \in UploadIds :
    /\ id \in dir' => (id \in dir \/ ~Begun(id)) /\ Present(id) \subseteq Present(id)'
    /\ \A i \in Present(id)' \ Present(id) :
         \E r \in Chunks : AtWork(puts[r]) /\ puts[r].id = id /\ puts[r].idx = i

LEMMA SameDisk ==
  ASSUME UNCHANGED <<dir, chunk>>
  PROVE  DiskMoves
  BY DEF DiskMoves, Present

LEMMA RemoveMoves ==
  ASSUME TypeOK, NEW x \in UploadIds, RemoveDir(x)
  PROVE  DiskMoves
<1> SUFFICES ASSUME NEW id \in UploadIds
             PROVE  /\ id \in dir' => id \in dir /\ Present(id) \subseteq Present(id)'
                    /\ Present(id)' \subseteq Present(id)
  BY DEF DiskMoves
<1>1. id # x => chunk'[id] = chunk[id]
  BY DEF RemoveDir, TypeOK, DiskOK
<1>2. id = x => Present(id)' = {}
  BY DEF RemoveDir, TypeOK, DiskOK, Present
<1>3. id \in dir' => id \in dir /\ id # x
  BY DEF RemoveDir
<1> QED
  BY <1>1, <1>2, <1>3 DEF Present

LEMMA WriteMoves ==
  ASSUME TypeOK, NEW r \in Chunks, AtWork(puts[r]), NEW piece, piece # None,
         chunk' = [chunk EXCEPT ![puts[r].id][puts[r].idx] = piece], UNCHANGED dir
  PROVE  DiskMoves
<1>1. PICK x \in UploadIds, k \in Indices : x = puts[r].id /\ k = puts[r].idx
  BY DEF TypeOK, PutsOK, PutLocals, AtWork
<1> SUFFICES ASSUME NEW id \in UploadIds
             PROVE  /\ Present(id) \subseteq Present(id)'
                    /\ \A i \in Present(id)' \ Present(id) : id = x /\ i = k
  BY <1>1 DEF DiskMoves
<1>2. \A i \in Indices : \/ chunk'[id][i] = chunk[id][i]
                         \/ id = x /\ i = k /\ chunk'[id][i] = piece
  BY <1>1 DEF TypeOK, DiskOK
<1> QED
  BY <1>2 DEF Present

LEMMA DiskStep ==
  ASSUME TypeOK, IdInv, [Next]_vars
  PROVE  DiskMoves
<1>1. ASSUME NEW r \in Inits, UploadInit(r) PROVE DiskMoves
  <2>1. ASSUME NEW id \in UploadIds, RemoveStale(r, id) PROVE DiskMoves
    BY <2>1, SameDisk, RemoveMoves DEF RemoveStale
  <2>2. ASSUME NEW id \in UploadIds, MakeDir(r, id) PROVE DiskMoves
    <3>1. dir' = dir \cup {id} /\ UNCHANGED chunk /\ ~Begun(id)
      BY <2>2 DEF MakeDir, Begun
    <3> QED
      BY <3>1 DEF DiskMoves, Present
  <2> QED
    BY <1>1, <2>1, <2>2, SameDisk
       DEF UploadInit, SelectStale, DeleteStale, InsertSession, InitFault, CleanupFault, disk
<1>2. ASSUME NEW r \in Chunks, UploadChunk(r) PROVE DiskMoves
  <2>1. CASE OpenChunk(r)
    BY <2>1, SameDisk, WriteMoves, NullAssumption DEF OpenChunk, AtWork
  <2>2. CASE WriteChunk(r)
    <3> DEFINE piece == <<puts[r].idx, puts[r].data>>
    <3>1. AtWork(puts[r]) /\ piece \in Piece
      BY <2>2 DEF WriteChunk, AtWork, TypeOK, PutsOK, PutLocals, Piece
    <3>2. piece # None
      BY <3>1, NullAssumption
    <3> QED
      BY <2>2, <3>1, <3>2, SameDisk, WriteMoves DEF WriteChunk
  <2> QED
    BY <1>2, <2>1, <2>2, SameDisk
       DEF UploadChunk, SelectForChunk, ScanChunks, UpdateReceived, ChunkFault, disk
<1>3. ASSUME NEW r \in Merges, UploadComplete(r) PROVE DiskMoves
  <2>1. CASE RemoveTmp(r)
    <3>1. merges[r].id \in UploadIds
      BY <2>1, MergeAtWork DEF RemoveTmp, TypeOK, Running, Answered
    <3> QED
      BY <2>1, <3>1, SameDisk, RemoveMoves DEF RemoveTmp
  <2> QED
    BY <1>3, <2>1, SameDisk
       DEF UploadComplete, SelectForMerge, OpenMerged, MergeChunk, MoveMerged, MergedGone,
           OpenObject, CopyObject, CopyFault, RegisterFile, PublishFile, MarkDone, MergeFault,
           disk
<1> QED
  BY <1>1, <1>2, <1>3, SameDisk DEF Next, Tick, Crash, vars, disk

-----------------------------------------------------------------------------
(* Sessions. *)

\* A session that is there after a step was there before, and its count is the old
\* one or that of a chunk request; or it is new, of an id not given out before.
SessionMoves ==
  \A id \in UploadIds :
    session'[id] # None =>
      \/ /\ session[id] # None /\ session'[id].total = session[id].total
         /\ \/ session'[id].received = session[id].received
            \/ \E r \in Chunks : /\ puts[r].pc = "update" /\ puts[r].id = id
                                 /\ session'[id].received = puts[r].count
      \/ ~Begun(id) /\ session'[id].received = 0

LEMMA SameSessions ==
  ASSUME \A id \in UploadIds : session'[id] = session[id] \/ session'[id] = None
  PROVE  SessionMoves
  BY DEF SessionMoves

LEMMA SessionStep ==
  ASSUME TypeOK, IdInv, [Next]_vars
  PROVE  SessionMoves
<1>1. ASSUME NEW r \in Inits, UploadInit(r) PROVE SessionMoves
  <2>1. CASE DeleteStale(r)
    BY <2>1, SameSessions DEF DeleteStale
  <2>2. ASSUME NEW n \in 1 .. MaxChunks, InsertSession(r, n) PROVE SessionMoves
    <3>1. PICK x \in UploadIds : x = inits[r].id /\ inits[r].pc = "insert"
      BY <2>2, InsertMoves
    <3>2. ~Begun(x)
      BY <3>1, NullAssumption DEF Begun, IdInv, IdsDistinct
    <3> DEFINE row == [uid |-> inits[r].uid, total |-> n, received |-> 0,
                       status |-> 0, created |-> now]
    <3>3. row.received = 0 /\ session' = [session EXCEPT ![x] = row]
      BY <2>2, <3>1 DEF InsertSession
    <3> HIDE DEF row
    <3> QED
      BY <3>2, <3>3 DEF SessionMoves, TypeOK, TablesOK
  <2> QED
    BY <1>1, <2>1, <2>2, SameSessions
       DEF UploadInit, SelectStale, RemoveStale, MakeDir, InitFault, CleanupFault, tables
<1>2. ASSUME NEW r \in Chunks, UploadChunk(r) PROVE SessionMoves
  <2>1. CASE UpdateReceived(r)
    <3>1. PICK x \in UploadIds : x = puts[r].id /\ puts[r].pc = "update"
      BY <2>1 DEF UpdateReceived, TypeOK, PutsOK, PutLocals
    <3>2. \A id \in UploadIds : id # x => session'[id] = session[id]
      BY <2>1, <3>1 DEF UpdateReceived, TypeOK, TablesOK
    <3>3. CASE session[x] = None
      <4>1. session'[x] = None
        BY <2>1, <3>1, <3>3 DEF UpdateReceived, TypeOK, TablesOK
      <4> QED
        BY <3>2, <4>1, SameSessions
    <3>4. CASE session[x] # None
      <4>1. session[x] \in Row
        BY <3>4 DEF TypeOK, TablesOK
      <4> DEFINE row == [session[x] EXCEPT !.received = puts[r].count]
      <4>2. row.total = session[x].total /\ row.received = puts[r].count
        BY <4>1 DEF Row
      <4>3. session'[x] = row
        BY <2>1, <3>1, <3>4 DEF UpdateReceived, TypeOK, TablesOK
      <4> HIDE DEF row
      <4> QED
        BY <3>1, <3>2, <3>4, <4>2, <4>3 DEF SessionMoves
    <3> QED
      BY <3>3, <3>4
  <2> QED
    BY <1>2, <2>1, SameSessions
       DEF UploadChunk, SelectForChunk, OpenChunk, WriteChunk, ScanChunks, ChunkFault, tables
<1>3. ASSUME NEW r \in Merges, UploadComplete(r) PROVE SessionMoves
  <2>1. CASE MarkDone(r)
    <3>1. PICK x \in UploadIds : x = merges[r].id
      BY <2>1, MergeAtWork DEF MarkDone, TypeOK, Running, Answered
    <3>2. \A id \in UploadIds : id # x => session'[id] = session[id]
      BY <2>1, <3>1 DEF MarkDone, TypeOK, TablesOK
    <3>3. CASE session[x] = None
      <4>1. session'[x] = None
        BY <2>1, <3>1, <3>3 DEF MarkDone, TypeOK, TablesOK
      <4> QED
        BY <3>2, <4>1, SameSessions
    <3>4. CASE session[x] # None
      <4>1. session[x] \in Row
        BY <3>4 DEF TypeOK, TablesOK
      <4> DEFINE row == [session[x] EXCEPT !.status = 1]
      <4>2. row.total = session[x].total /\ row.received = session[x].received
        BY <4>1 DEF Row
      <4>3. session'[x] = row
        BY <2>1, <3>1, <3>4 DEF MarkDone, TypeOK, TablesOK
      <4> HIDE DEF row
      <4> QED
        BY <3>2, <3>4, <4>2, <4>3 DEF SessionMoves
    <3> QED
      BY <3>3, <3>4
  <2> QED
    BY <1>3, <2>1, SameSessions
       DEF UploadComplete, SelectForMerge, OpenMerged, MergeChunk, MoveMerged, MergedGone,
           OpenObject, CopyObject, CopyFault, RegisterFile, PublishFile, RemoveTmp, MergeFault,
           tables
<1> QED
  BY <1>1, <1>2, <1>3, SameSessions DEF Next, Tick, Crash, vars, tables

-----------------------------------------------------------------------------
(* Chunk requests. *)

\* A chunk request that is at work after a step was at work before, and about to
\* update only with what it just scanned or had scanned before; or it has just
\* read its session.
PutMoves ==
  \A r \in Chunks :
    AtWork(puts'[r]) =>
      \/ /\ AtWork(puts[r]) /\ puts'[r].id = puts[r].id /\ puts'[r].total = puts[r].total
         /\ puts'[r].pc = "update" =>
              \/ puts[r].pc = "update" /\ puts'[r].count = puts[r].count
              \/ /\ UNCHANGED <<dir, chunk>>
                 /\ puts'[r].count =
                      Cardinality(Present(puts[r].id) \cap (0 .. puts[r].total - 1))
      \/ /\ puts'[r].pc = "open" /\ UNCHANGED session
         /\ \E id \in UploadIds : /\ puts'[r].id = id /\ session[id] # None
                                  /\ puts'[r].total = session[id].total

LEMMA SamePuts ==
  ASSUME \A r \in Chunks : puts'[r] = puts[r] \/ ~AtWork(puts'[r])
  PROVE  PutMoves
  BY DEF PutMoves, AtWork

LEMMA PutStep ==
  ASSUME TypeOK, [Next]_vars
  PROVE  PutMoves
<1>1. puts \in [Chunks -> PutReq]
  BY DEF TypeOK, PutsOK
<1>2. ASSUME NEW r \in Chunks, UploadChunk(r) PROVE PutMoves
  <2>1. ASSUME NEW u \in Users, NEW id \in UploadIds, NEW i \in Indices, NEW v \in Versions,
               SelectForChunk(r, u, id, i, v)
        PROVE  PutMoves
    <3> DEFINE q == [pc |-> "open", id |-> id, idx |-> i, data |-> v,
                     total |-> session[id].total, count |-> 0]
    <3>1. /\ q.pc = "open" /\ q.id = id /\ q.total = session[id].total /\ session[id] # None
          /\ puts' = [puts EXCEPT ![r] = q] /\ UNCHANGED session
      BY <2>1 DEF SelectForChunk, Active, tables
    <3> HIDE DEF q
    <3>2. puts'[r] = q /\ \A p \in Chunks : p # r => puts'[p] = puts[p]
      BY <1>1, <3>1
    <3> QED
      BY <3>1, <3>2 DEF PutMoves, AtWork
  <2>2. CASE OpenChunk(r)
    <3>1. /\ puts'[r].pc \in {"write", "failed"} /\ AtWork(puts[r])
          /\ puts'[r].id = puts[r].id /\ puts'[r].total = puts[r].total
          /\ \A p \in Chunks : p # r => puts'[p] = puts[p]
      BY <1>1, <2>2 DEF OpenChunk, PutReq, AtWork
    <3> QED
      BY <3>1 DEF PutMoves, AtWork
  <2>3. CASE WriteChunk(r)
    <3>1. /\ puts'[r].pc = "scan" /\ AtWork(puts[r])
          /\ puts'[r].id = puts[r].id /\ puts'[r].total = puts[r].total
          /\ \A p \in Chunks : p # r => puts'[p] = puts[p]
      BY <1>1, <2>3 DEF WriteChunk, PutReq, AtWork
    <3> QED
      BY <3>1 DEF PutMoves, AtWork
  <2>4. CASE ScanChunks(r)
    <3> DEFINE n == Cardinality(Present(puts[r].id) \cap (0 .. puts[r].total - 1))
    <3>1. /\ puts' = [puts EXCEPT ![r].count = n, ![r].pc = "update"]
          /\ puts[r].pc = "scan" /\ UNCHANGED <<dir, chunk>>
      BY <2>4 DEF ScanChunks, disk
    <3> HIDE DEF n
    <3>2. /\ AtWork(puts[r]) /\ puts'[r].count = n
          /\ puts'[r].id = puts[r].id /\ puts'[r].total = puts[r].total
          /\ \A p \in Chunks : p # r => puts'[p] = puts[p]
      BY <1>1, <3>1 DEF PutReq, AtWork
    <3> QED
      BY <3>1, <3>2 DEF PutMoves, AtWork, n
  <2>5. CASE UpdateReceived(r) \/ ChunkFault(r)
    BY <1>1, <2>5, SamePuts DEF UpdateReceived, ChunkFault, PutReq, AtWork
  <2> QED
    BY <1>2, <2>1, <2>2, <2>3, <2>4, <2>5 DEF UploadChunk
<1>3. CASE Crash
  BY <1>1, <1>3, SamePuts DEF Crash, Lost, Running, Answered, AtWork, PutReq
<1>4. ASSUME NEW r \in Inits, UploadInit(r) PROVE UNCHANGED puts
  BY <1>4 DEF UploadInit, SelectStale, RemoveStale, DeleteStale, MakeDir, InsertSession,
              InitFault, CleanupFault
<1>5. ASSUME NEW r \in Merges, UploadComplete(r) PROVE UNCHANGED puts
  BY <1>5 DEF UploadComplete, SelectForMerge, OpenMerged, MergeChunk, MoveMerged, MergedGone,
              OpenObject, CopyObject, CopyFault, RegisterFile, PublishFile, MarkDone,
              RemoveTmp, MergeFault
<1> QED
  BY <1>2, <1>3, <1>4, <1>5, SamePuts DEF Next, Tick, vars

-----------------------------------------------------------------------------
(* Merges. *)

\* A merge that is in its loop after a step was there before, or has just passed
\* the check of received_chunks.
MergeMoves ==
  \A r \in Merges :
    merges'[r].pc \in {"open", "merge"} =>
      \/ /\ merges[r].pc \in {"open", "merge"}
         /\ merges'[r].id = merges[r].id /\ merges'[r].total = merges[r].total
      \/ /\ UNCHANGED <<dir, chunk>>
         /\ \E id \in UploadIds : /\ merges'[r].id = id /\ session[id] # None
                                  /\ session[id].received >= session[id].total
                                  /\ merges'[r].total = session[id].total

LEMMA SameMerges ==
  ASSUME \A r \in Merges : merges'[r] = merges[r] \/ merges'[r].pc \notin {"open", "merge"}
  PROVE  MergeMoves
  BY DEF MergeMoves

LEMMA MergeStep ==
  ASSUME TypeOK, [Next]_vars
  PROVE  MergeMoves
<1>1. merges \in [Merges -> MergeReq]
  BY DEF TypeOK, MergesOK
<1>2. ASSUME NEW r \in Merges, UploadComplete(r) PROVE MergeMoves
  <2>1. ASSUME NEW u \in Users, NEW id \in UploadIds, SelectForMerge(r, u, id)
        PROVE  MergeMoves
    <3>1. /\ merges'[r].id = id /\ merges'[r].total = session[id].total
          /\ \A q \in Merges : q # r => merges'[q] = merges[q]
      BY <1>1, <2>1 DEF SelectForMerge, MergeReq
    <3>2. session[id] # None /\ session[id].received >= session[id].total
          /\ UNCHANGED <<dir, chunk>>
      BY <2>1 DEF SelectForMerge, Active, AllReceived, disk
    <3> QED
      BY <3>1, <3>2 DEF MergeMoves
  <2>2. CASE OpenMerged(r)
    <3> DEFINE f == IF merged[merges[r].id] = None THEN <<r, "merged">> ELSE merged[merges[r].id]
    <3>1. CASE merges[r].id \in dir
      <4>1. merges' = [merges EXCEPT ![r].pc = "merge", ![r].out = f] /\ merges[r].pc = "open"
        BY <2>2, <3>1 DEF OpenMerged
      <4> HIDE DEF f
      <4>2. /\ merges'[r].id = merges[r].id /\ merges'[r].total = merges[r].total
            /\ \A q \in Merges : q # r => merges'[q] = merges[q]
        BY <1>1, <4>1 DEF MergeReq
      <4> QED
        BY <4>1, <4>2 DEF MergeMoves
    <3>2. CASE merges[r].id \notin dir
      <4>1. merges' = [merges EXCEPT ![r].pc = "failed"]
        BY <2>2, <3>2 DEF OpenMerged
      <4> QED
        BY <1>1, <4>1, SameMerges DEF MergeReq
    <3> QED
      BY <3>1, <3>2
  <2>3. CASE MergeChunk(r)
    <3> DEFINE m == merges[r]
               piece == NextPiece(m)
               p == IF m.next + 1 = m.total THEN "move" ELSE "merge"
    <3>1. CASE piece = None
      <4>1. merges' = [merges EXCEPT ![r].pc = "failed"]
        BY <2>3, <3>1, NullAssumption DEF MergeChunk
      <4> QED
        BY <1>1, <4>1, SameMerges DEF MergeReq
    <3>2. CASE piece # None
      <4>1. \/ merges' = [merges EXCEPT ![r].next = @ + 1, ![r].pc = p]
            \/ merges' = [merges EXCEPT ![r].next = @ + 1, ![r].read = Append(@, piece), ![r].pc = p]
        <5>1. CASE piece = Torn
          BY <2>3, <3>2, <5>1 DEF MergeChunk
        <5>2. CASE piece # Torn
          BY <2>3, <3>2, <5>2 DEF MergeChunk
        <5> QED
          BY <5>1, <5>2
      <4>2. merges[r].pc = "merge"
        BY <2>3 DEF MergeChunk
      <4> HIDE DEF p, piece, m
      <4>3. /\ merges'[r].id = merges[r].id /\ merges'[r].total = merges[r].total
            /\ \A q \in Merges : q # r => merges'[q] = merges[q]
        BY <1>1, <4>1 DEF MergeReq
      <4> QED
        BY <4>2, <4>3 DEF MergeMoves
    <3> QED
      BY <3>1, <3>2
  <2>4. CASE MoveMerged(r) \/ MergedGone(r) \/ CopyFault(r)
    BY <1>1, <2>4, SameMerges DEF MoveMerged, MergedGone, CopyFault, MergeReq
  <2>5. CASE OpenObject(r)
    BY <1>1, <2>5, SameMerges DEF OpenObject, MergeReq
  <2>6. CASE CopyObject(r)
    BY <1>1, <2>6, SameMerges DEF CopyObject, MergeReq
  <2>7. CASE RegisterFile(r) \/ PublishFile(r) \/ MarkDone(r) \/ RemoveTmp(r) \/ MergeFault(r)
    BY <1>1, <2>7, SameMerges
       DEF RegisterFile, PublishFile, MarkDone, RemoveTmp, MergeFault, MergeReq
  <2> QED
    BY <1>2, <2>1, <2>2, <2>3, <2>4, <2>5, <2>6, <2>7 DEF UploadComplete
<1>3. CASE Crash
  BY <1>1, <1>3, SameMerges DEF Crash, Lost, MergeReq
<1>4. ASSUME NEW r \in Inits, UploadInit(r) PROVE UNCHANGED merges
  BY <1>4 DEF UploadInit, SelectStale, RemoveStale, DeleteStale, MakeDir, InsertSession,
              InitFault, CleanupFault
<1>5. ASSUME NEW r \in Chunks, UploadChunk(r) PROVE UNCHANGED merges
  BY <1>5 DEF UploadChunk, SelectForChunk, OpenChunk, WriteChunk, ScanChunks,
              UpdateReceived, ChunkFault
<1> QED
  BY <1>2, <1>3, <1>4, <1>5, SameMerges DEF Next, Tick, vars

-----------------------------------------------------------------------------
(* The invariant, one conjunct after the other. *)

\* The facts about one step that every conjunct below draws on.
Step == TypeOK /\ TypeOK' /\ IdInv /\ [Next]_vars /\ CountInv

LEMMA StepFacts ==
  ASSUME Step
  PROVE  /\ DiskMoves /\ SessionMoves /\ PutMoves /\ MergeMoves
         /\ \A id \in UploadIds : Begun(id) => Begun(id)'
  BY DiskStep, SessionStep, PutStep, MergeStep, BegunGrows DEF Step

LEMMA PresentFinite ==
  ASSUME NEW id
  PROVE  /\ Present(id) \subseteq Indices /\ IsFiniteSet(Present(id))
         /\ Cardinality(Present(id)) \in Nat
<1>1. Present(id) \in SUBSET Indices
  BY DEF Present
<1>2. IsFiniteSet(Indices)
  BY FS_Interval, ChunksAssumption DEF Indices
<1> QED
  BY <1>1, <1>2, FS_Subset, FS_CardinalityType

LEMMA PresentFiniteAfter ==
  ASSUME NEW id
  PROVE  IsFiniteSet(Present(id)')
<1>1. Present(id)' \in SUBSET Indices
  BY DEF Present
<1>2. IsFiniteSet(Indices)
  BY FS_Interval, ChunksAssumption DEF Indices
<1> QED
  BY <1>1, <1>2, FS_Subset

\* As long as the directory of a given-out id stays, its chunk files do not become
\* fewer.
LEMMA PresentGrows ==
  ASSUME Step, NEW id \in UploadIds, Begun(id), id \in dir'
  PROVE  id \in dir /\ Cardinality(Present(id)) <= Cardinality(Present(id)')
<1>1. id \in dir /\ Present(id) \subseteq Present(id)'
  BY StepFacts DEF DiskMoves
<1>2. IsFiniteSet(Present(id)')
  BY PresentFiniteAfter
<1>3. Present(id) \in SUBSET (Present(id)')
  BY <1>1
<1> HIDE DEF Step
<1> QED
  BY <1>1, <1>2, <1>3, FS_Subset

LEMMA PutsBegunStep ==
  ASSUME Step
  PROVE  PutsBegun'
<1> SUFFICES ASSUME NEW r \in Chunks, NEW id \in UploadIds, AtWork(puts'[r]), puts'[r].id = id
             PROVE  Begun(id)'
  BY DEF PutsBegun, AtWork
<1>1. Begun(id)
  <2>1. CASE AtWork(puts[r]) /\ puts[r].id = id
    BY <2>1 DEF Step, CountInv, PutsBegun
  <2>2. CASE session[id] # None
    BY <2>2 DEF Step, IdInv, SessionsBegun
  <2> QED
    BY <2>1, <2>2, StepFacts DEF PutMoves
<1> QED
  BY <1>1, StepFacts

LEMMA NoChunksStep ==
  ASSUME Step
  PROVE  NoChunksBefore'
<1> SUFFICES ASSUME NEW id \in UploadIds, ~Begun(id)' PROVE Present(id)' = {}
  BY DEF NoChunksBefore
<1>1. ~Begun(id)
  BY StepFacts
<1>2. Present(id) = {}
  BY <1>1 DEF Step, CountInv, NoChunksBefore
<1>3. \A r \in Chunks : ~(AtWork(puts[r]) /\ puts[r].id = id)
  BY <1>1 DEF Step, CountInv, PutsBegun
<1> QED
  BY <1>2, <1>3, StepFacts DEF DiskMoves

LEMMA ChunksInRangeStep ==
  ASSUME Step
  PROVE  ChunksInRange'
<1> SUFFICES ASSUME NEW id \in UploadIds, session'[id] # None, NEW i \in Present(id)'
             PROVE  i \in 0 .. session'[id].total - 1
  BY DEF ChunksInRange
<1>1. CASE session[id] # None /\ session'[id].total = session[id].total
  <2>1. CASE i \in Present(id)
    BY <1>1, <2>1 DEF Step, CountInv, ChunksInRange
  <2>2. CASE i \notin Present(id)
    <3>1. PICK r \in Chunks : AtWork(puts[r]) /\ puts[r].id = id /\ puts[r].idx = i
      BY <2>2, StepFacts DEF DiskMoves
    <3>2. puts[r].total = session[id].total
      BY <1>1, <3>1 DEF Step, CountInv, TotalsAgree
    <3>3. i \in Indices /\ i < puts[r].total /\ puts[r].total \in 0 .. MaxChunks
      BY <3>1 DEF Step, TypeOK, PutsOK, PutLocals, PutReq, AtWork
    <3> QED
      BY <1>1, <3>2, <3>3, ChunksAssumption DEF Indices
  <2> QED
    BY <2>1, <2>2
<1>2. CASE ~Begun(id)
  <2>1. Present(id) = {} /\ \A r \in Chunks : ~(AtWork(puts[r]) /\ puts[r].id = id)
    BY <1>2 DEF Step, CountInv, NoChunksBefore, PutsBegun
  <2> QED
    BY <2>1, StepFacts DEF DiskMoves
<1> QED
  BY <1>1, <1>2, StepFacts DEF SessionMoves

LEMMA TotalsAgreeStep ==
  ASSUME Step
  PROVE  TotalsAgree'
<1> SUFFICES ASSUME NEW r \in Chunks, NEW id \in UploadIds, AtWork(puts'[r]),
                    puts'[r].id = id, session'[id] # None
             PROVE  puts'[r].total = session'[id].total
  BY DEF TotalsAgree, AtWork
<1>1. CASE AtWork(puts[r]) /\ puts[r].id = id /\ puts'[r].total = puts[r].total
  <2>1. Begun(id)
    BY <1>1 DEF Step, CountInv, PutsBegun
  <2>2. session[id] # None /\ session'[id].total = session[id].total
    BY <2>1, StepFacts DEF SessionMoves
  <2> QED
    BY <1>1, <2>2 DEF Step, CountInv, TotalsAgree
<1>2. CASE UNCHANGED session /\ puts'[r].total = session[id].total
  BY <1>2
<1> QED
  BY <1>1, <1>2, StepFacts DEF PutMoves

LEMMA ScansBackedStep ==
  ASSUME Step
  PROVE  ScansBacked'
<1> SUFFICES ASSUME NEW r \in Chunks, NEW id \in dir', puts'[r].pc = "update", puts'[r].id = id
             PROVE  puts'[r].count <= Cardinality(Present(id)')
  BY DEF ScansBacked
<1>1. id \in UploadIds
  BY DEF Step, TypeOK, DiskOK
<1>2. AtWork(puts[r]) /\ puts[r].id = id
  BY StepFacts DEF PutMoves, AtWork
<1>3. id \in dir /\ Cardinality(Present(id)) <= Cardinality(Present(id)')
  BY <1>1, <1>2, PresentGrows DEF Step, CountInv, PutsBegun
<1>4. puts'[r].count \in Nat /\ Cardinality(Present(id)) \in Nat /\ Cardinality(Present(id)') \in Nat
  <2>1. puts'[r].count \in Nat
    BY DEF Step, TypeOK, PutsOK, PutReq
  <2>2. IsFiniteSet(Present(id)')
    BY PresentFiniteAfter
  <2> QED
    BY <2>1, <2>2, PresentFinite, FS_CardinalityType
<1>5. CASE puts[r].pc = "update" /\ puts'[r].count = puts[r].count
  BY <1>2, <1>3, <1>4, <1>5 DEF Step, CountInv, ScansBacked
<1>6. CASE puts'[r].count = Cardinality(Present(id) \cap (0 .. puts[r].total - 1))
  <2>1. Present(id) \cap (0 .. puts[r].total - 1) \in SUBSET Present(id)
    OBVIOUS
  <2>2. puts'[r].count <= Cardinality(Present(id))
    BY <1>6, <2>1, PresentFinite, FS_Subset
  <2> QED
    BY <1>3, <1>4, <2>2
<1> QED
  BY <1>2, <1>5, <1>6, StepFacts DEF PutMoves, AtWork

LEMMA CountIsBackedStep ==
  ASSUME Step
  PROVE  CountIsBacked'
<1> SUFFICES ASSUME NEW id \in dir', session'[id] # None
             PROVE  session'[id].received <= Cardinality(Present(id)')
  BY DEF CountIsBacked
<1>1. id \in UploadIds
  BY DEF Step, TypeOK, DiskOK
<1>2. /\ session'[id].received \in Nat
      /\ Cardinality(Present(id)) \in Nat /\ Cardinality(Present(id)') \in Nat
  <2>1. session'[id].received \in Nat
    BY <1>1 DEF Step, TypeOK, TablesOK, Row
  <2>2. IsFiniteSet(Present(id)')
    BY PresentFiniteAfter
  <2> QED
    BY <2>1, <2>2, PresentFinite, FS_CardinalityType
<1>3. CASE session[id] # None
  <2>1. Begun(id)
    BY <1>1, <1>3 DEF Step, IdInv, SessionsBegun
  <2>2. id \in dir /\ Cardinality(Present(id)) <= Cardinality(Present(id)')
    BY <1>1, <2>1, PresentGrows
  <2>3. session[id].received \in Nat /\ session[id].received <= Cardinality(Present(id))
    BY <1>1, <1>3, <2>2 DEF Step, CountInv, CountIsBacked, TypeOK, TablesOK, Row
  <2>4. \A r \in Chunks : puts[r].pc = "update" /\ puts[r].id = id =>
                            puts[r].count <= Cardinality(Present(id))
    BY <2>2 DEF Step, CountInv, ScansBacked
  <2>5. session'[id].received <= Cardinality(Present(id))
    BY <1>1, <2>1, <2>3, <2>4, StepFacts DEF SessionMoves
  <2> QED
    BY <1>2, <2>2, <2>5
<1>4. CASE session'[id].received = 0
  BY <1>2, <1>4
<1> QED
  BY <1>1, <1>3, <1>4, StepFacts DEF SessionMoves

\* A merge passes the check with at least total chunks counted; they lie below
\* total, so they are all of them.
LEMMA MergeFindsChunksStep ==
  ASSUME Step
  PROVE  MergeFindsChunks'
<1> SUFFICES ASSUME NEW r \in Merges, merges'[r].pc \in {"open", "merge"},
                    NEW id \in dir', merges'[r].id = id
             PROVE  0 .. merges'[r].total - 1 \subseteq Present(id)'
  BY DEF MergeFindsChunks, Present
<1>1. id \in UploadIds
  BY DEF Step, TypeOK, DiskOK
<1>2. CASE /\ merges[r].pc \in {"open", "merge"} /\ merges[r].id = id
           /\ merges'[r].total = merges[r].total
  <2>1. Begun(id)
    BY <1>1, <1>2 DEF Step, IdInv, MergesBegun
  <2>2. id \in dir /\ Present(id) \subseteq Present(id)'
    BY <1>1, <2>1, StepFacts DEF DiskMoves
  <2>3. 0 .. merges[r].total - 1 \subseteq Present(id)
    BY <1>2, <2>2 DEF Step, CountInv, MergeFindsChunks
  <2> QED
    BY <1>2, <2>2, <2>3
<1>3. CASE /\ UNCHANGED <<dir, chunk>> /\ session[id] # None
           /\ session[id].received >= session[id].total
           /\ merges'[r].total = session[id].total
  <2> DEFINE all == 0 .. session[id].total - 1
  <2>1. session[id].received <= Cardinality(Present(id)) /\ Present(id) \in SUBSET all
    BY <1>1, <1>3 DEF Step, CountInv, CountIsBacked, ChunksInRange
  <2>2. session[id].total \in Nat \ {0} /\ session[id].received \in Nat
    BY <1>1, <1>3 DEF Step, TypeOK, TablesOK, Row
  <2>3. IsFiniteSet(all) /\ Cardinality(all) = session[id].total
    <3> DEFINE n == session[id].total
    <3>1. n \in Nat \ {0} /\ n - 1 \in Int
      BY <2>2
    <3> HIDE DEF n
    <3>2. IsFiniteSet(0 .. n - 1) /\ Cardinality(0 .. n - 1) = n
      BY <3>1, FS_Interval
    <3> QED
      BY <3>2 DEF n
  <2>4. Cardinality(Present(id)) <= Cardinality(all) /\ Cardinality(Present(id)) \in Nat
    BY <2>1, <2>3, FS_Subset, PresentFinite
  <2>5. Cardinality(all) = Cardinality(Present(id))
    BY <1>3, <2>1, <2>2, <2>3, <2>4
  <2>6. all = Present(id)
    BY <2>1, <2>3, <2>5, FS_Subset
  <2>7. Present(id)' = Present(id)
    BY <1>3 DEF Present
  <2> QED
    BY <1>3, <2>6, <2>7
<1> QED
  BY <1>2, <1>3, StepFacts DEF MergeMoves

LEMMA CountInvariant == Spec => []CountInv
<1>1. Init => CountInv
  BY DEF Init, CountInv, CountIsBacked, ScansBacked, PutsBegun, ChunksInRange, TotalsAgree,
         NoChunksBefore, MergeFindsChunks, Present, AtWork
<1>2. TypeOK /\ TypeOK' /\ IdInv /\ CountInv /\ [Next]_vars => CountInv'
  <2> SUFFICES ASSUME Step PROVE CountInv'
    BY DEF Step
  <2> QED
    BY CountIsBackedStep, ScansBackedStep, PutsBegunStep, ChunksInRangeStep, TotalsAgreeStep,
       NoChunksStep, MergeFindsChunksStep DEF CountInv
<1> QED
  BY <1>1, <1>2, TypeCorrect, IdInvariant, PTL DEF Spec

\* received_chunks never overstates an upload's directory, although it is written
\* from scans that other requests, failures and restarts may have outdated.
THEOREM CountAlwaysBacked == Spec => []CountIsBacked
<1>1. CountInv => CountIsBacked
  BY DEF CountInv
<1> QED
  BY <1>1, CountInvariant, PTL

\* A merge that has passed the check of received_chunks finds every chunk file as
\* long as its directory is not removed.
THEOREM MergeAlwaysFindsChunks == Spec => []MergeFindsChunks
<1>1. CountInv => MergeFindsChunks
  BY DEF CountInv
<1> QED
  BY <1>1, CountInvariant, PTL

-----------------------------------------------------------------------------
(* Directories without a session. *)

\* A request gets its id from mkdir, and keeps it.
IdsAfterMkdir ==
  \A r \in Inits : inits[r].id # None => inits[r].pc \in {"insert", "ok", "failed", "lost"}

DirsOwned == \A id \in dir : \E r \in Inits : inits[r].id = id

SessionsOwned ==
  \A id \in UploadIds :
    session[id] # None =>
      \E r \in Inits :
        inits[r].id = id /\ inits[r].pc = "ok" /\ inits[r].uid = session[id].uid

\* The session x, which r's cleanup has selected: its directory is gone or will be
\* before the DELETE, which leaves it inactive.
Selected(r, x) ==
  /\ x \notin dir \/ (inits[r].pc = "rm" /\ x \in inits[r].stale)
  /\ Inactive(x) \/ Stale(x, inits[r].uid)
  /\ \E p \in Inits : inits[p].id = x /\ inits[p].pc = "ok" /\ inits[p].uid = inits[r].uid

CleanupsSelect ==
  SilentFaults \/
  \A r \in Inits : inits[r].pc \in {"rm", "purge"} => \E x \in UploadIds : Selected(r, x)

OrphanInv == IdsAfterMkdir /\ DirsOwned /\ SessionsOwned /\ CleanupsSelect /\ OrphansHaveCause

Closed == {"ok", "failed", "lost"}

Opened(id) == session'[id] # None /\ session'[id].status = 0

\* How a request of UploadInit goes from statement to statement.
RequestMoves ==
  \A r \in Inits :
    /\ inits[r].pc \in Closed => inits'[r] = inits[r]
    /\ inits[r].pc # "idle" => inits'[r].uid = inits[r].uid
    /\ inits[r].pc # "mkdir" => inits'[r].id = inits[r].id
    /\ inits'[r].id # inits[r].id => inits'[r].pc = "insert"
    /\ inits[r].pc = "insert" => inits'[r].pc \in {"insert"} \cup Closed
    /\ inits[r].pc \notin {"idle", "rm", "purge"} => inits'[r].pc \notin {"idle", "rm", "purge"}
    /\ inits'[r].pc = "ok" => inits[r].pc = "ok" \/ Opened(inits[r].id)

LEMMA InsertAnswers ==
  ASSUME TypeOK, NEW r \in Inits, NEW n \in 1 .. MaxChunks, InsertSession(r, n)
  PROVE  Opened(inits[r].id)
<1> DEFINE row == [uid |-> inits[r].uid, total |-> n, received |-> 0,
                   status |-> 0, created |-> now]
<1>1. row \in Row /\ row.status = 0
  BY ChunksAssumption DEF InsertSession, Row, TypeOK, TablesOK, InitsOK, InitLocals
<1>2. session'[inits[r].id] = row
  BY InsertMoves DEF InsertSession, TypeOK, TablesOK
<1> HIDE DEF row
<1> QED
  BY <1>1, <1>2, NullAssumption DEF Opened

LEMMA SameRequests ==
  ASSUME NEW r \in Inits, \A q \in Inits : q # r => inits'[q] = inits[q],
         inits[r].pc \notin Closed,
         inits[r].pc # "idle" => inits'[r].uid = inits[r].uid,
         inits[r].pc # "mkdir" => inits'[r].id = inits[r].id,
         inits'[r].id # inits[r].id => inits'[r].pc = "insert",
         inits[r].pc = "insert" => inits'[r].pc \in {"insert"} \cup Closed,
         inits[r].pc \notin {"idle", "rm", "purge"} => inits'[r].pc \notin {"idle", "rm", "purge"},
         inits'[r].pc = "ok" => Opened(inits[r].id)
  PROVE  RequestMoves
  BY DEF RequestMoves, Closed

LEMMA RequestStep ==
  ASSUME TypeOK, [Next]_vars
  PROVE  RequestMoves
<1>1. inits \in [Inits -> InitReq]
  BY DEF TypeOK, InitsOK
<1>2. ASSUME NEW r \in Inits, UploadInit(r) PROVE RequestMoves
  <2>1. ASSUME NEW u \in Users, SelectStale(r, u) PROVE RequestMoves
    BY <2>1, SelectMoves, SameRequests DEF Closed
  <2>2. ASSUME NEW u \in Users, CleanupFault(r, u) PROVE RequestMoves
    BY <1>1, <2>2, SameRequests DEF CleanupFault, InitReq, Closed
  <2>3. ASSUME NEW id \in UploadIds, RemoveStale(r, id) PROVE RequestMoves
    BY <1>1, <2>3, SameRequests DEF RemoveStale, InitReq, Closed
  <2>4. ASSUME NEW id \in UploadIds, MakeDir(r, id) PROVE RequestMoves
    BY <1>1, <2>4, SameRequests DEF MakeDir, InitReq, Closed
  <2>5. ASSUME NEW n \in 1 .. MaxChunks, InsertSession(r, n) PROVE RequestMoves
    <3>1. inits[r].pc = "insert" /\ inits' = [inits EXCEPT ![r].pc = "ok"]
      BY <2>5 DEF InsertSession
    <3>2. Opened(inits[r].id)
      BY <2>5, InsertAnswers
    <3> QED
      BY <1>1, <3>1, <3>2, SameRequests DEF InitReq, Closed
  <2>6. CASE DeleteStale(r) \/ InitFault(r)
    BY <1>1, <2>6, SameRequests DEF DeleteStale, InitFault, InitReq, Closed
  <2> QED
    BY <1>2, <2>1, <2>2, <2>3, <2>4, <2>5, <2>6 DEF UploadInit
<1>3. CASE UNCHANGED inits
  BY <1>3 DEF RequestMoves, Closed
<1>4. CASE Crash
  BY <1>1, <1>4 DEF Crash, Lost, Running, Answered, InitReq, RequestMoves, Closed
<1>5. ASSUME NEW r \in Chunks, UploadChunk(r) PROVE UNCHANGED inits
  BY <1>5 DEF UploadChunk, SelectForChunk, OpenChunk, WriteChunk, ScanChunks,
              UpdateReceived, ChunkFault
<1>6. ASSUME NEW r \in Merges, UploadComplete(r) PROVE UNCHANGED inits
  BY <1>6 DEF UploadComplete, SelectForMerge, OpenMerged, MergeChunk, MoveMerged, MergedGone,
              OpenObject, CopyObject, CopyFault, RegisterFile, PublishFile, MarkDone,
              RemoveTmp, MergeFault
<1> QED
  BY <1>2, <1>3, <1>4, <1>5, <1>6 DEF Next, Tick, vars

\* What may become of a session, and who does it.
Purges(r, id) ==
  /\ inits[r].pc = "purge" /\ inits'[r].pc = "mkdir"
  /\ Stale(id, inits[r].uid)
  /\ UNCHANGED dir
  /\ \A x \in UploadIds : IF Stale(x, inits[r].uid) THEN session'[x] = None
                                                  ELSE session'[x] = session[x]

SessionFates ==
  /\ now' \in Nat /\ now <= now'
  /\ \A id \in UploadIds :
       /\ session[id] = None /\ session'[id] # None =>
            \E r \in Inits : /\ inits[r].id = id /\ inits[r].pc = "insert"
                             /\ inits'[r].id = id /\ inits'[r].pc = "ok"
                             /\ inits'[r].uid = session'[id].uid
                             /\ session'[id].status = 0
       /\ session[id] # None /\ session'[id] = None => \E r \in Inits : Purges(r, id)
       /\ session[id] # None /\ session'[id] # None =>
            /\ session'[id].uid = session[id].uid
            /\ session'[id].created = session[id].created
            /\ \/ session'[id].status = session[id].status
               \/ /\ session'[id].status = 1
                  /\ \E m \in Merges : merges'[m].id = id /\ merges'[m].pc = "rm"

LEMMA SameFates ==
  ASSUME TypeOK, now' \in Nat, now <= now',
         \A id \in UploadIds :
           \/ session'[id] = session[id]
           \/ /\ session[id] # None /\ session'[id] # None
              /\ session'[id].uid = session[id].uid
              /\ session'[id].created = session[id].created
              /\ session'[id].status = session[id].status
  PROVE  SessionFates
  BY DEF SessionFates

LEMMA InsertFates ==
  ASSUME TypeOK, IdInv, NEW r \in Inits, NEW n \in 1 .. MaxChunks, InsertSession(r, n)
  PROVE  SessionFates
<1>1. PICK x \in UploadIds : x = inits[r].id /\ inits[r].pc = "insert"
  BY InsertMoves
<1>2. session[x] = None
  BY <1>1, NullAssumption DEF IdInv, IdsDistinct, SessionsBegun, Begun
<1> DEFINE row == [uid |-> inits[r].uid, total |-> n, received |-> 0,
                   status |-> 0, created |-> now]
<1>3. /\ row.status = 0 /\ row.uid = inits[r].uid
      /\ session' = [session EXCEPT ![x] = row] /\ UNCHANGED now
  BY <1>1 DEF InsertSession
<1> HIDE DEF row
<1>4. session'[x] = row /\ \A id \in UploadIds : id # x => session'[id] = session[id]
  BY <1>3 DEF TypeOK, TablesOK
<1>5. /\ inits'[r].id = x /\ inits'[r].pc = "ok" /\ inits'[r].uid = inits[r].uid
      /\ now \in Nat
  BY <1>1 DEF TypeOK, TablesOK, InitsOK, InitReq, InsertSession
<1> QED
  BY <1>1, <1>2, <1>3, <1>4, <1>5 DEF SessionFates

LEMMA PurgeFates ==
  ASSUME TypeOK, NEW r \in Inits, DeleteStale(r)
  PROVE  SessionFates
<1>1. /\ inits[r].pc = "purge" /\ inits'[r].pc = "mkdir" /\ UNCHANGED <<dir, now>>
      /\ now \in Nat
  BY DEF DeleteStale, TypeOK, TablesOK, InitsOK, InitReq, disk
<1>2. \A x \in UploadIds : IF Stale(x, inits[r].uid) THEN session'[x] = None
                                                   ELSE session'[x] = session[x]
  BY DEF DeleteStale
<1>3. \A id \in UploadIds : session[id] # None /\ session'[id] = None => Purges(r, id)
  BY <1>1, <1>2 DEF Purges
<1> QED
  BY <1>1, <1>2, <1>3 DEF SessionFates

LEMMA MarkFates ==
  ASSUME TypeOK, NEW r \in Merges, MarkDone(r)
  PROVE  SessionFates
<1>1. PICK x \in UploadIds : x = merges[r].id
  BY MergeAtWork DEF MarkDone, TypeOK, Running, Answered
<1>2. \A id \in UploadIds : id # x => session'[id] = session[id]
  BY <1>1 DEF MarkDone, TypeOK, TablesOK
<1>3. merges'[r].id = x /\ merges'[r].pc = "rm"
  BY <1>1 DEF MarkDone, TypeOK, MergesOK, MergeReq
<1>4. UNCHANGED now /\ now \in Nat
  BY DEF MarkDone, TypeOK, TablesOK
<1>5. CASE session[x] = None
  <2>1. session'[x] = None
    BY <1>1, <1>5 DEF MarkDone, TypeOK, TablesOK
  <2> QED
    BY <1>2, <1>4, <1>5, <2>1, SameFates
<1>6. CASE session[x] # None
  <2>1. session[x] \in Row
    BY <1>6 DEF TypeOK, TablesOK
  <2> DEFINE row == [session[x] EXCEPT !.status = 1]
  <2>2. row \in Row /\ row.status = 1 /\ row.uid = session[x].uid
        /\ row.created = session[x].created
    BY <2>1 DEF Row
  <2>3. session'[x] = row
    BY <1>1, <1>6 DEF MarkDone, TypeOK, TablesOK
  <2> HIDE DEF row
  <2> QED
    BY <1>2, <1>3, <1>4, <1>6, <2>2, <2>3, NullAssumption DEF SessionFates
<1> QED
  BY <1>5, <1>6

LEMMA CountFates ==
  ASSUME TypeOK, NEW r \in Chunks, UpdateReceived(r)
  PROVE  SessionFates
<1>1. PICK x \in UploadIds : x = puts[r].id
  BY DEF UpdateReceived, TypeOK, PutsOK, PutLocals
<1>2. \A id \in UploadIds : id # x => session'[id] = session[id]
  BY <1>1 DEF UpdateReceived, TypeOK, TablesOK
<1>3. UNCHANGED now /\ now \in Nat
  BY DEF UpdateReceived, TypeOK, TablesOK
<1>4. CASE session[x] = None
  <2>1. session'[x] = None
    BY <1>1, <1>4 DEF UpdateReceived, TypeOK, TablesOK
  <2> QED
    BY <1>2, <1>3, <1>4, <2>1, SameFates
<1>5. CASE session[x] # None
  <2>1. session[x] \in Row
    BY <1>5 DEF TypeOK, TablesOK
  <2> DEFINE row == [session[x] EXCEPT !.received = puts[r].count]
  <2>2. row \in Row /\ row.status = session[x].status /\ row.uid = session[x].uid
        /\ row.created = session[x].created
    BY <2>1 DEF Row, TypeOK, PutsOK, PutReq
  <2>3. session'[x] = row
    BY <1>1, <1>5 DEF UpdateReceived, TypeOK, TablesOK
  <2> HIDE DEF row
  <2> QED
    BY <1>2, <1>3, <1>5, <2>2, <2>3, NullAssumption, SameFates
<1> QED
  BY <1>4, <1>5

LEMMA FateStep ==
  ASSUME TypeOK, IdInv, [Next]_vars
  PROVE  SessionFates
<1>1. now \in Nat
  BY DEF TypeOK, TablesOK
<1>2. ASSUME UNCHANGED <<session, now>> PROVE SessionFates
  BY <1>1, <1>2, SameFates
<1>3. ASSUME NEW r \in Inits, UploadInit(r) PROVE SessionFates
  <2>1. ASSUME ~DeleteStale(r), \A n \in 1 .. MaxChunks : ~InsertSession(r, n)
        PROVE  UNCHANGED <<session, now>>
    BY <1>3, <2>1 DEF UploadInit, SelectStale, RemoveStale, MakeDir, InitFault, CleanupFault,
                      tables
  <2> QED
    BY <1>2, <2>1, PurgeFates, InsertFates
<1>4. ASSUME NEW r \in Chunks, UploadChunk(r) PROVE SessionFates
  <2>1. ASSUME ~UpdateReceived(r) PROVE UNCHANGED <<session, now>>
    BY <1>4, <2>1 DEF UploadChunk, SelectForChunk, OpenChunk, WriteChunk, ScanChunks, ChunkFault,
                      tables
  <2> QED
    BY <1>2, <2>1, CountFates
<1>5. ASSUME NEW r \in Merges, UploadComplete(r) PROVE SessionFates
  <2>1. ASSUME ~MarkDone(r) PROVE UNCHANGED <<session, now>>
    BY <1>5, <2>1 DEF UploadComplete, SelectForMerge, OpenMerged, MergeChunk, MoveMerged,
                      MergedGone, OpenObject, CopyObject, CopyFault, RegisterFile, PublishFile,
                      RemoveTmp, MergeFault, tables
  <2> QED
    BY <1>2, <2>1, MarkFates
<1>6. CASE Tick
  BY <1>1, <1>6, SameFates DEF Tick
<1>7. CASE Crash \/ UNCHANGED vars
  BY <1>2, <1>7 DEF Crash, vars, tables
<1> QED
  BY <1>3, <1>4, <1>5, <1>6, <1>7 DEF Next

\* A directory that is made is of the id that its request takes, which is new.
DirFates ==
  \A id \in dir' \ dir :
    /\ \E r \in Inits : inits'[r].id = id
    /\ \A r \in Inits : inits[r].id # id

LEMMA DirStep ==
  ASSUME TypeOK, [Next]_vars
  PROVE  DirFates
<1>1. ASSUME dir' \subseteq dir PROVE DirFates
  BY <1>1 DEF DirFates
<1>2. ASSUME NEW r \in Inits, UploadInit(r) PROVE DirFates
  <2>1. ASSUME NEW id \in UploadIds, MakeDir(r, id) PROVE DirFates
    <3>1. inits'[r].id = id
      BY <2>1, MakeDirMoves
    <3> QED
      BY <2>1, <3>1 DEF MakeDir, DirFates
  <2>2. ASSUME \A id \in UploadIds : ~MakeDir(r, id) PROVE dir' \subseteq dir
    BY <1>2, <2>2 DEF UploadInit, SelectStale, RemoveStale, RemoveDir, DeleteStale,
                      InsertSession, InitFault, CleanupFault, disk
  <2> QED
    BY <1>1, <2>1, <2>2
<1>3. ASSUME NEW r \in Chunks, UploadChunk(r) PROVE dir' \subseteq dir
  BY <1>3 DEF UploadChunk, SelectForChunk, OpenChunk, WriteChunk, ScanChunks,
              UpdateReceived, ChunkFault, disk
<1>4. ASSUME NEW r \in Merges, UploadComplete(r) PROVE dir' \subseteq dir
  BY <1>4 DEF UploadComplete, SelectForMerge, OpenMerged, MergeChunk, MoveMerged, MergedGone,
              OpenObject, CopyObject, CopyFault, RegisterFile, PublishFile, MarkDone,
              RemoveTmp, RemoveDir, MergeFault, disk
<1> QED
  BY <1>1, <1>2, <1>3, <1>4 DEF Next, Tick, Crash, vars, disk

\* A complete that closed its session, and whose directory is still there.
Closing(m) ==
  merges[m].pc \in {"rm", "lost"} \cup (IF SilentFaults THEN {"ok"} ELSE {})

ClosingMoves ==
  \A m \in Merges :
    Closing(m) /\ merges[m].id \in dir' => merges'[m].id = merges[m].id /\ Closing(m)'

LEMMA ClosingStep ==
  ASSUME TypeOK, [Next]_vars
  PROVE  ClosingMoves
<1>1. merges \in [Merges -> MergeReq]
  BY DEF TypeOK, MergesOK
<1>2. CASE UNCHANGED merges
  BY <1>2 DEF ClosingMoves, Closing
<1>3. ASSUME NEW r \in Merges, UploadComplete(r) PROVE ClosingMoves
  <2>1. ASSUME NEW m \in Merges, m # r PROVE merges'[m] = merges[m]
    BY <1>3, <2>1, <1>1 DEF UploadComplete, SelectForMerge, OpenMerged, MergeChunk, MoveMerged,
              MergedGone, OpenObject, CopyObject, CopyFault, RegisterFile, PublishFile, MarkDone,
              RemoveTmp, MergeFault
  <2>2. CASE RemoveTmp(r)
    <3>1. merges'[r].id = merges[r].id /\ merges'[r].pc = "ok"
      BY <1>1, <2>2 DEF RemoveTmp, MergeReq
    <3>2. SilentFaults \/ merges[r].id \notin dir'
      BY <2>2 DEF RemoveTmp, RemoveDir
    <3> QED
      BY <2>1, <3>1, <3>2 DEF ClosingMoves, Closing
  <2>3. CASE ~RemoveTmp(r)
    <3>1. ~Closing(r)
      BY <1>3, <2>3 DEF UploadComplete, SelectForMerge, OpenMerged, MergeChunk, MoveMerged,
              MergedGone, OpenObject, CopyObject, CopyFault, RegisterFile, PublishFile, MarkDone,
              MergeFault, Closing
    <3> QED
      BY <2>1, <3>1 DEF ClosingMoves, Closing
  <2> QED
    BY <2>2, <2>3
<1>4. CASE Crash
  BY <1>1, <1>4 DEF Crash, Lost, Running, Answered, MergeReq, ClosingMoves, Closing
<1>5. ASSUME NEW r \in Inits, UploadInit(r) PROVE UNCHANGED merges
  BY <1>5 DEF UploadInit, SelectStale, RemoveStale, DeleteStale, MakeDir, InsertSession,
              InitFault, CleanupFault
<1>6. ASSUME NEW r \in Chunks, UploadChunk(r) PROVE UNCHANGED merges
  BY <1>6 DEF UploadChunk, SelectForChunk, OpenChunk, WriteChunk, ScanChunks,
              UpdateReceived, ChunkFault
<1> QED
  BY <1>2, <1>3, <1>4, <1>5, <1>6 DEF Next, Tick, vars

\* A cleanup goes on with what it has selected, but for what it removes.
CleanupMoves ==
  \A r \in Inits :
    inits'[r].pc \in {"rm", "purge"} =>
      \/ inits'[r] = inits[r]
      \/ /\ inits'[r].pc = "rm" /\ UNCHANGED <<session, now>>
         /\ \E x \in UploadIds \cap inits'[r].stale : Stale(x, inits'[r].uid)
      \/ /\ inits[r].pc = "rm" /\ inits'[r].uid = inits[r].uid
         /\ \E id \in UploadIds :
              /\ SilentFaults \/ id \notin dir'
              /\ \A x \in inits[r].stale :
                   x = id \/ (inits'[r].pc = "rm" /\ x \in inits'[r].stale)

LEMMA CleanupStep ==
  ASSUME TypeOK, [Next]_vars
  PROVE  CleanupMoves
<1>1. inits \in [Inits -> InitReq]
  BY DEF TypeOK, InitsOK
<1>2. ASSUME NEW r \in Inits, \A q \in Inits : q # r => inits'[q] = inits[q],
             inits'[r].pc \notin {"rm", "purge"}
      PROVE  CleanupMoves
  BY <1>2 DEF CleanupMoves
<1>3. ASSUME NEW r \in Inits, UploadInit(r) PROVE CleanupMoves
  <2>1. ASSUME NEW u \in Users, SelectStale(r, u) PROVE CleanupMoves
    <3> DEFINE stale == {id \in UploadIds : Stale(id, u)}
    <3>1. inits' = [inits EXCEPT ![r].uid = u, ![r].stale = stale,
                                 ![r].pc = IF stale = {} THEN "mkdir" ELSE "rm"]
      BY <2>1 DEF SelectStale
    <3>2. \A x \in stale : x \in UploadIds /\ Stale(x, u)
      OBVIOUS
    <3>3. UNCHANGED <<session, now>>
      BY <2>1 DEF SelectStale, tables
    <3> HIDE DEF stale
    <3>4. /\ inits'[r].uid = u /\ inits'[r].stale = stale
          /\ inits'[r].pc = IF stale = {} THEN "mkdir" ELSE "rm"
          /\ \A q \in Inits : q # r => inits'[q] = inits[q]
      BY <1>1, <3>1 DEF InitReq
    <3>5. CASE stale = {}
      BY <1>2, <3>4, <3>5
    <3>6. CASE stale # {}
      <4>1. PICK x \in stale : TRUE
        BY <3>6
      <4>2. inits'[r].pc = "rm" /\ x \in UploadIds \cap inits'[r].stale /\ Stale(x, inits'[r].uid)
        BY <3>2, <3>4, <3>6, <4>1
      <4> QED
        BY <3>3, <3>4, <4>2 DEF CleanupMoves
    <3> QED
      BY <3>5, <3>6
  <2>2. ASSUME NEW id \in UploadIds, RemoveStale(r, id) PROVE CleanupMoves
    <3>1. /\ inits[r].pc = "rm" /\ inits'[r].uid = inits[r].uid
          /\ inits'[r].stale = inits[r].stale \ {id}
          /\ inits'[r].pc = IF inits[r].stale = {id} THEN "purge" ELSE "rm"
          /\ \A q \in Inits : q # r => inits'[q] = inits[q]
      BY <1>1, <2>2 DEF RemoveStale, InitReq
    <3>2. SilentFaults \/ id \notin dir'
      BY <2>2 DEF RemoveStale, RemoveDir
    <3>3. \A x \in inits[r].stale : x = id \/ (inits'[r].pc = "rm" /\ x \in inits'[r].stale)
      BY <3>1
    <3> QED
      BY <3>1, <3>2, <3>3 DEF CleanupMoves
  <2>3. ASSUME NEW u \in Users, CleanupFault(r, u) PROVE CleanupMoves
    BY <1>1, <1>2, <2>3 DEF CleanupFault, InitReq
  <2>4. ASSUME NEW id \in UploadIds, MakeDir(r, id) PROVE CleanupMoves
    BY <1>1, <1>2, <2>4 DEF MakeDir, InitReq
  <2>5. ASSUME NEW n \in 1 .. MaxChunks, InsertSession(r, n) PROVE CleanupMoves
    BY <1>1, <1>2, <2>5 DEF InsertSession, InitReq
  <2>6. CASE DeleteStale(r) \/ InitFault(r)
    BY <1>1, <1>2, <2>6 DEF DeleteStale, InitFault, InitReq
  <2> QED
    BY <1>3, <2>1, <2>2, <2>3, <2>4, <2>5, <2>6 DEF UploadInit
<1>4. CASE UNCHANGED inits
  BY <1>4 DEF CleanupMoves
<1>5. CASE Crash
  BY <1>1, <1>5 DEF Crash, Lost, Running, Answered, InitReq, CleanupMoves
<1>6. ASSUME NEW r \in Chunks, UploadChunk(r) PROVE UNCHANGED inits
  BY <1>6 DEF UploadChunk, SelectForChunk, OpenChunk, WriteChunk, ScanChunks,
              UpdateReceived, ChunkFault
<1>7. ASSUME NEW r \in Merges, UploadComplete(r) PROVE UNCHANGED inits
  BY <1>7 DEF UploadComplete, SelectForMerge, OpenMerged, MergeChunk, MoveMerged, MergedGone,
              OpenObject, CopyObject, CopyFault, RegisterFile, PublishFile, MarkDone,
              RemoveTmp, MergeFault
<1> QED
  BY <1>3, <1>4, <1>5, <1>6, <1>7 DEF Next, Tick, vars

\* One step of a state in which the invariant holds, seen as above.
OrphanStep ==
  /\ TypeOK /\ TypeOK' /\ IdInv /\ OrphanInv
  /\ RequestMoves /\ SessionFates /\ DirFates /\ ClosingMoves /\ CleanupMoves

LEMMA IdsAfterMkdirStep ==
  ASSUME OrphanStep
  PROVE  IdsAfterMkdir'
  BY DEF OrphanStep, OrphanInv, IdsAfterMkdir, RequestMoves, Closed

\* Who has an id keeps it.
LEMMA IdStays ==
  ASSUME OrphanStep, NEW r \in Inits, NEW id \in UploadIds, inits[r].id = id
  PROVE  inits'[r].id = id /\ inits'[r].uid = inits[r].uid
<1>1. inits[r].pc \in {"insert"} \cup Closed
  BY NullAssumption DEF OrphanStep, OrphanInv, IdsAfterMkdir, Closed
<1> QED
  BY <1>1 DEF OrphanStep, RequestMoves, Closed

LEMMA DirsOwnedStep ==
  ASSUME OrphanStep
  PROVE  DirsOwned'
<1> SUFFICES ASSUME NEW id \in dir' PROVE \E r \in Inits : inits'[r].id = id
  BY DEF DirsOwned
<1>1. id \in UploadIds
  BY DEF OrphanStep, TypeOK, DiskOK
<1>2. CASE id \in dir
  BY <1>1, <1>2, IdStays DEF OrphanStep, OrphanInv, DirsOwned
<1> QED
  BY <1>2 DEF OrphanStep, DirFates

LEMMA SessionsOwnedStep ==
  ASSUME OrphanStep
  PROVE  SessionsOwned'
<1> SUFFICES ASSUME NEW id \in UploadIds, session'[id] # None
             PROVE  \E r \in Inits : /\ inits'[r].id = id /\ inits'[r].pc = "ok"
                                     /\ inits'[r].uid = session'[id].uid
  BY DEF SessionsOwned
<1>1. CASE session[id] = None
  BY <1>1 DEF OrphanStep, SessionFates
<1>2. CASE session[id] # None
  <2>1. PICK r \in Inits : inits[r].id = id /\ inits[r].pc = "ok" /\ inits[r].uid = session[id].uid
    BY <1>2 DEF OrphanStep, OrphanInv, SessionsOwned
  <2>2. inits'[r] = inits[r]
    BY <2>1 DEF OrphanStep, RequestMoves, Closed
  <2>3. session'[id].uid = session[id].uid
    BY <1>2 DEF OrphanStep, SessionFates
  <2> QED
    BY <2>1, <2>2, <2>3
<1> QED
  BY <1>1, <1>2

\* An upload whose init has answered stays inactive once it is.
LEMMA InactiveStays ==
  ASSUME OrphanStep, NEW r \in Inits, NEW id \in UploadIds,
         inits[r].id = id, inits[r].pc = "ok", Inactive(id)
  PROVE  Inactive(id)'
<1>1. CASE session[id] = None
  <2>1. \A q \in Inits : inits[q].id = id => inits[q].pc = "ok"
    BY NullAssumption DEF OrphanStep, IdInv, IdsDistinct
  <2>2. session'[id] = None
    BY <1>1, <2>1 DEF OrphanStep, SessionFates
  <2> QED
    BY <2>2 DEF Inactive
<1>2. CASE session[id] # None
  BY <1>2 DEF OrphanStep, SessionFates, Inactive
<1> QED
  BY <1>1, <1>2

\* And what is stale stays so until it is purged or done.
LEMMA PurgeableStays ==
  ASSUME OrphanStep, NEW r \in Inits, NEW id \in UploadIds, NEW u,
         inits[r].id = id, inits[r].pc = "ok", Inactive(id) \/ Stale(id, u)
  PROVE  Inactive(id)' \/ Stale(id, u)'
<1>1. CASE Inactive(id)
  BY <1>1, InactiveStays
<1>2. CASE Stale(id, u) /\ session'[id] # None
  <2>1. session[id] \in Row /\ session'[id] \in Row
    BY <1>2 DEF OrphanStep, TypeOK, TablesOK, Stale
  <2>2. /\ session'[id].uid = u /\ session'[id].created = session[id].created
        /\ session'[id].status \in {0, 1} /\ session[id].created + TTL < now
    BY <1>2, <2>1 DEF OrphanStep, SessionFates, Stale, Row
  <2>3. session'[id].created + TTL < now'
    <3>1. /\ now \in Nat /\ now' \in Nat /\ now <= now' /\ TTL \in Nat
          /\ session[id].created \in Nat
      BY <2>1, ClockAssumption DEF OrphanStep, SessionFates, TypeOK, TablesOK, Row
    <3> QED
      BY <2>2, <3>1
  <2> QED
    BY <1>2, <2>2, <2>3 DEF Inactive, Stale
<1> QED
  BY <1>1, <1>2 DEF Inactive

LEMMA CleanupsSelectStep ==
  ASSUME OrphanStep
  PROVE  CleanupsSelect'
<1> SUFFICES ASSUME ~SilentFaults, NEW r \in Inits, inits'[r].pc \in {"rm", "purge"}
             PROVE  \E x \in UploadIds : Selected(r, x)'
  BY DEF CleanupsSelect
<1>1. CASE /\ inits'[r].pc = "rm" /\ UNCHANGED <<session, now>>
           /\ \E x \in UploadIds \cap inits'[r].stale : Stale(x, inits'[r].uid)
  <2>1. PICK x \in UploadIds \cap inits'[r].stale : Stale(x, inits'[r].uid)
    BY <1>1
  <2>2. PICK p \in Inits : inits[p].id = x /\ inits[p].pc = "ok" /\ inits[p].uid = session[x].uid
    BY <2>1 DEF OrphanStep, OrphanInv, SessionsOwned, Stale
  <2>3. inits'[p] = inits[p] /\ session[x].uid = inits'[r].uid
    BY <2>1, <2>2 DEF OrphanStep, RequestMoves, Closed, Stale
  <2>4. Stale(x, inits[r].uid)'
    BY <1>1, <2>1 DEF Stale
  <2> QED
    BY <1>1, <2>1, <2>2, <2>3, <2>4 DEF Selected
<1>2. CASE /\ inits[r].pc \in {"rm", "purge"} /\ inits'[r].uid = inits[r].uid
           /\ \A x \in UploadIds :
                inits[r].pc = "rm" /\ x \in inits[r].stale =>
                  x \notin dir' \/ (inits'[r].pc = "rm" /\ x \in inits'[r].stale)
  <2>1. PICK x \in UploadIds : Selected(r, x)
    BY <1>2 DEF OrphanStep, OrphanInv, CleanupsSelect
  <2>2. PICK p \in Inits : inits[p].id = x /\ inits[p].pc = "ok" /\ inits[p].uid = inits[r].uid
    BY <2>1 DEF Selected
  <2>3. inits'[p] = inits[p]
    BY <2>2 DEF OrphanStep, RequestMoves, Closed
  <2>4. Inactive(x)' \/ Stale(x, inits[r].uid)'
    <3>1. PICK u \in Users : u = inits[r].uid
      BY <1>2 DEF OrphanStep, TypeOK, InitsOK, InitLocals
    <3>2. Inactive(x) \/ Stale(x, u)
      BY <2>1, <3>1 DEF Selected
    <3>3. Inactive(x)' \/ Stale(x, u)'
      BY <2>2, <3>2, PurgeableStays
    <3> QED
      BY <1>2, <3>1, <3>3 DEF Stale
  <2>5. x \notin dir => x \notin dir'
    BY <2>2 DEF OrphanStep, DirFates
  <2> QED
    BY <1>2, <2>1, <2>2, <2>3, <2>4, <2>5 DEF Selected
<1> QED
  BY <1>1, <1>2 DEF OrphanStep, CleanupMoves

\* Another cleanup of the same user remains what it was.
LEMMA PurgedStays ==
  ASSUME OrphanStep, NEW r \in Inits, inits[r].pc = "ok", PurgedWith(r)
  PROVE  PurgedWith(r)'
<1>1. PICK q \in Inits \ {r} :
        /\ inits[q].uid = inits[r].uid /\ inits[q].pc \notin {"idle", "rm", "purge"}
        /\ SilentFaults \/ \E p \in Inits \ {q, r} :
             inits[p].uid = inits[r].uid /\ inits[p].pc = "ok" /\ Inactive(inits[p].id)
  BY DEF PurgedWith
<1>2. inits'[q].uid = inits[q].uid /\ inits'[q].pc \notin {"idle", "rm", "purge"}
  BY <1>1 DEF OrphanStep, RequestMoves
<1>3. inits'[r] = inits[r]
  BY DEF OrphanStep, RequestMoves, Closed
<1>4. ASSUME NEW p \in Inits, inits[p].uid = inits[r].uid, inits[p].pc = "ok", Inactive(inits[p].id)
      PROVE  inits'[p].uid = inits'[r].uid /\ inits'[p].pc = "ok" /\ Inactive(inits[p].id)'
  <2>1. PICK x \in UploadIds : x = inits[p].id
    BY <1>4 DEF OrphanStep, TypeOK, InitsOK, InitLocals
  <2>2. Inactive(x)'
    BY <1>4, <2>1, InactiveStays
  <2>3. inits'[p] = inits[p]
    BY <1>4 DEF OrphanStep, RequestMoves, Closed
  <2> QED
    BY <1>3, <1>4, <2>1, <2>2, <2>3 DEF Inactive
<1> QED
  BY <1>1, <1>2, <1>3, <1>4 DEF PurgedWith

\* A DELETE that hits a session whose directory is there has deleted one that its
\* SELECT had found, or found it done.
LEMMA PurgeHasCause ==
  ASSUME OrphanStep, NEW r \in Inits, NEW id \in dir, inits[r].id = id, inits[r].pc = "ok",
         session[id] # None, NEW q \in Inits, Purges(q, id)
  PROVE  PurgedWith(r)'
<1>1. id \in UploadIds
  BY DEF OrphanStep, TypeOK, DiskOK
<1>2. inits[r].uid = session[id].uid
  <2>1. PICK o \in Inits : inits[o].id = id /\ inits[o].uid = session[id].uid
    BY <1>1 DEF OrphanStep, OrphanInv, SessionsOwned
  <2>2. o = r
    BY <1>1, <2>1, NullAssumption DEF OrphanStep, IdInv, IdsDistinct
  <2> QED
    BY <2>1, <2>2
<1>3. /\ q # r /\ inits'[r] = inits[r]
      /\ inits'[q].uid = inits[r].uid /\ inits'[q].pc = "mkdir"
  <2>1. inits[q].pc = "purge" /\ inits'[q].pc = "mkdir" /\ inits[q].uid = session[id].uid
    BY DEF Purges, Stale
  <2> QED
    BY <1>2, <2>1 DEF OrphanStep, RequestMoves, Closed
<1>4. CASE SilentFaults
  BY <1>3, <1>4 DEF PurgedWith
<1>5. CASE ~SilentFaults
  <2>1. PICK x \in UploadIds : Selected(q, x)
    BY <1>5 DEF OrphanStep, OrphanInv, CleanupsSelect, Purges
  <2>2. x # id
    BY <2>1 DEF Selected, Purges
  <2>3. PICK p \in Inits : inits[p].id = x /\ inits[p].pc = "ok" /\ inits[p].uid = inits[q].uid
    BY <2>1 DEF Selected
  <2>4. p # q /\ p # r /\ inits'[p] = inits[p]
    BY <2>2, <2>3 DEF Purges, OrphanStep, RequestMoves, Closed
  <2>5. Inactive(x)'
    <3>1. CASE Inactive(x)
      BY <2>3, <3>1, InactiveStays
    <3>2. CASE Stale(x, inits[q].uid)
      BY <3>2 DEF Purges, Inactive
    <3> QED
      BY <2>1, <3>1, <3>2 DEF Selected
  <2>6. inits'[p].uid = inits'[r].uid /\ inits'[p].pc = "ok" /\ Inactive(inits[p].id)'
    <3>1. inits[q].uid = inits[r].uid
      BY <1>2 DEF Purges, Stale
    <3> QED
      BY <1>3, <2>3, <2>4, <2>5, <3>1 DEF Inactive
  <2> QED
    BY <1>3, <2>4, <2>6 DEF PurgedWith
<1> QED
  BY <1>4, <1>5

\* Orphans keep their cause, and a step that makes one gives it one.
LEMMA OrphansStep ==
  ASSUME OrphanStep
  PROVE  OrphansHaveCause'
<1> SUFFICES ASSUME NEW id \in dir', Inactive(id)'
             PROVE  \/ \E r \in Inits : /\ inits'[r].id = id
                                        /\ inits'[r].pc \in {"insert", "failed", "lost"}
                    \/ /\ session'[id] = None
                       /\ \E r \in Inits : inits'[r].id = id /\ PurgedWith(r)'
                    \/ /\ session'[id] # None
                       /\ \E m \in Merges : merges'[m].id = id /\ Closing(m)'
  BY DEF OrphansHaveCause, Closing
<1>1. id \in UploadIds
  BY DEF OrphanStep, TypeOK, DiskOK
<1>2. PICK r \in Inits : inits'[r].id = id
  BY DirsOwnedStep DEF DirsOwned
<1> SUFFICES ASSUME inits'[r].pc = "ok"
             PROVE  \/ session'[id] = None /\ PurgedWith(r)'
                    \/ /\ session'[id] # None
                       /\ \E m \in Merges : merges'[m].id = id /\ Closing(m)'
  <2>1. inits'[r].pc \in {"insert", "ok", "failed", "lost"}
    BY <1>1, <1>2, IdsAfterMkdirStep, NullAssumption DEF IdsAfterMkdir
  <2> QED
    BY <1>2, <2>1
<1>3. inits[r].id = id
  BY <1>2 DEF OrphanStep, RequestMoves
<1>4. inits[r].pc = "ok"
  BY <1>2, <1>3 DEF OrphanStep, RequestMoves, Opened, Inactive
<1>5. id \in dir
  BY <1>3 DEF OrphanStep, DirFates
<1>6. \A q \in Inits : inits[q].id = id => q = r
  BY <1>1, <1>3, NullAssumption DEF OrphanStep, IdInv, IdsDistinct
<1>7. CASE session'[id] = None /\ session[id] = None
  <2>1. PurgedWith(r)
    BY <1>4, <1>5, <1>6, <1>7 DEF OrphanStep, OrphanInv, OrphansHaveCause, Inactive
  <2> QED
    BY <1>4, <1>7, <2>1, PurgedStays
<1>8. CASE session'[id] = None /\ session[id] # None
  <2>1. PICK q \in Inits : Purges(q, id)
    BY <1>1, <1>8 DEF OrphanStep, SessionFates
  <2> QED
    BY <1>3, <1>4, <1>5, <1>8, <2>1, PurgeHasCause
<1>9. CASE session'[id] # None
  <2>1. session[id] # None
    BY <1>1, <1>4, <1>6, <1>9 DEF OrphanStep, SessionFates
  <2>2. CASE session[id].status = 1
    <3>1. PICK m \in Merges : merges[m].id = id /\ Closing(m)
      BY <1>4, <1>5, <1>6, <2>1, <2>2
         DEF OrphanStep, OrphanInv, OrphansHaveCause, Inactive, Closing
    <3>2. merges'[m].id = id /\ Closing(m)'
      BY <3>1 DEF OrphanStep, ClosingMoves
    <3> QED
      BY <1>9, <3>2
  <2>3. CASE session[id].status # 1
    <3>1. PICK m \in Merges : merges'[m].id = id /\ merges'[m].pc = "rm"
      BY <1>1, <1>9, <2>1, <2>3 DEF OrphanStep, SessionFates, Inactive
    <3> QED
      BY <1>9, <3>1 DEF Closing
  <2> QED
    BY <2>2, <2>3
<1> QED
  BY <1>7, <1>8, <1>9

LEMMA OrphanInvariant == Spec => []OrphanInv
<1>1. Init => OrphanInv
  BY DEF Init, OrphanInv, IdsAfterMkdir, DirsOwned, SessionsOwned, CleanupsSelect,
         OrphansHaveCause
<1>2. TypeOK /\ TypeOK' /\ IdInv /\ OrphanInv /\ [Next]_vars => OrphanInv'
  <2> SUFFICES ASSUME TypeOK, TypeOK', IdInv, OrphanInv, [Next]_vars PROVE OrphanInv'
    OBVIOUS
  <2>1. OrphanStep
    BY RequestStep, FateStep, DirStep, ClosingStep, CleanupStep DEF OrphanStep
  <2> QED
    BY <2>1, IdsAfterMkdirStep, DirsOwnedStep, SessionsOwnedStep, CleanupsSelectStep, OrphansStep
       DEF OrphanInv
<1> QED
  BY <1>1, <1>2, TypeCorrect, IdInvariant, PTL DEF Spec

\* Directories that no cleanup will find are left only where an init or a complete
\* was cut off, where rm failed unseen, or by a cleanup whose DELETE, at a later
\* NOW(), hit a session that its SELECT had not found.
THEOREM OrphansAlwaysHaveCause == Spec => []OrphansHaveCause
<1>1. OrphanInv => OrphansHaveCause
  BY DEF OrphanInv
<1> QED
  BY <1>1, OrphanInvariant, PTL

-----------------------------------------------------------------------------
(* Files registered again. *)

\* A complete that has been past its INSERT.
Registering == {"publish", "mark", "rm", "ok", "failed", "lost"}

RowsByCompletes ==
  \A f \in files : f.by \in Merges /\ merges[f.by].id = f.upload /\ merges[f.by].pc \in Registering

\* And one that is past its UPDATE too.
MarkedInactive == \A r \in Merges : merges[r].pc \in {"rm", "ok"} => Inactive(merges[r].id)

\* A complete keeps the id that its SELECT was for.
IdsKept == \A r \in Merges : merges[r].pc # "idle" => merges[r].id \in UploadIds

RegisterInv == RowsByCompletes /\ MarkedInactive /\ IdsKept

\* How a request of UploadComplete goes from statement to statement, and the only
\* two of them that add a row and close a session.
MergeCourse ==
  /\ \A r \in Merges :
       /\ merges[r].pc # "idle" => merges'[r].id = merges[r].id
       /\ merges[r].pc \in Registering => merges'[r].pc \in Registering
       /\ merges'[r].pc \in {"rm", "ok"} =>
            merges[r].pc \in {"rm", "ok"} \/ Inactive(merges[r].id)'
       /\ merges[r].pc = "idle" /\ merges'[r].pc # "idle" =>
            merges'[r].id \in UploadIds /\ Active(merges'[r].id, merges'[r].uid)
  /\ \A f \in files' \ files :
       f.by \in Merges /\ merges'[f.by].id = f.upload /\ merges'[f.by].pc = "publish"

LEMMA SameCourse ==
  ASSUME UNCHANGED files, NEW r \in Merges, \A q \in Merges : q # r => merges'[q] = merges[q],
         merges[r].pc # "idle", merges'[r].id = merges[r].id,
         merges[r].pc \in Registering => merges'[r].pc \in Registering,
         merges'[r].pc \in {"rm", "ok"} => merges[r].pc \in {"rm", "ok"}
  PROVE  MergeCourse
  BY DEF MergeCourse

LEMMA MarkCloses ==
  ASSUME TypeOK, NEW r \in Merges, MarkDone(r)
  PROVE  Inactive(merges[r].id)'
<1>1. PICK x \in UploadIds : x = merges[r].id
  BY MergeAtWork DEF MarkDone, TypeOK, Running, Answered
<1>2. merges'[r].id = x
  BY <1>1 DEF MarkDone, TypeOK, MergesOK, MergeReq
<1>3. CASE session[x] = None
  BY <1>1, <1>2, <1>3 DEF MarkDone, TypeOK, TablesOK, Inactive
<1>4. CASE session[x] # None
  <2> DEFINE row == [session[x] EXCEPT !.status = 1]
  <2>1. row.status = 1
    BY <1>4 DEF TypeOK, TablesOK, Row
  <2>2. session'[x] = row
    BY <1>1, <1>4 DEF MarkDone, TypeOK, TablesOK
  <2> HIDE DEF row
  <2> QED
    BY <1>1, <1>2, <2>1, <2>2 DEF Inactive
<1> QED
  BY <1>3, <1>4

LEMMA CourseOfComplete ==
  ASSUME TypeOK, NEW r \in Merges, UploadComplete(r)
  PROVE  MergeCourse
<1>1. merges \in [Merges -> MergeReq]
  BY DEF TypeOK, MergesOK
<1>2. ASSUME NEW u \in Users, NEW id \in UploadIds, SelectForMerge(r, u, id) PROVE MergeCourse
  <2>1. /\ merges[r].pc = "idle" /\ merges'[r].pc = "open" /\ merges'[r].uid = u
        /\ merges'[r].id = id /\ UNCHANGED files
        /\ \A q \in Merges : q # r => merges'[q] = merges[q]
    BY <1>1, <1>2 DEF SelectForMerge, MergeReq, tables
  <2>2. Active(id, u)
    BY <1>2 DEF SelectForMerge
  <2> QED
    BY <2>1, <2>2 DEF MergeCourse, Registering
<1>3. ASSUME \A u \in Users, id \in UploadIds : ~SelectForMerge(r, u, id)
      PROVE  \A q \in Merges : merges'[q].id = merges[q].id
  BY <1>3, MergeKeepsId
<1>4. CASE OpenMerged(r) \/ MergeChunk(r)
  <2>1. /\ UNCHANGED files /\ merges[r].pc \in {"open", "merge"}
        /\ merges'[r].pc \in {"merge", "move", "failed"}
        /\ \A q \in Merges : q # r => merges'[q] = merges[q]
    BY <1>1, <1>4 DEF OpenMerged, MergeChunk, MergeReq, tables
  <2>2. \A u \in Users, id \in UploadIds : ~SelectForMerge(r, u, id)
    BY <2>1 DEF SelectForMerge
  <2> QED
    BY <1>3, <2>1, <2>2, SameCourse DEF Registering
<1>5. CASE MoveMerged(r) \/ MergedGone(r) \/ OpenObject(r) \/ CopyObject(r) \/ CopyFault(r)
  <2>1. /\ UNCHANGED files /\ merges[r].pc \in {"move", "copy"}
        /\ merges'[r].pc \in {"copy", "register", "failed"}
        /\ \A q \in Merges : q # r => merges'[q] = merges[q]
    BY <1>1, <1>5 DEF MoveMerged, MergedGone, OpenObject, CopyObject, CopyFault, MergeReq, tables
  <2>2. \A u \in Users, id \in UploadIds : ~SelectForMerge(r, u, id)
    BY <2>1 DEF SelectForMerge
  <2> QED
    BY <1>3, <2>1, <2>2, SameCourse DEF Registering
<1>6. CASE PublishFile(r) \/ RemoveTmp(r) \/ MergeFault(r)
  <2>1. /\ UNCHANGED files /\ merges[r].pc # "idle"
        /\ merges'[r].pc \in {"mark", "ok", "failed"}
        /\ merges'[r].pc = "ok" => merges[r].pc = "rm"
        /\ \A q \in Merges : q # r => merges'[q] = merges[q]
    BY <1>1, <1>6 DEF PublishFile, RemoveTmp, MergeFault, MergeReq, tables
  <2>2. \A u \in Users, id \in UploadIds : ~SelectForMerge(r, u, id)
    BY <2>1 DEF SelectForMerge
  <2> QED
    BY <1>3, <2>1, <2>2, SameCourse DEF Registering
<1>7. CASE RegisterFile(r)
  <2>1. /\ files' = files \cup {MergeRow(r)} /\ merges[r].pc = "register"
        /\ merges'[r].pc = "publish" /\ merges'[r].id = merges[r].id
        /\ \A q \in Merges : q # r => merges'[q] = merges[q]
    BY <1>1, <1>7 DEF RegisterFile, MergeRow, MergeReq
  <2>2. MergeRow(r).by = r /\ MergeRow(r).upload = merges[r].id
    BY DEF MergeRow
  <2> QED
    BY <2>1, <2>2 DEF MergeCourse, Registering
<1>8. CASE MarkDone(r)
  <2>1. /\ UNCHANGED files /\ merges[r].pc = "mark" /\ merges'[r].pc = "rm"
        /\ merges'[r].id = merges[r].id
        /\ \A q \in Merges : q # r => merges'[q] = merges[q]
    BY <1>1, <1>8 DEF MarkDone, MergeReq
  <2>2. Inactive(merges[r].id)'
    BY <1>8, <2>1, MarkCloses DEF Inactive
  <2> QED
    BY <2>1, <2>2 DEF MergeCourse, Registering
<1> QED
  BY <1>2, <1>4, <1>5, <1>6, <1>7, <1>8 DEF UploadComplete

LEMMA CourseStep ==
  ASSUME TypeOK, [Next]_vars
  PROVE  MergeCourse
<1>1. CASE UNCHANGED <<merges, files>>
  BY <1>1 DEF MergeCourse
<1>2. CASE Crash
  <2>1. UNCHANGED files
    BY <1>2 DEF Crash, tables
  <2>2. \A r \in Merges :
          /\ merges'[r].id = merges[r].id
          /\ merges'[r].pc = merges[r].pc \/ (Running(merges[r]) /\ merges'[r].pc = "lost")
    BY <1>2 DEF Crash, Lost, TypeOK, MergesOK, MergeReq
  <2> QED
    BY <2>1, <2>2 DEF MergeCourse, Registering, Running
<1>3. ASSUME NEW r \in Inits, UploadInit(r) PROVE UNCHANGED <<merges, files>>
  BY <1>3 DEF UploadInit, SelectStale, RemoveStale, DeleteStale, MakeDir, InsertSession,
              InitFault, CleanupFault, tables
<1>4. ASSUME NEW r \in Chunks, UploadChunk(r) PROVE UNCHANGED <<merges, files>>
  BY <1>4 DEF UploadChunk, SelectForChunk, OpenChunk, WriteChunk, ScanChunks,
              UpdateReceived, ChunkFault, tables
<1> QED
  BY <1>1, <1>2, <1>3, <1>4, CourseOfComplete DEF Next, Tick, vars, tables

\* The session of an upload that was begun does not come back.
LEMMA ClosedStays ==
  ASSUME OrphanStep, NEW r \in Merges, merges[r].pc \in {"rm", "ok"}, Inactive(merges[r].id),
         merges'[r].id = merges[r].id, merges[r].id \in UploadIds
  PROVE  Inactive(merges[r].id)'
<1>1. PICK p \in Inits : inits[p].id = merges[r].id /\ inits[p].pc = "ok"
  BY DEF OrphanStep, IdInv, MergesBegun, Begun
<1>2. PICK x \in UploadIds : x = merges[r].id
  OBVIOUS
<1>3. Inactive(x)'
  BY <1>1, <1>2, InactiveStays
<1> QED
  BY <1>2, <1>3 DEF Inactive

LEMMA RegisterInvStep ==
  ASSUME OrphanStep, MergeCourse, RegisterInv
  PROVE  RegisterInv'
<1>1. RowsByCompletes'
  <2> SUFFICES ASSUME NEW f \in files'
               PROVE  /\ f.by \in Merges /\ merges'[f.by].id = f.upload
                      /\ merges'[f.by].pc \in Registering
    BY DEF RowsByCompletes
  <2>1. CASE f \in files
    BY <2>1 DEF RegisterInv, RowsByCompletes, MergeCourse, Registering
  <2>2. CASE f \notin files
    BY <2>2 DEF MergeCourse, Registering
  <2> QED
    BY <2>1, <2>2
<1>2. MarkedInactive'
  <2> SUFFICES ASSUME NEW r \in Merges, merges'[r].pc \in {"rm", "ok"}
               PROVE  Inactive(merges[r].id)'
    BY DEF MarkedInactive
  <2>1. CASE merges[r].pc \in {"rm", "ok"}
    <3>1. Inactive(merges[r].id) /\ merges'[r].id = merges[r].id
      BY <2>1 DEF RegisterInv, MarkedInactive, MergeCourse
    <3>2. merges[r].id \in UploadIds
      BY <2>1 DEF OrphanStep, RegisterInv, IdsKept
    <3> QED
      BY <2>1, <3>1, <3>2, ClosedStays
  <2>2. CASE merges[r].pc \notin {"rm", "ok"}
    BY <2>2 DEF MergeCourse, Inactive
  <2> QED
    BY <2>1, <2>2
<1>3. IdsKept'
  BY DEF RegisterInv, IdsKept, MergeCourse
<1> QED
  BY <1>1, <1>2, <1>3 DEF RegisterInv

\* An upload is registered a second time only by a request that overlaps the first
\* between its INSERT and its UPDATE, or that follows one which ended in between.
THEOREM SecondRegistrationHasCause == Spec => RegisteredAgainHasCause
<1>1. Init => RegisterInv
  BY DEF Init, RegisterInv, RowsByCompletes, MarkedInactive, IdsKept
<1>2. TypeOK /\ TypeOK' /\ IdInv /\ OrphanInv /\ RegisterInv /\ [Next]_vars => RegisterInv'
  BY RequestStep, FateStep, DirStep, ClosingStep, CleanupStep, CourseStep, RegisterInvStep
     DEF OrphanStep
<1>3. ASSUME TypeOK, RegisterInv, [Next]_vars, NEW r \in Merges,
             merges[r].pc = "idle", merges'[r].pc # "idle",
             NEW f \in files, f.upload = merges'[r].id
      PROVE  merges[f.by].pc \in {"publish", "mark", "failed", "lost"}
  <2>1. ~Inactive(f.upload)
    BY <1>3, CourseStep DEF MergeCourse, Active, Inactive
  <2>2. f.by \in Merges /\ merges[f.by].id = f.upload /\ merges[f.by].pc \in Registering
    BY <1>3 DEF RegisterInv, RowsByCompletes
  <2> QED
    BY <1>3, <2>1, <2>2 DEF RegisterInv, MarkedInactive, Registering
<1>4. TypeOK /\ RegisterInv /\ [Next]_vars =>
        [\A r \in Merges :
           merges[r].pc = "idle" /\ merges'[r].pc # "idle" =>
             \A f \in files : f.upload = merges'[r].id =>
               merges[f.by].pc \in {"publish", "mark", "failed", "lost"}]_vars
  BY <1>3
<1> QED
  BY <1>1, <1>2, <1>4, TypeCorrect, IdInvariant, OrphanInvariant, PTL
     DEF Spec, RegisteredAgainHasCause
===============================================================================
