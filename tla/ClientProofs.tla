---------------------------- MODULE ClientProofs ----------------------------
(***************************************************************************)
(* Theorems about ResumableClient: types, what registered files are made   *)
(* of, and what "done" in a tab means.                                     *)
(*                                                                         *)
(* The first invariant, LocalsInv, says which values the locals of tabs    *)
(* and handlers have where, and that a tab waits for one handler at most.  *)
(* The second, KeyInv, that everything a tab, a handler or localStorage    *)
(* knows by an upload id is of a file with the session's resume key.  The  *)
(* third, HandsInv, finds somebody to answer for each torn chunk.          *)
(***************************************************************************)
EXTENDS ResumableClient, FiniteSetTheorems, TLAPS

Known(id) == id \in UploadIds /\ session[id] # None

\* Requests that are about a session.
Named(q) == \/ q.op \in {"status", "chunk", "complete"}
            \/ q.op = "init" /\ q.pc = "ok"

TabLocals(b) ==
  /\ b.pc # "idle" => b.file \in Files
  /\ b.id # None => Known(b.id)

HandlerLocals(q) ==
  /\ q.op = "none" => q.tab = None
  /\ q.op # "none" => q.file \in Files
  /\ Named(q) => Known(q.id)
  /\ q.op = "init" /\ q.pc = "ok" => q.tab # None
  /\ q.op = "chunk" => q.idx \in Indices
  /\ q.op = "complete" /\ q.pc = "register" => q.bytes \in [Indices -> Piece \cup {Torn}]
  /\ q.tab # None => /\ tabs[q.tab].pc = "waiting" /\ tabs[q.tab].file = q.file
                     /\ q.op # "init" => tabs[q.tab].id = q.id

\* A tab waits for one handler.
Alone ==
  \A g, h \in Handlers :
    g # h /\ handlers[g].tab = handlers[h].tab => handlers[g].tab = None

LocalsInv ==
  /\ \A t \in Tabs : TabLocals(tabs[t])
  /\ \A k \in Keys : stored[k] # None => Known(stored[k])
  /\ \A h \in Handlers : HandlerLocals(handlers[h])
  /\ Alone

TypeInv == TypeOK /\ LocalsInv

\* A session's row keeps its file, and no id is given twice.
SessionsKept ==
  \A id \in UploadIds : session[id] # None =>
    session'[id] # None /\ session'[id].file = session[id].file

-----------------------------------------------------------------------------
(* The numbers. *)

\* Of the intervals up to a number of T, the least is up to its minimum.
LEMMA MinOf ==
  ASSUME NEW T \in SUBSET Nat, T # {}
  PROVE  Min(T) \in T
  <1> DEFINE R == StrictSubsetOrdering(Nat)
             F == {0 .. n : n \in T}
  <1>1. IsWellFoundedOn(R, FiniteSubsetsOf(Nat)) BY FS_StrictSubsetOrderingWellFounded
  <1>2. F \subseteq FiniteSubsetsOf(Nat)
    <2>1. \A n \in T : IsFiniteSet(0 .. n) /\ 0 .. n \subseteq Nat BY FS_Interval
    <2> QED BY <2>1 DEF FiniteSubsetsOf
  <1>3. F # {} OBVIOUS
  <1> HIDE DEF R, F
  <1>4. PICK x \in F : \A y \in F : <<y, x>> \notin R BY <1>1, <1>2, <1>3, WFMin
  <1>5. PICK m \in T : x = 0 .. m BY DEF F
  <1>6. ASSUME NEW n \in T, n < m PROVE FALSE
    <2>1. <<0 .. n, 0 .. m>> \notin R BY <1>4, <1>5 DEF F
    <2>2. 0 .. n \in SUBSET Nat /\ 0 .. m \in SUBSET Nat OBVIOUS
    <2>3. 0 .. n \subseteq 0 .. m BY <1>6
    <2>4. m \in 0 .. m /\ m \notin 0 .. n BY <1>6
    <2> QED BY <2>1, <2>2, <2>3, <2>4 DEF R, StrictSubsetOrdering
  <1>7. \A n \in T : m =< n BY <1>6
  <1> QED BY <1>7 DEF Min

\* A directory holds no more than Chunks files.
LEMMA ReceivedCount ==
  ASSUME NEW id
  PROVE  Received(id) \subseteq Indices /\ Cardinality(Received(id)) \in 0 .. Chunks
  <1>1. Received(id) \subseteq Indices BY DEF Received
  <1>2. IsFiniteSet(Indices) /\ Cardinality(Indices) = Chunks
    BY FS_Interval, SizeAssumption DEF Indices
  <1>3. IsFiniteSet(Received(id)) /\ Cardinality(Received(id)) <= Chunks
    BY <1>1, <1>2, FS_Subset
  <1>4. Cardinality(Received(id)) \in Nat BY <1>3, FS_CardinalityType
  <1> QED BY <1>1, <1>3, <1>4, SizeAssumption

-----------------------------------------------------------------------------
(* What the steps do to tabs and handlers. *)

\* Only this handler changes.
Others(h) == \A g \in Handlers \ {h} : handlers'[g] = handlers[g]

\* Only this tab changes.
OtherTabs(t) == \A x \in Tabs \ {t} : tabs'[x] = tabs[x]

LEMMA FreeFields == Free \in Handler /\ Free.op = "none" /\ Free.pc = "new" /\ Free.tab = None
  BY SizeAssumption DEF Free, Handler

LEMMA AsksFields ==
  ASSUME NEW h, NEW t \in Tabs, NEW op \in {"status", "init", "chunk", "complete"},
         NEW id \in UploadIds \cup {None}, NEW idx \in Indices \cup {None},
         tabs'[t].file \in Files
  PROVE  /\ Asks(h, t, op, id, idx) \in Handler
         /\ Asks(h, t, op, id, idx).op = op /\ Asks(h, t, op, id, idx).pc = "new"
         /\ Asks(h, t, op, id, idx).tab = t /\ Asks(h, t, op, id, idx).file = tabs'[t].file
         /\ Asks(h, t, op, id, idx).id = id /\ Asks(h, t, op, id, idx).idx = idx
  <1> DEFINE f == tabs'[t].file
             q == [op |-> op, pc |-> "new", tab |-> t, file |-> f, id |-> id,
                   idx |-> idx, have |-> {}, count |-> 0, bytes |-> None]
             s == Asks(h, t, op, id, idx)
  <1>1. s = q
    <2>1. s = [n \in {"op", "pc", "tab", "file", "id", "idx", "have", "count", "bytes"} |-> s[n]]
      BY DEF Asks, Free
    <2>2. /\ s.op = op /\ s.pc = "new" /\ s.tab = t /\ s.file = f /\ s.id = id /\ s.idx = idx
          /\ s.have = {} /\ s.count = 0 /\ s.bytes = None
      BY DEF Asks, Free
    <2> HIDE DEF s, f
    <2> QED BY <2>1, <2>2
  <1>2. q \in Handler BY SizeAssumption DEF Handler
  <1> QED BY <1>1, <1>2

LEMMA ContinueMoves ==
  ASSUME TypeOK, NEW h \in Handlers, NEW t \in Tabs, tabs[t].file \in Files,
         NEW id \in UploadIds, NEW todo \in SUBSET Indices, Continue(h, t, id, todo)
  PROVE  /\ tabs' \in [Tabs -> Tab] /\ OtherTabs(t)
         /\ tabs'[t].pc = tabs[t].pc /\ tabs'[t].file = tabs[t].file /\ tabs'[t].id = id
         /\ handlers' \in [Handlers -> Handler] /\ Others(h)
         /\ handlers'[h].tab = t /\ handlers'[h].file = tabs[t].file
         /\ handlers'[h].id = id /\ handlers'[h].pc = "new"
         /\ \/ handlers'[h].op = "chunk" /\ handlers'[h].idx \in todo
            \/ handlers'[h].op = "complete" /\ todo = {}
  <1>1. /\ tabs' \in [Tabs -> Tab] /\ OtherTabs(t)
        /\ tabs'[t].pc = tabs[t].pc /\ tabs'[t].file = tabs[t].file /\ tabs'[t].id = id
    <2> DEFINE b == [tabs[t] EXCEPT !.id = id, !.todo = todo]
    <2>1. tabs[t] \in Tab /\ tabs \in [Tabs -> Tab] BY DEF TypeOK
    <2>2. b \in Tab /\ b.pc = tabs[t].pc /\ b.file = tabs[t].file /\ b.id = id
      BY <2>1 DEF Tab
    <2>3. tabs' = [tabs EXCEPT ![t] = b] BY <2>1 DEF Continue
    <2> HIDE DEF b
    <2> QED BY <2>1, <2>2, <2>3 DEF OtherTabs
  <1>2. CASE todo # {}
    <2>1. Min(todo) \in todo
      <3>1. todo \in SUBSET Nat BY SizeAssumption DEF Indices
      <3> QED BY <1>2, <3>1, MinOf
    <2> DEFINE q == Asks(h, t, "chunk", id, Min(todo))
    <2>2. handlers' = [handlers EXCEPT ![h] = q] BY <1>2 DEF Continue
    <2>3. /\ q \in Handler /\ q.op = "chunk" /\ q.pc = "new" /\ q.tab = t
          /\ q.file = tabs'[t].file /\ q.id = id /\ q.idx = Min(todo)
      BY <1>1, <2>1, AsksFields
    <2> HIDE DEF q
    <2> QED BY <1>1, <2>1, <2>2, <2>3 DEF TypeOK, Others
  <1>3. CASE todo = {}
    <2> DEFINE q == Asks(h, t, "complete", id, None)
    <2>1. handlers' = [handlers EXCEPT ![h] = q] BY <1>3 DEF Continue
    <2>2. /\ q \in Handler /\ q.op = "complete" /\ q.pc = "new" /\ q.tab = t
          /\ q.file = tabs'[t].file /\ q.id = id
      BY <1>1, AsksFields
    <2> HIDE DEF q
    <2> QED BY <1>1, <1>3, <2>1, <2>2 DEF TypeOK, Others
  <1> QED BY <1>2, <1>3

LEMMA StopMoves ==
  ASSUME TypeOK, NEW h \in Handlers, NEW t \in Tabs, NEW pc \in {"failed", "done"},
         Stop(h, t, pc)
  PROVE  /\ tabs' \in [Tabs -> Tab] /\ OtherTabs(t)
         /\ tabs'[t].pc = pc /\ tabs'[t].file = tabs[t].file /\ tabs'[t].id = tabs[t].id
         /\ handlers' \in [Handlers -> Handler] /\ Others(h) /\ handlers'[h] = Free
  <1>1. /\ tabs' \in [Tabs -> Tab] /\ OtherTabs(t)
        /\ tabs'[t].pc = pc /\ tabs'[t].file = tabs[t].file /\ tabs'[t].id = tabs[t].id
    BY DEF Stop, TypeOK, Tab, OtherTabs
  <1>2. handlers' \in [Handlers -> Handler] /\ Others(h) /\ handlers'[h] = Free
    BY FreeFields DEF Stop, TypeOK, Others
  <1> QED BY <1>1, <1>2

LEMMA AtPc ==
  ASSUME NEW q \in Handler,
         NEW pc \in {"new", "save", "update", "register", "mark", "ok", "refused", "gone"}
  PROVE  [q EXCEPT !.pc = pc] \in Handler
  BY DEF Handler

\* A handler that returns, and one that goes on.
LEMMA ReturnMoves ==
  ASSUME TypeOK, NEW h \in Handlers, NEW q \in Handler, Return(h, q)
  PROVE  /\ handlers' \in [Handlers -> Handler] /\ Others(h)
         /\ handlers'[h] = IF handlers[h].tab = None THEN Free ELSE q
  BY FreeFields DEF Return, TypeOK, Others

LEMMA EndsMoves ==
  ASSUME TypeOK, NEW h \in Handlers, NEW pc \in {"ok", "refused", "gone"}, Ends(h, pc)
  PROVE  /\ handlers' \in [Handlers -> Handler] /\ Others(h)
         /\ \/ handlers[h].tab = None /\ handlers'[h] = Free
            \/ handlers[h].tab # None /\ handlers'[h] = [handlers[h] EXCEPT !.pc = pc]
  <1>1. [handlers[h] EXCEPT !.pc = pc] \in Handler BY AtPc DEF TypeOK
  <1> DEFINE q == [handlers[h] EXCEPT !.pc = pc]
  <1>2. Return(h, q) BY DEF Ends
  <1> HIDE DEF q
  <1>3. /\ handlers' \in [Handlers -> Handler] /\ Others(h)
        /\ handlers'[h] = IF handlers[h].tab = None THEN Free ELSE q
    BY <1>1, <1>2, ReturnMoves DEF q
  <1> QED BY <1>3 DEF q

LEMMA ClickMoves ==
  ASSUME TypeInv, NEW t \in Tabs, NEW f \in Files, NEW h \in Handlers, Click(t, f, h)
  PROVE  /\ tabs' \in [Tabs -> Tab] /\ OtherTabs(t) /\ tabs[t].pc # "waiting"
         /\ tabs'[t].pc = "waiting" /\ tabs'[t].file = f /\ tabs'[t].id = stored[resumeKey(f)]
         /\ handlers' \in [Handlers -> Handler] /\ Others(h)
         /\ handlers'[h].tab = t /\ handlers'[h].file = f /\ handlers'[h].pc = "new"
         /\ handlers'[h].id = stored[resumeKey(f)] /\ handlers[h].op = "none"
         /\ handlers'[h].op = IF stored[resumeKey(f)] # None THEN "status" ELSE "init"
  <1> DEFINE id == stored[resumeKey(f)]
             op == IF id # None THEN "status" ELSE "init"
             q == Asks(h, t, op, id, None)
  <1>1. id \in UploadIds \cup {None} BY DEF TypeInv, TypeOK, Keys
  <1>2. /\ tabs' \in [Tabs -> Tab] /\ OtherTabs(t) /\ tabs[t].pc # "waiting"
        /\ tabs'[t].pc = "waiting" /\ tabs'[t].file = f /\ tabs'[t].id = id
    BY <1>1 DEF Click, TypeInv, TypeOK, Tab, OtherTabs
  <1>3. handlers' = [handlers EXCEPT ![h] = q] /\ handlers[h].op = "none" BY DEF Click
  <1>4. /\ q \in Handler /\ q.pc = "new" /\ q.tab = t
        /\ q.file = tabs'[t].file /\ q.id = id /\ q.op = IF id # None THEN "status" ELSE "init"
    <2>1. op \in {"status", "init"} OBVIOUS
    <2>2. id \in UploadIds \cup {None} BY <1>1
    <2>3. tabs'[t].file \in Files BY <1>2
    <2> HIDE DEF id
    <2>4. op = IF id # None THEN "status" ELSE "init" OBVIOUS
    <2> HIDE DEF op
    <2> QED BY <2>1, <2>2, <2>3, <2>4, AsksFields
  <1> HIDE DEF q, id, op
  <1>5. /\ handlers' \in [Handlers -> Handler] /\ Others(h) /\ handlers'[h] = q
    BY <1>3, <1>4 DEF TypeInv, TypeOK, Others
  <1> QED BY <1>2, <1>3, <1>4, <1>5 DEF id

\* The handler goes on with its request, or returns to nobody.
Follows(h) ==
  \/ handlers'[h] = Free
  \/ /\ handlers[h].op # "none" /\ handlers'[h].op = handlers[h].op
     /\ handlers'[h].tab = handlers[h].tab /\ handlers'[h].file = handlers[h].file
     /\ handlers'[h].idx = handlers[h].idx
     /\ handlers[h].op # "init" => handlers'[h].id = handlers[h].id

\* A step of a handler, as far as tabs and the other handlers are concerned.
ServiceStep(h) ==
  /\ UNCHANGED <<tabs, stored>> /\ SessionsKept
  /\ handlers' \in [Handlers -> Handler] /\ Others(h) /\ Follows(h)

LEMMA SameSessions ==
  ASSUME UNCHANGED session
  PROVE  SessionsKept
  BY DEF SessionsKept

LEMMA UploadStatusMoves ==
  ASSUME TypeInv, NEW h \in Handlers, UploadStatus(h)
  PROVE  /\ ServiceStep(h)
         /\ UNCHANGED <<session, part, rows, disturbed, faults>>
         /\ handlers'[h] = Free \/ handlers'[h].op = "status"
  <1> DEFINE q == IF Active(handlers[h].id)
                  THEN [handlers[h] EXCEPT !.pc = "ok", !.have = Received(handlers[h].id)]
                  ELSE [handlers[h] EXCEPT !.pc = "gone"]
  <1>1. /\ q \in Handler /\ q.op = handlers[h].op /\ q.tab = handlers[h].tab
        /\ q.file = handlers[h].file /\ q.idx = handlers[h].idx /\ q.id = handlers[h].id
    <2>1. handlers[h] \in Handler BY DEF TypeInv, TypeOK
    <2>2. Received(handlers[h].id) \in SUBSET Indices BY ReceivedCount
    <2>3. CASE Active(handlers[h].id)
      <3>1. q = [handlers[h] EXCEPT !.pc = "ok", !.have = Received(handlers[h].id)] BY <2>3
      <3> QED BY <2>1, <2>2, <3>1 DEF Handler
    <2>4. CASE ~Active(handlers[h].id)
      <3>1. q = [handlers[h] EXCEPT !.pc = "gone"] BY <2>4
      <3> QED BY <2>1, <3>1 DEF Handler
    <2> QED BY <2>3, <2>4
  <1>2. Return(h, q) /\ handlers[h].op = "status" BY DEF UploadStatus, At
  <1> HIDE DEF q
  <1>3. /\ handlers' \in [Handlers -> Handler] /\ Others(h)
        /\ handlers'[h] = IF handlers[h].tab = None THEN Free ELSE q
    BY <1>1, <1>2, ReturnMoves DEF TypeInv
  <1>4. UNCHANGED <<tabs, stored, session, part, rows, disturbed, faults>> BY DEF UploadStatus
  <1>5. SessionsKept BY <1>4, SameSessions
  <1> QED BY <1>1, <1>2, <1>3, <1>4, <1>5 DEF ServiceStep, Follows

LEMMA UploadInitMoves ==
  ASSUME TypeInv, NEW h \in Handlers, UploadInit(h)
  PROVE  /\ ServiceStep(h) /\ UNCHANGED <<rows, disturbed, faults>>
         /\ session' \in [UploadIds -> Session \cup {None}]
         /\ \E id \in UploadIds :
              /\ session[id] = None /\ session'[id] # None
              /\ session'[id].file = handlers[h].file
              /\ \/ handlers'[h] = Free
                 \/ /\ handlers'[h].op = "init" /\ handlers'[h].pc = "ok"
                    /\ handlers'[h].id = id /\ handlers'[h].tab # None
         /\ part' \in [UploadIds -> [Indices -> Piece \cup {None, Torn}]]
         /\ \A i \in UploadIds, k \in Indices : part'[i][k] \in {part[i][k], None}
  <1> DEFINE old == {id \in UploadIds : Active(id) /\ session[id].old}
             row == [file |-> handlers[h].file, received |-> 0, status |-> "active", old |-> FALSE]
             gone(i) == [session[i] EXCEPT !.status = "deleted"]
  <1>1. handlers[h].op = "init" BY DEF UploadInit, At
  <1>2. PICK id \in UploadIds :
          /\ session[id] = None
          /\ session' = [i \in UploadIds |-> IF i = id THEN row
                                             ELSE IF i \in old THEN gone(i) ELSE session[i]]
          /\ part' = [i \in UploadIds |-> IF i \in old THEN [k \in Indices |-> None] ELSE part[i]]
          /\ Return(h, [handlers[h] EXCEPT !.pc = "ok", !.id = id])
    BY DEF UploadInit
  <1>3. row \in Session /\ row.file = handlers[h].file
    BY <1>1, SizeAssumption DEF TypeInv, LocalsInv, HandlerLocals, Session
  <1>4. \A i \in old : gone(i) \in Session /\ gone(i).file = session[i].file
    BY DEF Active, TypeInv, TypeOK, Session
  <1> DEFINE q == [handlers[h] EXCEPT !.pc = "ok", !.id = id]
  <1>5. /\ q \in Handler /\ q.op = "init" /\ q.pc = "ok" /\ q.id = id /\ q.tab = handlers[h].tab
        /\ q.file = handlers[h].file /\ q.idx = handlers[h].idx
    <2>1. handlers[h] \in Handler BY DEF TypeInv, TypeOK
    <2> QED BY <1>1, <2>1 DEF Handler
  <1> HIDE DEF q, row, gone
  <1>6. session' \in [UploadIds -> Session \cup {None}]
    BY <1>2, <1>3, <1>4 DEF TypeInv, TypeOK
  <1>7. SessionsKept
    <2> SUFFICES ASSUME NEW i \in UploadIds, session[i] # None
                 PROVE  session'[i] # None /\ session'[i].file = session[i].file
      BY DEF SessionsKept
    <2>1. i # id BY <1>2
    <2>2. session'[i] = IF i \in old THEN gone(i) ELSE session[i] BY <1>2, <2>1
    <2> QED BY <1>4, <2>2, NoneAssumption
  <1>8. session'[id] = row BY <1>2
  <1>9. /\ handlers' \in [Handlers -> Handler] /\ Others(h)
        /\ handlers'[h] = IF handlers[h].tab = None THEN Free ELSE q
    BY <1>2, <1>5, ReturnMoves DEF TypeInv, q
  <1>10. part' \in [UploadIds -> [Indices -> Piece \cup {None, Torn}]]
    BY <1>2 DEF TypeInv, TypeOK
  <1>11. ASSUME NEW i \in UploadIds, NEW k \in Indices PROVE part'[i][k] \in {part[i][k], None}
    BY <1>2
  <1>12. UNCHANGED <<tabs, stored, rows, disturbed, faults>> BY DEF UploadInit
  <1>13. ServiceStep(h)
    BY <1>1, <1>5, <1>7, <1>9, <1>12 DEF ServiceStep, Follows
  <1>14. session[id] = None /\ session'[id] # None /\ session'[id].file = handlers[h].file
    BY <1>2, <1>3, <1>8, NoneAssumption
  <1>15. \/ handlers'[h] = Free
         \/ /\ handlers'[h].op = "init" /\ handlers'[h].pc = "ok"
            /\ handlers'[h].id = id /\ handlers'[h].tab # None
    BY <1>5, <1>9
  <1> QED BY <1>6, <1>10, <1>11, <1>12, <1>13, <1>14, <1>15

LEMMA OpenChunkMoves ==
  ASSUME TypeInv, NEW h \in Handlers, OpenChunk(h)
  PROVE  /\ ServiceStep(h) /\ UNCHANGED <<session, rows, disturbed, faults>>
         /\ handlers[h].op = "chunk" /\ handlers[h].pc = "new"
         /\ \/ /\ UNCHANGED part
               /\ handlers'[h] = Free \/ handlers'[h].pc = "gone"
            \/ /\ part' = [part EXCEPT ![handlers[h].id][handlers[h].idx] = Torn]
               /\ handlers'[h] # Free /\ handlers'[h].pc = "save"
  <1>1. handlers[h].op = "chunk" /\ handlers[h].pc = "new" BY DEF OpenChunk, At
  <1>2. UNCHANGED <<tabs, stored, session, rows, disturbed, faults>> BY DEF OpenChunk
  <1>3. SessionsKept BY <1>2, SameSessions
  <1>4. handlers[h] \in Handler BY DEF TypeInv, TypeOK
  <1>5. CASE Active(handlers[h].id)
    <2> DEFINE q == [handlers[h] EXCEPT !.pc = "save"]
    <2>1. q \in Handler BY <1>4, AtPc
    <2>2. /\ q.op = "chunk" /\ q.pc = "save" /\ q.tab = handlers[h].tab
          /\ q.file = handlers[h].file /\ q.idx = handlers[h].idx /\ q.id = handlers[h].id
      BY <1>1, <1>4 DEF Handler
    <2>3. handlers' = [handlers EXCEPT ![h] = q] BY <1>5 DEF OpenChunk
    <2>4. part' = [part EXCEPT ![handlers[h].id][handlers[h].idx] = Torn] BY <1>5 DEF OpenChunk
    <2> HIDE DEF q
    <2>5. handlers' \in [Handlers -> Handler] /\ Others(h) /\ handlers'[h] = q
      BY <2>1, <2>3 DEF TypeInv, TypeOK, Others
    <2>6. Follows(h) BY <1>1, <2>2, <2>5 DEF Follows
    <2> QED BY <1>1, <1>2, <1>3, <2>2, <2>4, <2>5, <2>6, FreeFields DEF ServiceStep
  <1>6. CASE ~Active(handlers[h].id)
    <2>1. Ends(h, "gone") /\ UNCHANGED part BY <1>6 DEF OpenChunk
    <2>2. /\ handlers' \in [Handlers -> Handler] /\ Others(h)
          /\ \/ handlers'[h] = Free
             \/ handlers'[h] = [handlers[h] EXCEPT !.pc = "gone"]
      BY <2>1, EndsMoves DEF TypeInv
    <2>3. Follows(h) /\ (handlers'[h] = Free \/ handlers'[h].pc = "gone")
      BY <1>1, <1>4, <2>2 DEF Follows, Handler
    <2> QED BY <1>1, <1>2, <1>3, <2>1, <2>2, <2>3 DEF ServiceStep
  <1> QED BY <1>5, <1>6

LEMMA SaveChunkMoves ==
  ASSUME TypeInv, NEW h \in Handlers, SaveChunk(h)
  PROVE  /\ ServiceStep(h) /\ UNCHANGED <<session, rows, disturbed, faults>>
         /\ handlers[h].op = "chunk" /\ handlers[h].pc = "save"
         /\ handlers'[h] # Free /\ handlers'[h].pc = "update"
         /\ part' = IF part[handlers[h].id][handlers[h].idx] = None THEN part
                    ELSE [part EXCEPT ![handlers[h].id][handlers[h].idx]
                                        = <<handlers[h].file, handlers[h].idx>>]
  <1>1. handlers[h].op = "chunk" /\ handlers[h].pc = "save" BY DEF SaveChunk, At
  <1>2. UNCHANGED <<tabs, stored, session, rows, disturbed, faults>> BY DEF SaveChunk
  <1>3. SessionsKept BY <1>2, SameSessions
  <1>4. handlers[h] \in Handler BY DEF TypeInv, TypeOK
  <1> DEFINE n == Cardinality(Received(handlers[h].id))
             q == [handlers[h] EXCEPT !.pc = "update", !.count = n]
  <1>5. n \in 0 .. Chunks BY ReceivedCount
  <1>6. handlers' = [handlers EXCEPT ![h] = q]
    BY <1>4 DEF SaveChunk, TypeInv, TypeOK
  <1> HIDE DEF n
  <1>7. /\ q \in Handler /\ q.op = "chunk" /\ q.pc = "update" /\ q.tab = handlers[h].tab
        /\ q.file = handlers[h].file /\ q.idx = handlers[h].idx /\ q.id = handlers[h].id
    BY <1>1, <1>4, <1>5 DEF Handler
  <1> HIDE DEF q
  <1>8. handlers' \in [Handlers -> Handler] /\ Others(h) /\ handlers'[h] = q
    BY <1>6, <1>7 DEF TypeInv, TypeOK, Others
  <1>9. Follows(h) BY <1>1, <1>7, <1>8 DEF Follows
  <1>10. part' = IF part[handlers[h].id][handlers[h].idx] = None THEN part
                 ELSE [part EXCEPT ![handlers[h].id][handlers[h].idx]
                                     = <<handlers[h].file, handlers[h].idx>>]
    BY DEF SaveChunk
  <1>11. handlers'[h] # Free BY <1>7, <1>8, FreeFields
  <1> QED BY <1>1, <1>2, <1>3, <1>7, <1>8, <1>9, <1>10, <1>11 DEF ServiceStep

\* The end of a handler, and of its request.
LEMMA EndsFollows ==
  ASSUME TypeInv, NEW h \in Handlers, handlers[h].op # "none",
         NEW pc \in {"ok", "refused", "gone"}, Ends(h, pc)
  PROVE  /\ handlers' \in [Handlers -> Handler] /\ Others(h) /\ Follows(h)
         /\ \/ handlers[h].tab = None /\ handlers'[h] = Free
            \/ /\ handlers[h].tab # None /\ handlers'[h].tab = handlers[h].tab
               /\ handlers'[h].op = handlers[h].op
               /\ handlers'[h].pc = pc /\ handlers'[h].id = handlers[h].id
  <1>1. handlers[h] \in Handler BY DEF TypeInv, TypeOK
  <1>2. /\ handlers' \in [Handlers -> Handler] /\ Others(h)
        /\ \/ handlers[h].tab = None /\ handlers'[h] = Free
           \/ handlers[h].tab # None /\ handlers'[h] = [handlers[h] EXCEPT !.pc = pc]
    BY EndsMoves DEF TypeInv
  <1>3. CASE handlers[h].tab = None /\ handlers'[h] = Free BY <1>2, <1>3 DEF Follows
  <1>4. CASE handlers[h].tab # None /\ handlers'[h] = [handlers[h] EXCEPT !.pc = pc]
    BY <1>1, <1>2, <1>4 DEF Follows, Handler
  <1> QED BY <1>2, <1>3, <1>4

LEMMA UpdateCountMoves ==
  ASSUME TypeInv, NEW h \in Handlers, UpdateCount(h)
  PROVE  /\ ServiceStep(h) /\ UNCHANGED <<part, rows, disturbed, faults>>
         /\ handlers[h].op = "chunk" /\ handlers[h].pc = "update"
         /\ handlers'[h] = Free \/ handlers'[h].pc = "ok"
         /\ session' \in [UploadIds -> Session \cup {None}]
  <1>1. handlers[h].op = "chunk" /\ handlers[h].pc = "update" BY DEF UpdateCount, At
  <1>2. UNCHANGED <<tabs, stored, part, rows, disturbed, faults>> BY DEF UpdateCount
  <1>3. Ends(h, "ok") BY DEF UpdateCount
  <1>4. /\ handlers' \in [Handlers -> Handler] /\ Others(h) /\ Follows(h)
        /\ handlers'[h] = Free \/ handlers'[h].pc = "ok"
    BY <1>1, <1>3, EndsFollows
  <1> DEFINE id == handlers[h].id
  <1>5. id \in UploadIds /\ session[id] # None /\ session[id] \in Session
    BY <1>1 DEF TypeInv, TypeOK, LocalsInv, HandlerLocals, Known, Named
  <1>6. handlers[h].count \in 0 .. Chunks BY DEF TypeInv, TypeOK, Handler
  <1>7. session' = session \/ session' = [session EXCEPT ![id].received = handlers[h].count]
    BY DEF UpdateCount
  <1> HIDE DEF id
  <1>8. CASE session' = session BY <1>1, <1>2, <1>4, <1>8, SameSessions DEF ServiceStep, TypeInv, TypeOK
  <1>9. CASE session' = [session EXCEPT ![id].received = handlers[h].count]
    <2> DEFINE r == [session[id] EXCEPT !.received = handlers[h].count]
    <2>1. r \in Session /\ r.file = session[id].file BY <1>5, <1>6 DEF Session
    <2>2. session' = [session EXCEPT ![id] = r] BY <1>9
    <2> HIDE DEF r
    <2>3. session' \in [UploadIds -> Session \cup {None}] BY <2>1, <2>2 DEF TypeInv, TypeOK
    <2>4. SessionsKept BY <1>5, <2>1, <2>2, NoneAssumption DEF SessionsKept, TypeInv, TypeOK
    <2> QED BY <1>1, <1>2, <1>4, <2>3, <2>4 DEF ServiceStep
  <1> QED BY <1>7, <1>8, <1>9

LEMMA MergeChunksMoves ==
  ASSUME TypeInv, NEW h \in Handlers, MergeChunks(h)
  PROVE  /\ ServiceStep(h) /\ UNCHANGED <<session, part, rows, disturbed, faults>>
         /\ handlers[h].op = "complete" /\ handlers[h].pc = "new"
         /\ \/ handlers'[h] = Free \/ handlers'[h].pc \in {"gone", "refused"}
            \/ /\ handlers'[h] # Free /\ handlers'[h].pc = "register"
               /\ handlers'[h].bytes = part[handlers[h].id]
               /\ part[handlers[h].id] \in [Indices -> Piece \cup {Torn}]
  <1>1. handlers[h].op = "complete" /\ handlers[h].pc = "new" BY DEF MergeChunks, At
  <1>2. UNCHANGED <<tabs, stored, session, part, rows, disturbed, faults>> BY DEF MergeChunks
  <1>3. SessionsKept BY <1>2, SameSessions
  <1>4. handlers[h] \in Handler BY DEF TypeInv, TypeOK
  <1> DEFINE id == handlers[h].id
  <1>5. CASE Ends(h, "gone") \/ Ends(h, "refused")
    <2>1. PICK pc \in {"gone", "refused"} : Ends(h, pc) BY <1>5
    <2>2. /\ handlers' \in [Handlers -> Handler] /\ Others(h) /\ Follows(h)
          /\ handlers'[h] = Free \/ handlers'[h].pc = pc
      BY <1>1, <2>1, EndsFollows
    <2> QED BY <1>1, <1>2, <1>3, <2>2 DEF ServiceStep
  <1>6. CASE /\ Received(id) = Indices
             /\ handlers' = [handlers EXCEPT ![h].pc = "register", ![h].bytes = part[id]]
    <2>1. id \in UploadIds BY <1>1 DEF TypeInv, LocalsInv, HandlerLocals, Known, Named
    <2>2. part[id] \in [Indices -> Piece \cup {Torn}]
      <3>1. part[id] \in [Indices -> Piece \cup {None, Torn}] BY <2>1 DEF TypeInv, TypeOK
      <3>2. \A i \in Indices : part[id][i] # None BY <1>6 DEF Received
      <3> HIDE DEF id
      <3> QED BY <3>1, <3>2
    <2> HIDE DEF id
    <2> DEFINE q == [handlers[h] EXCEPT !.pc = "register", !.bytes = part[id]]
    <2>3. /\ q \in Handler /\ q.op = "complete" /\ q.pc = "register" /\ q.tab = handlers[h].tab
          /\ q.file = handlers[h].file /\ q.idx = handlers[h].idx /\ q.id = handlers[h].id
          /\ q.bytes = part[id]
      BY <1>1, <1>4, <2>2 DEF Handler
    <2>4. handlers' = [handlers EXCEPT ![h] = q] BY <1>4, <1>6 DEF TypeInv, TypeOK
    <2> HIDE DEF q
    <2>5. handlers' \in [Handlers -> Handler] /\ Others(h) /\ handlers'[h] = q
      BY <2>3, <2>4 DEF TypeInv, TypeOK, Others
    <2>6. Follows(h) BY <1>1, <2>3, <2>5 DEF Follows
    <2>7. handlers'[h] # Free BY <2>3, <2>5, FreeFields
    <2> QED BY <1>1, <1>2, <1>3, <2>2, <2>3, <2>5, <2>6, <2>7 DEF ServiceStep, id
  <1> QED BY <1>5, <1>6 DEF MergeChunks

LEMMA RegisterFileMoves ==
  ASSUME TypeInv, NEW h \in Handlers, RegisterFile(h)
  PROVE  /\ ServiceStep(h) /\ UNCHANGED <<session, part, disturbed, faults>>
         /\ handlers[h].op = "complete" /\ handlers[h].pc = "register"
         /\ rows' = rows \cup {[id |-> handlers[h].id, file |-> session[handlers[h].id].file,
                                bytes |-> handlers[h].bytes]}
         /\ handlers'[h] # Free /\ handlers'[h].pc = "mark"
  <1>1. handlers[h].op = "complete" /\ handlers[h].pc = "register" BY DEF RegisterFile, At
  <1>2. UNCHANGED <<tabs, stored, session, part, disturbed, faults>> BY DEF RegisterFile
  <1>3. SessionsKept BY <1>2, SameSessions
  <1>4. handlers[h] \in Handler BY DEF TypeInv, TypeOK
  <1> DEFINE q == [handlers[h] EXCEPT !.pc = "mark"]
  <1>5. q \in Handler BY <1>4, AtPc
  <1>6. /\ q.op = "complete" /\ q.pc = "mark" /\ q.tab = handlers[h].tab
        /\ q.file = handlers[h].file /\ q.idx = handlers[h].idx /\ q.id = handlers[h].id
    BY <1>1, <1>4 DEF Handler
  <1>7. handlers' = [handlers EXCEPT ![h] = q] BY DEF RegisterFile
  <1> HIDE DEF q
  <1>8. handlers' \in [Handlers -> Handler] /\ Others(h) /\ handlers'[h] = q
    BY <1>5, <1>7 DEF TypeInv, TypeOK, Others
  <1>9. Follows(h) BY <1>1, <1>6, <1>8 DEF Follows
  <1>10. handlers'[h] # Free BY <1>6, <1>8, FreeFields
  <1>11. rows' = rows \cup {[id |-> handlers[h].id, file |-> session[handlers[h].id].file,
                             bytes |-> handlers[h].bytes]}
    BY DEF RegisterFile
  <1> QED BY <1>1, <1>2, <1>3, <1>6, <1>8, <1>9, <1>10, <1>11 DEF ServiceStep

LEMMA MarkDoneMoves ==
  ASSUME TypeInv, NEW h \in Handlers, MarkDone(h)
  PROVE  /\ ServiceStep(h) /\ UNCHANGED <<rows, disturbed, faults>>
         /\ handlers[h].op = "complete" /\ handlers[h].pc = "mark"
         /\ handlers'[h] = Free \/ handlers'[h].pc = "ok"
         /\ session' \in [UploadIds -> Session \cup {None}]
         /\ part' = [part EXCEPT ![handlers[h].id] = [i \in Indices |-> None]]
  <1>1. handlers[h].op = "complete" /\ handlers[h].pc = "mark" BY DEF MarkDone, At
  <1>2. UNCHANGED <<tabs, stored, rows, disturbed, faults>> BY DEF MarkDone
  <1>3. Ends(h, "ok") /\ part' = [part EXCEPT ![handlers[h].id] = [i \in Indices |-> None]]
    BY DEF MarkDone
  <1>4. /\ handlers' \in [Handlers -> Handler] /\ Others(h) /\ Follows(h)
        /\ handlers'[h] = Free \/ handlers'[h].pc = "ok"
    BY <1>1, <1>3, EndsFollows
  <1> DEFINE id == handlers[h].id
  <1>5. id \in UploadIds /\ session[id] # None /\ session[id] \in Session
    BY <1>1 DEF TypeInv, TypeOK, LocalsInv, HandlerLocals, Known, Named
  <1>6. session' = session \/ session' = [session EXCEPT ![id].status = "done"]
    BY DEF MarkDone
  <1> HIDE DEF id
  <1>7. CASE session' = session
    BY <1>1, <1>2, <1>3, <1>4, <1>7, SameSessions DEF ServiceStep, TypeInv, TypeOK
  <1>8. CASE session' = [session EXCEPT ![id].status = "done"]
    <2> DEFINE r == [session[id] EXCEPT !.status = "done"]
    <2>1. r \in Session /\ r.file = session[id].file BY <1>5 DEF Session
    <2>2. session' = [session EXCEPT ![id] = r] BY <1>8
    <2> HIDE DEF r
    <2>3. session' \in [UploadIds -> Session \cup {None}] BY <2>1, <2>2 DEF TypeInv, TypeOK
    <2>4. SessionsKept BY <1>5, <2>1, <2>2, NoneAssumption DEF SessionsKept, TypeInv, TypeOK
    <2> QED BY <1>1, <1>2, <1>3, <1>4, <2>3, <2>4 DEF ServiceStep
  <1> QED BY <1>6, <1>7, <1>8

LEMMA ThrowMoves ==
  ASSUME TypeInv, NEW h \in Handlers, Throw(h)
  PROVE  /\ ServiceStep(h) /\ UNCHANGED <<session, part, rows, disturbed>>
         /\ faults' \in 0 .. MaxFaults
         /\ handlers'[h] = Free \/ handlers'[h].pc = "refused"
  <1>1. handlers[h].op # "none" /\ Ends(h, "refused") BY DEF Throw
  <1>2. UNCHANGED <<tabs, stored, session, part, rows, disturbed>> BY DEF Throw
  <1>3. SessionsKept BY <1>2, SameSessions
  <1>4. /\ handlers' \in [Handlers -> Handler] /\ Others(h) /\ Follows(h)
        /\ handlers'[h] = Free \/ handlers'[h].pc = "refused"
    BY <1>1, EndsFollows
  <1>5. faults' \in 0 .. MaxFaults BY SizeAssumption DEF Throw, Fault, TypeInv, TypeOK
  <1> QED BY <1>2, <1>3, <1>4, <1>5 DEF ServiceStep

-----------------------------------------------------------------------------
(* What the answers do. *)

\* An answered request and its tab.
LEMMA AnsweredTab ==
  ASSUME TypeInv, NEW h \in Handlers, NEW op \in {"status", "init", "chunk", "complete"},
         Answered(h, op)
  PROVE  /\ handlers[h].tab \in Tabs /\ tabs[handlers[h].tab].pc = "waiting"
         /\ tabs[handlers[h].tab].file = handlers[h].file /\ handlers[h].file \in Files
         /\ op # "init" => /\ tabs[handlers[h].tab].id = handlers[h].id
                           /\ handlers[h].id \in UploadIds /\ session[handlers[h].id] # None
         /\ op = "init" /\ handlers[h].pc = "ok" =>
              handlers[h].id \in UploadIds /\ session[handlers[h].id] # None
  BY DEF Answered, TypeInv, TypeOK, Handler, LocalsInv, HandlerLocals, Named, Known

\* The tab goes on with this id, or it stops; the handler is with it, or free.
TabStep(h, id) ==
  LET t == handlers[h].tab IN
    /\ t \in Tabs /\ tabs[t].pc = "waiting"
    /\ tabs' \in [Tabs -> Tab] /\ OtherTabs(t) /\ tabs'[t].file = tabs[t].file
    /\ handlers' \in [Handlers -> Handler] /\ Others(h)
    /\ \/ /\ tabs'[t].pc = "waiting" /\ tabs'[t].id = id
          /\ handlers'[h].tab = t /\ handlers'[h].file = tabs[t].file
          /\ handlers'[h].id = id /\ handlers'[h].pc = "new"
          /\ \/ handlers'[h].op = "chunk" /\ handlers'[h].idx \in Indices
             \/ handlers'[h].op = "complete"
       \/ /\ tabs'[t].pc \in {"failed", "done"} /\ tabs'[t].id = tabs[t].id
          /\ handlers'[h] = Free

LEMMA ContinueTab ==
  ASSUME TypeInv, NEW h \in Handlers, handlers[h].tab \in Tabs,
         tabs[handlers[h].tab].pc = "waiting", tabs[handlers[h].tab].file \in Files,
         NEW id \in UploadIds, NEW todo \in SUBSET Indices, Continue(h, handlers[h].tab, id, todo)
  PROVE  TabStep(h, id) /\ tabs'[handlers[h].tab].pc = "waiting"
  <1> DEFINE t == handlers[h].tab
  <1>1. t \in Tabs /\ tabs[t].file \in Files /\ TypeOK /\ Continue(h, t, id, todo) BY DEF TypeInv
  <1> HIDE DEF t
  <1>2. /\ tabs' \in [Tabs -> Tab] /\ OtherTabs(t)
        /\ tabs'[t].pc = tabs[t].pc /\ tabs'[t].file = tabs[t].file /\ tabs'[t].id = id
        /\ handlers' \in [Handlers -> Handler] /\ Others(h)
        /\ handlers'[h].tab = t /\ handlers'[h].file = tabs[t].file
        /\ handlers'[h].id = id /\ handlers'[h].pc = "new"
        /\ \/ handlers'[h].op = "chunk" /\ handlers'[h].idx \in todo
           \/ handlers'[h].op = "complete" /\ todo = {}
    BY <1>1, ContinueMoves
  <1> QED BY <1>2 DEF TabStep, t

LEMMA StopTab ==
  ASSUME TypeInv, NEW h \in Handlers, handlers[h].tab \in Tabs,
         tabs[handlers[h].tab].pc = "waiting", NEW id, NEW pc \in {"failed", "done"},
         Stop(h, handlers[h].tab, pc)
  PROVE  TabStep(h, id) /\ tabs'[handlers[h].tab].pc = pc /\ tabs'[handlers[h].tab].id = tabs[handlers[h].tab].id
  <1> DEFINE t == handlers[h].tab
  <1>1. t \in Tabs /\ TypeOK /\ Stop(h, t, pc) BY DEF TypeInv
  <1> HIDE DEF t
  <1>2. /\ tabs' \in [Tabs -> Tab] /\ OtherTabs(t)
        /\ tabs'[t].pc = pc /\ tabs'[t].file = tabs[t].file /\ tabs'[t].id = tabs[t].id
        /\ handlers' \in [Handlers -> Handler] /\ Others(h) /\ handlers'[h] = Free
    BY <1>1, StopMoves
  <1> QED BY <1>2 DEF TabStep, t

\* An answer of a handler that served a session: the tab goes on with the same upload.
LEMMA fetchMoves ==
  ASSUME TypeInv, NEW h \in Handlers, fetchReceivedChunks(h)
  PROVE  /\ TabStep(h, handlers[h].id) /\ tabs'[handlers[h].tab].pc = "waiting"
         /\ handlers[h].id \in UploadIds /\ session[handlers[h].id] # None
         /\ handlers[h].op = "status"
         /\ UNCHANGED <<stored, session, part, rows, disturbed, faults>>
  <1> DEFINE t == handlers[h].tab
             todo == IF handlers[h].pc = "ok" THEN Indices \ handlers[h].have ELSE Indices
  <1>1. Answered(h, "status") /\ Continue(h, t, tabs[t].id, todo) BY DEF fetchReceivedChunks
  <1>2. /\ t \in Tabs /\ tabs[t].pc = "waiting" /\ tabs[t].file \in Files
        /\ tabs[t].id = handlers[h].id /\ handlers[h].id \in UploadIds
        /\ session[handlers[h].id] # None /\ handlers[h].op = "status"
    BY <1>1, AnsweredTab DEF Answered
  <1>3. todo \in SUBSET Indices OBVIOUS
  <1> HIDE DEF todo
  <1>4. TabStep(h, handlers[h].id) /\ tabs'[t].pc = "waiting" BY <1>1, <1>2, <1>3, ContinueTab
  <1>5. UNCHANGED <<stored, session, part, rows, disturbed, faults>> BY DEF fetchReceivedChunks
  <1> QED BY <1>2, <1>4, <1>5

LEMMA BegunMoves ==
  ASSUME TypeInv, NEW h \in Handlers, Begun(h)
  PROVE  /\ UNCHANGED <<session, part, rows, disturbed, faults>>
         /\ handlers[h].op = "init" /\ handlers[h].file \in Files
         /\ \/ /\ handlers[h].pc = "ok" /\ TabStep(h, handlers[h].id)
               /\ tabs'[handlers[h].tab].pc = "waiting"
               /\ handlers[h].id \in UploadIds /\ session[handlers[h].id] # None
               /\ stored' = [stored EXCEPT ![resumeKey(handlers[h].file)] = handlers[h].id]
            \/ /\ TabStep(h, handlers[h].id) /\ tabs'[handlers[h].tab].pc = "failed"
               /\ UNCHANGED stored
  <1> DEFINE t == handlers[h].tab
             id == handlers[h].id
  <1>1. Answered(h, "init") BY DEF Begun
  <1>2. /\ t \in Tabs /\ tabs[t].pc = "waiting" /\ tabs[t].file = handlers[h].file
        /\ handlers[h].file \in Files /\ handlers[h].op = "init"
        /\ handlers[h].pc = "ok" => id \in UploadIds /\ session[id] # None
    BY <1>1, AnsweredTab DEF Answered
  <1>3. UNCHANGED <<session, part, rows, disturbed, faults>> BY DEF Begun
  <1>4. CASE handlers[h].pc = "ok"
    <2>1. /\ stored' = [stored EXCEPT ![resumeKey(tabs[t].file)] = id]
          /\ Continue(h, t, id, Indices)
      BY <1>4 DEF Begun
    <2>2. TabStep(h, id) /\ tabs'[t].pc = "waiting"
      BY <1>2, <1>4, <2>1, ContinueTab
    <2> QED BY <1>2, <1>3, <1>4, <2>1, <2>2
  <1>5. CASE handlers[h].pc # "ok"
    <2>1. Stop(h, t, "failed") /\ UNCHANGED stored BY <1>5 DEF Begun
    <2>2. TabStep(h, id) /\ tabs'[t].pc = "failed" BY <1>2, <2>1, StopTab
    <2> QED BY <1>2, <1>3, <2>1, <2>2
  <1> QED BY <1>4, <1>5

\* A key is forgotten, at most.
Forgets == /\ stored' \in [Keys -> UploadIds \cup {None}]
           /\ \A k \in Keys : stored'[k] \in {stored[k], None}

LEMMA ChunkAnsweredMoves ==
  ASSUME TypeInv, NEW h \in Handlers, ChunkAnswered(h)
  PROVE  /\ TabStep(h, handlers[h].id) /\ tabs'[handlers[h].tab].pc \in {"waiting", "failed"}
         /\ handlers[h].id \in UploadIds /\ session[handlers[h].id] # None
         /\ tabs[handlers[h].tab].id = handlers[h].id
         /\ Forgets /\ UNCHANGED <<session, part, rows, disturbed, faults>>
         /\ handlers[h].op = "chunk" /\ handlers[h].pc \in {"ok", "refused", "gone"}
  <1> DEFINE t == handlers[h].tab
             id == handlers[h].id
             todo == tabs[t].todo \ {handlers[h].idx}
  <1>1. Answered(h, "chunk") BY DEF ChunkAnswered
  <1>2. /\ t \in Tabs /\ tabs[t].pc = "waiting" /\ tabs[t].file \in Files
        /\ tabs[t].id = id /\ id \in UploadIds /\ session[id] # None
    BY <1>1, AnsweredTab
  <1>3. UNCHANGED <<session, part, rows, disturbed, faults>> BY DEF ChunkAnswered
  <1>4. TabStep(h, id) /\ tabs'[t].pc \in {"waiting", "failed"}
    <2>1. CASE handlers[h].pc = "ok"
      <3>1. Continue(h, t, id, todo) BY <1>2, <2>1 DEF ChunkAnswered
      <3>2. todo \in SUBSET Indices BY <1>2 DEF TypeInv, TypeOK, Tab
      <3> HIDE DEF todo
      <3> QED BY <1>2, <3>1, <3>2, ContinueTab
    <2>2. CASE handlers[h].pc # "ok"
      <3>1. Stop(h, t, "failed") BY <2>2 DEF ChunkAnswered
      <3> QED BY <1>2, <3>1, StopTab
    <2> QED BY <2>1, <2>2
  <1>5. Forgets
    <2>1. stored' = stored \/ stored' = [stored EXCEPT ![resumeKey(tabs[t].file)] = None]
      BY DEF ChunkAnswered
    <2> QED BY <2>1 DEF Forgets, TypeInv, TypeOK
  <1>6. handlers[h].op = "chunk" /\ handlers[h].pc \in {"ok", "refused", "gone"}
    BY <1>1 DEF Answered
  <1> QED BY <1>2, <1>3, <1>4, <1>5, <1>6

LEMMA CompletedMoves ==
  ASSUME TypeInv, NEW h \in Handlers, Completed(h)
  PROVE  /\ TabStep(h, handlers[h].id)
         /\ tabs'[handlers[h].tab].pc = IF handlers[h].pc = "ok" THEN "done" ELSE "failed"
         /\ handlers[h].id \in UploadIds /\ session[handlers[h].id] # None
         /\ tabs[handlers[h].tab].id = handlers[h].id
         /\ Forgets /\ UNCHANGED <<session, part, rows, disturbed, faults>>
         /\ handlers[h].op = "complete" /\ handlers[h].pc \in {"ok", "refused", "gone"}
  <1> DEFINE t == handlers[h].tab
             id == handlers[h].id
             pc == IF handlers[h].pc = "ok" THEN "done" ELSE "failed"
  <1>1. Answered(h, "complete") BY DEF Completed
  <1>2. /\ t \in Tabs /\ tabs[t].pc = "waiting" /\ tabs[t].file \in Files
        /\ tabs[t].id = id /\ id \in UploadIds /\ session[id] # None
    BY <1>1, AnsweredTab
  <1>3. UNCHANGED <<session, part, rows, disturbed, faults>> BY DEF Completed
  <1>4. Stop(h, t, pc) BY DEF Completed
  <1>5. pc \in {"failed", "done"} OBVIOUS
  <1> HIDE DEF pc
  <1>6. TabStep(h, id) /\ tabs'[t].pc = pc BY <1>2, <1>4, <1>5, StopTab
  <1>7. Forgets
    <2>1. stored' = stored \/ stored' = [stored EXCEPT ![resumeKey(tabs[t].file)] = None]
      BY DEF Completed
    <2> QED BY <2>1 DEF Forgets, TypeInv, TypeOK
  <1>8. handlers[h].op = "complete" /\ handlers[h].pc \in {"ok", "refused", "gone"}
    BY <1>1 DEF Answered
  <1> QED BY <1>2, <1>3, <1>6, <1>7, <1>8 DEF pc

LEMMA GiveUpMoves ==
  ASSUME TypeInv, NEW h \in Handlers, GiveUp(h)
  PROVE  /\ UNCHANGED <<stored, session, part, rows>> /\ faults' \in 0 .. MaxFaults
         /\ disturbed' = disturbed \cup CutOff({h})
         /\ handlers[h].tab \in Tabs /\ tabs[handlers[h].tab].pc = "waiting"
         /\ \/ /\ handlers[h].op = "status" /\ TabStep(h, handlers[h].id)
               /\ tabs'[handlers[h].tab].pc = "waiting"
               /\ handlers[h].id \in UploadIds /\ session[handlers[h].id] # None
            \/ /\ tabs' \in [Tabs -> Tab] /\ OtherTabs(handlers[h].tab)
               /\ tabs'[handlers[h].tab].pc = "failed"
               /\ tabs'[handlers[h].tab].file = tabs[handlers[h].tab].file
               /\ tabs'[handlers[h].tab].id = tabs[handlers[h].tab].id
               /\ handlers' \in [Handlers -> Handler] /\ Others(h)
               /\ \/ handlers[h].pc \in {"ok", "refused", "gone"} /\ handlers'[h] = Free
                  \/ /\ handlers[h].pc \notin {"ok", "refused", "gone"}
                     /\ handlers'[h] = [handlers[h] EXCEPT !.tab = None]
  <1> DEFINE t == handlers[h].tab
             id == handlers[h].id
  <1>1. handlers[h] \in Handler /\ t \in Tabs BY DEF GiveUp, TypeInv, TypeOK, Handler
  <1>2. /\ tabs[t].pc = "waiting" /\ tabs[t].file = handlers[h].file /\ handlers[h].file \in Files
        /\ handlers[h].op = "status" =>
             tabs[t].id = id /\ id \in UploadIds /\ session[id] # None
    BY DEF GiveUp, TypeInv, LocalsInv, HandlerLocals, Named, Known
  <1>3. faults' \in 0 .. MaxFaults BY SizeAssumption DEF GiveUp, Fault, TypeInv, TypeOK
  <1>4. UNCHANGED <<stored, session, part, rows>> /\ disturbed' = disturbed \cup CutOff({h})
    BY DEF GiveUp
  <1>5. CASE handlers[h].op = "status"
    <2>1. Continue(h, t, id, Indices) BY <1>2, <1>5 DEF GiveUp
    <2>2. TabStep(h, id) /\ tabs'[t].pc = "waiting" BY <1>1, <1>2, <1>5, <2>1, ContinueTab
    <2> QED BY <1>1, <1>2, <1>3, <1>4, <1>5, <2>2
  <1>6. CASE handlers[h].op # "status"
    <2> DEFINE q == IF handlers[h].pc \in {"ok", "refused", "gone"} THEN Free
                    ELSE [handlers[h] EXCEPT !.tab = None]
    <2>1. handlers' = [handlers EXCEPT ![h] = q] BY <1>6 DEF GiveUp
    <2>7. tabs' = [tabs EXCEPT ![t].pc = "failed"] BY <1>6 DEF GiveUp
    <2>2. q \in Handler
      <3>1. [handlers[h] EXCEPT !.tab = None] \in Handler BY <1>1 DEF Handler
      <3> QED BY <3>1, FreeFields
    <2>5. \/ handlers[h].pc \in {"ok", "refused", "gone"} /\ q = Free
          \/ /\ handlers[h].pc \notin {"ok", "refused", "gone"}
             /\ q = [handlers[h] EXCEPT !.tab = None]
      OBVIOUS
    <2> HIDE DEF q, t
    <2>3. /\ tabs' \in [Tabs -> Tab] /\ OtherTabs(t) /\ tabs'[t].pc = "failed"
          /\ tabs'[t].file = tabs[t].file /\ tabs'[t].id = tabs[t].id
      <3> DEFINE b == [tabs[t] EXCEPT !.pc = "failed"]
      <3>1. tabs[t] \in Tab /\ tabs \in [Tabs -> Tab] BY <1>1 DEF TypeInv, TypeOK
      <3>2. b \in Tab /\ b.pc = "failed" /\ b.file = tabs[t].file /\ b.id = tabs[t].id
        BY <3>1 DEF Tab
      <3>3. tabs' = [tabs EXCEPT ![t] = b] BY <2>7
      <3> HIDE DEF b
      <3> QED BY <1>1, <3>1, <3>2, <3>3 DEF OtherTabs
    <2>4. handlers'[h] = q BY <2>1 DEF TypeInv, TypeOK
    <2>6. handlers' \in [Handlers -> Handler] /\ Others(h) BY <2>1, <2>2 DEF TypeInv, TypeOK, Others
    <2> QED BY <1>1, <1>2, <1>3, <1>4, <2>3, <2>4, <2>5, <2>6 DEF t
  <1> QED BY <1>5, <1>6

\* What becomes of a thread's request: nothing, or the first chunk's, of a tab that
\* waited for its list.
Restarted(h) ==
  \/ handlers'[h] = Free
  \/ /\ handlers[h].op = "status" /\ handlers[h].tab \in Tabs
     /\ tabs'[handlers[h].tab] = tabs[handlers[h].tab]
     /\ handlers'[h].op = "chunk" /\ handlers'[h].pc = "new" /\ handlers'[h].idx \in Indices
     /\ handlers'[h].tab = handlers[h].tab /\ handlers'[h].file = handlers[h].file
     /\ handlers'[h].id = handlers[h].id

LEMMA CrashRestarts ==
  ASSUME TypeInv, Crash, NEW h \in Handlers
  PROVE  Restarted(h) /\ handlers'[h] \in Handler
  <1>1. CASE Asking(h)
    <2> DEFINE t == handlers[h].tab
               id == handlers[h].id
               q == Asks(h, t, "chunk", id, Min(Indices))
    <2>1. handlers[h] \in Handler BY DEF TypeInv, TypeOK
    <2>2. t \in Tabs /\ handlers[h].op = "status" /\ id \in UploadIds \cup {None}
      BY <1>1, <2>1 DEF Asking, Handler
    <2>3. tabs[t].file = handlers[h].file /\ handlers[h].file \in Files
      BY <2>2, NoneAssumption DEF TypeInv, LocalsInv, HandlerLocals
    <2>4. tabs'[t] = tabs[t] BY <1>1, <2>2 DEF Crash
    <2>5. Min(Indices) \in Indices
      <3>1. Indices \in SUBSET Nat /\ 0 \in Indices BY SizeAssumption DEF Indices
      <3> QED BY <3>1, MinOf
    <2>6. handlers'[h] = q BY <1>1 DEF Crash
    <2>7. tabs'[t].file \in Files BY <2>3, <2>4
    <2> HIDE DEF t, id
    <2>8. /\ q \in Handler /\ q.op = "chunk" /\ q.pc = "new" /\ q.tab = t
          /\ q.file = tabs'[t].file /\ q.id = id /\ q.idx = Min(Indices)
      BY <2>2, <2>5, <2>7, AsksFields
    <2> HIDE DEF q
    <2> QED BY <2>2, <2>3, <2>4, <2>5, <2>6, <2>8 DEF Restarted, t, id
  <1>2. CASE ~Asking(h)
    <2>1. handlers'[h] = Free BY <1>2 DEF Crash
    <2> QED BY <2>1, FreeFields DEF Restarted
  <1> QED BY <1>1, <1>2

LEMMA CrashMoves ==
  ASSUME TypeInv, Crash
  PROVE  /\ UNCHANGED <<stored, session, part, rows>> /\ faults' \in 0 .. MaxFaults
         /\ disturbed' = disturbed \cup CutOff(Handlers)
         /\ tabs' \in [Tabs -> Tab] /\ handlers' \in [Handlers -> Handler]
         /\ \A h \in Handlers : Restarted(h)
         /\ \A t \in Tabs :
              /\ tabs'[t].file = tabs[t].file /\ tabs'[t].id = tabs[t].id
              /\ \/ tabs'[t].pc = tabs[t].pc
                 \/ tabs[t].pc = "waiting" /\ tabs'[t].pc = "failed"
  <1>1. UNCHANGED <<stored, session, part, rows>> /\ disturbed' = disturbed \cup CutOff(Handlers)
    BY DEF Crash
  <1>2. faults' \in 0 .. MaxFaults BY SizeAssumption DEF Crash, Fault, TypeInv, TypeOK
  <1>3. handlers' \in [Handlers -> Handler] /\ \A h \in Handlers : Restarted(h)
    <2>1. handlers' = [h \in Handlers |-> handlers'[h]] BY DEF Crash
    <2> QED BY <2>1, CrashRestarts
  <1>4. ASSUME NEW t \in Tabs
        PROVE  /\ tabs'[t] \in Tab /\ tabs'[t].file = tabs[t].file /\ tabs'[t].id = tabs[t].id
               /\ \/ tabs'[t].pc = tabs[t].pc
                  \/ tabs[t].pc = "waiting" /\ tabs'[t].pc = "failed"
    <2>1. tabs[t] \in Tab BY DEF TypeInv, TypeOK
    <2>2. CASE tabs[t].pc = "waiting" /\ tabs'[t] # tabs[t]
      <3>1. tabs'[t] = [tabs[t] EXCEPT !.pc = "failed"] BY <2>2 DEF Crash
      <3> QED BY <2>1, <2>2, <3>1 DEF Tab
    <2>3. CASE tabs'[t] = tabs[t]
      BY <2>1, <2>3
    <2>4. CASE tabs[t].pc # "waiting"
      <3>1. tabs'[t] = tabs[t] BY <2>4 DEF Crash
      <3> QED BY <2>1, <3>1
    <2> QED BY <2>2, <2>3, <2>4
  <1>5. tabs' \in [Tabs -> Tab]
    <2>1. tabs' = [t \in Tabs |-> tabs'[t]] BY DEF Crash
    <2> QED BY <1>4, <2>1
  <1> QED BY <1>1, <1>2, <1>3, <1>4, <1>5

LEMMA AgeMoves ==
  ASSUME TypeInv, NEW id \in UploadIds, Age(id)
  PROVE  /\ UNCHANGED <<tabs, stored, part, handlers, rows, disturbed>>
         /\ faults' \in 0 .. MaxFaults /\ SessionsKept
         /\ session' \in [UploadIds -> Session \cup {None}]
  <1>1. UNCHANGED <<tabs, stored, part, handlers, rows, disturbed>> BY DEF Age
  <1>2. faults' \in 0 .. MaxFaults BY SizeAssumption DEF Age, Fault, TypeInv, TypeOK
  <1> DEFINE r == [session[id] EXCEPT !.old = TRUE]
  <1>3. session[id] # None /\ session[id] \in Session BY DEF Age, Active, TypeInv, TypeOK
  <1>4. r \in Session /\ r.file = session[id].file BY <1>3 DEF Session
  <1>5. session' = [session EXCEPT ![id] = r] BY DEF Age
  <1> HIDE DEF r
  <1>6. session' \in [UploadIds -> Session \cup {None}] BY <1>4, <1>5 DEF TypeInv, TypeOK
  <1>7. SessionsKept BY <1>3, <1>4, <1>5, NoneAssumption DEF SessionsKept, TypeInv, TypeOK
  <1> QED BY <1>1, <1>2, <1>6, <1>7

-----------------------------------------------------------------------------
(* Types. *)

LEMMA TypesInit == Init => TypeInv
  <1> SUFFICES ASSUME Init PROVE TypeInv OBVIOUS
  <1>1. TypeOK
    <2>1. tabs \in [Tabs -> Tab] BY DEF Init, Tab
    <2>2. handlers \in [Handlers -> Handler] BY FreeFields DEF Init
    <2>3. /\ stored \in [Keys -> UploadIds \cup {None}]
          /\ session \in [UploadIds -> Session \cup {None}]
          /\ part \in [UploadIds -> [Indices -> Piece \cup {None, Torn}]]
          /\ rows = {} /\ disturbed = {} /\ faults \in 0 .. MaxFaults
      BY SizeAssumption DEF Init
    <2> QED BY <2>1, <2>2, <2>3 DEF TypeOK
  <1>2. \A t \in Tabs : TabLocals(tabs[t]) BY DEF Init, TabLocals
  <1>3. \A k \in Keys : stored[k] = None BY DEF Init
  <1>4. \A h \in Handlers : handlers[h] = Free BY DEF Init
  <1>5. \A h \in Handlers : HandlerLocals(handlers[h])
    BY <1>4, FreeFields DEF HandlerLocals, Named
  <1>6. Alone BY <1>4, FreeFields DEF Alone
  <1> QED BY <1>1, <1>2, <1>3, <1>5, <1>6 DEF TypeInv, LocalsInv

\* What a session is known by stays known.
LEMMA KnownKept ==
  ASSUME SessionsKept, NEW id, Known(id)
  PROVE  id \in UploadIds /\ session'[id] # None
  BY DEF Known, SessionsKept

\* A step of one handler and of the tab it is with leaves the other handlers' locals.
LEMMA LocalsStep ==
  ASSUME TypeInv, SessionsKept, NEW h \in Handlers, Others(h),
         HandlerLocals(handlers[h])',
         \A x \in Tabs : tabs[x].pc = "waiting" /\ handlers[h].tab # x => tabs'[x] = tabs[x],
         \/ handlers'[h].tab \in {None, handlers[h].tab}
         \/ tabs[handlers'[h].tab].pc # "waiting"
  PROVE  (\A g \in Handlers : HandlerLocals(handlers[g]))' /\ Alone'
  <1>1. ASSUME NEW g \in Handlers, g # h
        PROVE  /\ handlers'[g] = handlers[g] /\ HandlerLocals(handlers[g])
               /\ handlers[g].tab # None => /\ handlers[g].tab \in Tabs
                                            /\ handlers[g].tab # handlers[h].tab
                                            /\ tabs[handlers[g].tab].pc = "waiting"
    BY <1>1 DEF Others, TypeInv, TypeOK, Handler, LocalsInv, Alone, HandlerLocals
  <1>2. ASSUME NEW g \in Handlers, g # h
        PROVE  HandlerLocals(handlers[g])'
    <2>1. handlers[g].tab # None => tabs'[handlers[g].tab] = tabs[handlers[g].tab]
      BY <1>1, <1>2
    <2>2. Named(handlers[g]) => handlers[g].id \in UploadIds /\ session'[handlers[g].id] # None
      BY <1>1, <1>2, KnownKept DEF HandlerLocals
    <2> QED BY <1>1, <1>2, <2>1, <2>2 DEF HandlerLocals, Known, Named
  <1>3. Alone'
    <2> SUFFICES ASSUME NEW f \in Handlers, NEW g \in Handlers, f # g,
                        handlers'[f].tab = handlers'[g].tab, handlers'[f].tab # None
                 PROVE  FALSE
      BY DEF Alone
    <2>1. CASE f # h /\ g # h BY <1>1, <2>1 DEF TypeInv, LocalsInv, Alone
    <2>2. CASE f = h BY <1>1, <2>2
    <2>3. CASE g = h BY <1>1, <2>3
    <2> QED BY <2>1, <2>2, <2>3
  <1> QED BY <1>2, <1>3

\* Tabs that know what they knew.
LEMMA TabsKept ==
  ASSUME TypeInv, SessionsKept, NEW t \in Tabs, tabs'[t].file = tabs[t].file,
         tabs'[t].id = tabs[t].id, tabs'[t].pc # "idle" => tabs[t].pc # "idle"
  PROVE  TabLocals(tabs[t])'
  BY DEF TypeInv, LocalsInv, TabLocals, Known, SessionsKept

LEMMA StoredKept ==
  ASSUME TypeInv, SessionsKept, \A k \in Keys : stored'[k] \in {stored[k], None}
  PROVE  (\A k \in Keys : stored[k] # None => Known(stored[k]))'
  BY DEF TypeInv, LocalsInv, Known, SessionsKept

LEMMA ServiceLocals ==
  ASSUME TypeInv, NEW h \in Handlers, ServiceStep(h),
         handlers'[h] # Free =>
           /\ handlers'[h].op = "init" /\ handlers'[h].pc = "ok" =>
                Known(handlers[h].id)' /\ handlers'[h].tab # None
           /\ handlers'[h].op = "complete" /\ handlers'[h].pc = "register" =>
                handlers'[h].bytes \in [Indices -> Piece \cup {Torn}]
  PROVE  LocalsInv'
  <1>1. UNCHANGED <<tabs, stored>> /\ SessionsKept /\ Others(h) /\ Follows(h) BY DEF ServiceStep
  <1>2. (\A t \in Tabs : TabLocals(tabs[t]))' BY <1>1, TabsKept
  <1>3. (\A k \in Keys : stored[k] # None => Known(stored[k]))' BY <1>1, StoredKept
  <1>4. HandlerLocals(handlers[h])'
    <2>1. CASE handlers'[h] = Free BY <2>1, FreeFields DEF HandlerLocals, Named
    <2>2. CASE handlers'[h] # Free
      <3>1. /\ handlers[h].op # "none" /\ handlers'[h].op = handlers[h].op
            /\ handlers'[h].tab = handlers[h].tab /\ handlers'[h].file = handlers[h].file
            /\ handlers'[h].idx = handlers[h].idx
            /\ handlers[h].op # "init" => handlers'[h].id = handlers[h].id
        BY <1>1, <2>2 DEF Follows
      <3>2. HandlerLocals(handlers[h]) BY DEF TypeInv, LocalsInv
      <3>3. Named(handlers[h]) => handlers[h].id \in UploadIds /\ session'[handlers[h].id] # None
        BY <1>1, <3>2, KnownKept DEF HandlerLocals
      <3> DEFINE q == handlers'[h]
      <3>4. Named(q) => q.id \in UploadIds /\ session'[q.id] # None
        BY <2>2, <3>1, <3>3 DEF Named, Known
      <3>5. q.tab # None => /\ tabs'[q.tab].pc = "waiting" /\ tabs'[q.tab].file = q.file
                            /\ q.op # "init" => tabs'[q.tab].id = q.id
        BY <1>1, <3>1, <3>2 DEF HandlerLocals
      <3>6. q.op # "none" /\ q.file \in Files /\ (q.op = "chunk" => q.idx \in Indices)
        BY <3>1, <3>2 DEF HandlerLocals
      <3>7. /\ q.op = "init" /\ q.pc = "ok" => q.tab # None
            /\ q.op = "complete" /\ q.pc = "register" => q.bytes \in [Indices -> Piece \cup {Torn}]
        BY <2>2
      <3> QED BY <3>4, <3>5, <3>6, <3>7 DEF HandlerLocals, Named, Known
    <2> QED BY <2>1, <2>2
  <1>5. handlers'[h].tab \in {None, handlers[h].tab} BY <1>1, FreeFields DEF Follows
  <1>6. (\A g \in Handlers : HandlerLocals(handlers[g]))' /\ Alone'
    BY <1>1, <1>4, <1>5, LocalsStep
  <1> QED BY <1>2, <1>3, <1>6 DEF LocalsInv

LEMMA TabStepLocals ==
  ASSUME TypeInv, NEW h \in Handlers, NEW id, TabStep(h, id), UNCHANGED session,
         tabs'[handlers[h].tab].pc = "waiting" => Known(id),
         (\A k \in Keys : stored[k] # None => Known(stored[k]))'
  PROVE  LocalsInv'
  <1> DEFINE t == handlers[h].tab
  <1>1. SessionsKept /\ Others(h) /\ OtherTabs(t) /\ t \in Tabs BY SameSessions DEF TabStep
  <1>2. tabs[t].pc = "waiting" /\ tabs[t].file \in Files
    BY <1>1 DEF TabStep, TypeInv, LocalsInv, TabLocals
  <1>3. (\A x \in Tabs : TabLocals(tabs[x]))'
    <2> SUFFICES ASSUME NEW x \in Tabs PROVE TabLocals(tabs[x])' OBVIOUS
    <2>1. CASE x # t BY <1>1, <2>1, TabsKept DEF OtherTabs
    <2>2. CASE x = t
      <3>1. tabs'[t].file = tabs[t].file BY DEF TabStep
      <3>2. \/ tabs'[t].id = tabs[t].id
            \/ tabs'[t].id \in UploadIds /\ session'[tabs'[t].id] # None
        BY DEF TabStep, Known
      <3>3. TabLocals(tabs[t]) BY <1>1 DEF TypeInv, LocalsInv
      <3> HIDE DEF t
      <3> QED BY <1>2, <2>2, <3>1, <3>2, <3>3 DEF TabLocals, Known
    <2> QED BY <2>1, <2>2
  <1>4. HandlerLocals(handlers[h])'
    <2>1. CASE handlers'[h] = Free BY <2>1, FreeFields DEF HandlerLocals, Named
    <2>2. CASE handlers'[h] # Free
      <3>1. /\ tabs'[t].pc = "waiting" /\ tabs'[t].id = id /\ tabs'[t].file = tabs[t].file
            /\ handlers'[h].tab = t /\ handlers'[h].file = tabs[t].file
            /\ handlers'[h].id = id /\ handlers'[h].pc = "new"
            /\ \/ handlers'[h].op = "chunk" /\ handlers'[h].idx \in Indices
               \/ handlers'[h].op = "complete"
        BY <2>2 DEF TabStep
      <3>2. Known(id)' BY <3>1 DEF Known
      <3> HIDE DEF t
      <3> QED BY <1>2, <3>1, <3>2 DEF HandlerLocals, Named
    <2> QED BY <2>1, <2>2
  <1>5. handlers'[h].tab \in {None, t} BY FreeFields DEF TabStep
  <1>6. (\A g \in Handlers : HandlerLocals(handlers[g]))' /\ Alone'
    BY <1>1, <1>4, <1>5, LocalsStep DEF OtherTabs
  <1> QED BY <1>3, <1>6 DEF LocalsInv

LEMMA ClickTypes ==
  ASSUME TypeInv, NEW t \in Tabs, NEW f \in Files, NEW h \in Handlers, Click(t, f, h)
  PROVE  TypeInv'
  <1> DEFINE id == stored[resumeKey(f)]
  <1>1. /\ tabs' \in [Tabs -> Tab] /\ OtherTabs(t) /\ tabs[t].pc # "waiting"
        /\ tabs'[t].pc = "waiting" /\ tabs'[t].file = f /\ tabs'[t].id = id
        /\ handlers' \in [Handlers -> Handler] /\ Others(h)
        /\ handlers'[h].tab = t /\ handlers'[h].file = f /\ handlers'[h].pc = "new"
        /\ handlers'[h].id = id /\ handlers[h].op = "none"
        /\ handlers'[h].op = IF id # None THEN "status" ELSE "init"
    BY ClickMoves
  <1>2. UNCHANGED <<stored, session, part, rows, faults>> BY DEF Click
  <1>3. SessionsKept BY <1>2, SameSessions
  <1>4. id # None => Known(id) BY DEF TypeInv, LocalsInv, Keys
  <1>5. disturbed' \subseteq UploadIds \X Indices
    <2>1. disturbed' = disturbed \/ (id # None /\ disturbed' = disturbed \cup {id} \X Indices)
      BY DEF Click
    <2> QED BY <1>4, <2>1 DEF TypeInv, TypeOK, Known
  <1> HIDE DEF id
  <1>6. TypeOK' BY <1>1, <1>2, <1>5 DEF TypeInv, TypeOK
  <1>7. (\A x \in Tabs : TabLocals(tabs[x]))'
    <2> SUFFICES ASSUME NEW x \in Tabs PROVE TabLocals(tabs[x])' OBVIOUS
    <2>1. CASE x # t BY <1>1, <1>3, <2>1, TabsKept DEF OtherTabs
    <2>2. CASE x = t BY <1>1, <1>2, <1>4, <2>2 DEF TabLocals, Known
    <2> QED BY <2>1, <2>2
  <1>8. (\A k \in Keys : stored[k] # None => Known(stored[k]))' BY <1>2, <1>3, StoredKept
  <1>9. HandlerLocals(handlers[h])'
    <2>1. id # None => id \in UploadIds /\ session'[id] # None BY <1>2, <1>4 DEF Known
    <2>2. t # None BY NoneAssumption
    <2> QED BY <1>1, <2>1, <2>2 DEF HandlerLocals, Named, Known
  <1>10. handlers[h].tab = None BY <1>1 DEF TypeInv, LocalsInv, HandlerLocals
  <1>11. (\A g \in Handlers : HandlerLocals(handlers[g]))' /\ Alone'
    BY <1>1, <1>3, <1>9, LocalsStep DEF OtherTabs
  <1> QED BY <1>6, <1>7, <1>8, <1>11 DEF TypeInv, LocalsInv

\* The session and the place in its directory that a handler has to do with.
LEMMA NamedHandler ==
  ASSUME TypeInv, NEW h \in Handlers, Named(handlers[h])
  PROVE  /\ handlers[h].id \in UploadIds /\ session[handlers[h].id] # None
         /\ session[handlers[h].id] \in Session /\ session[handlers[h].id].file \in Files
         /\ handlers[h].file \in Files
         /\ handlers[h].op = "chunk" => handlers[h].idx \in Indices
  <1>1. HandlerLocals(handlers[h]) BY DEF TypeInv, LocalsInv
  <1>2. handlers[h].id \in UploadIds /\ session[handlers[h].id] # None
    BY <1>1 DEF HandlerLocals, Known
  <1>3. session[handlers[h].id] \in Session BY <1>2 DEF TypeInv, TypeOK
  <1>4. handlers[h].op # "none" BY DEF Named
  <1> QED BY <1>1, <1>2, <1>3, <1>4 DEF HandlerLocals, Session

LEMMA UploadStatusTypes ==
  ASSUME TypeInv, NEW h \in Handlers, UploadStatus(h)
  PROVE  TypeInv'
  <1>1. /\ ServiceStep(h) /\ UNCHANGED <<session, part, rows, disturbed, faults>>
        /\ handlers'[h] = Free \/ handlers'[h].op = "status"
    BY UploadStatusMoves
  <1>2. TypeOK' BY <1>1 DEF ServiceStep, TypeInv, TypeOK
  <1>3. LocalsInv' BY <1>1, ServiceLocals
  <1> QED BY <1>2, <1>3 DEF TypeInv

LEMMA UploadInitTypes ==
  ASSUME TypeInv, NEW h \in Handlers, UploadInit(h)
  PROVE  TypeInv'
  <1>1. /\ ServiceStep(h) /\ UNCHANGED <<rows, disturbed, faults>>
        /\ session' \in [UploadIds -> Session \cup {None}]
        /\ part' \in [UploadIds -> [Indices -> Piece \cup {None, Torn}]]
    BY UploadInitMoves
  <1>2. TypeOK' BY <1>1 DEF ServiceStep, TypeInv, TypeOK
  <1>3. \/ handlers'[h] = Free
        \/ /\ handlers'[h].op = "init" /\ handlers'[h].tab # None
           /\ handlers'[h].id \in UploadIds /\ session'[handlers'[h].id] # None
    BY UploadInitMoves
  <1>4. LocalsInv' BY <1>1, <1>3, ServiceLocals DEF Known
  <1> QED BY <1>2, <1>4 DEF TypeInv

LEMMA OpenChunkTypes ==
  ASSUME TypeInv, NEW h \in Handlers, OpenChunk(h)
  PROVE  TypeInv'
  <1>1. /\ ServiceStep(h) /\ UNCHANGED <<session, rows, disturbed, faults>>
        /\ handlers[h].op = "chunk"
    BY OpenChunkMoves
  <1>2. \/ UNCHANGED part
        \/ part' = [part EXCEPT ![handlers[h].id][handlers[h].idx] = Torn]
    BY OpenChunkMoves
  <1>3. part' \in [UploadIds -> [Indices -> Piece \cup {None, Torn}]]
    <2>1. CASE UNCHANGED part BY <2>1 DEF TypeInv, TypeOK
    <2>2. CASE part' = [part EXCEPT ![handlers[h].id][handlers[h].idx] = Torn]
      BY <2>2 DEF TypeInv, TypeOK
    <2> QED BY <1>2, <2>1, <2>2
  <1>4. TypeOK' BY <1>1, <1>3 DEF ServiceStep, TypeInv, TypeOK
  <1>5. handlers'[h] = Free \/ handlers'[h].op = "chunk" BY <1>1 DEF ServiceStep, Follows
  <1>6. LocalsInv' BY <1>1, <1>5, ServiceLocals
  <1> QED BY <1>4, <1>6 DEF TypeInv

LEMMA SaveChunkTypes ==
  ASSUME TypeInv, NEW h \in Handlers, SaveChunk(h)
  PROVE  TypeInv'
  <1> DEFINE piece == <<handlers[h].file, handlers[h].idx>>
  <1>1. /\ ServiceStep(h) /\ UNCHANGED <<session, rows, disturbed, faults>>
        /\ handlers[h].op = "chunk"
        /\ \/ UNCHANGED part
           \/ part' = [part EXCEPT ![handlers[h].id][handlers[h].idx] = piece]
    BY SaveChunkMoves
  <1>2. piece \in Piece BY <1>1, NamedHandler DEF Named, Piece
  <1> HIDE DEF piece
  <1>3. part' \in [UploadIds -> [Indices -> Piece \cup {None, Torn}]]
    <2>1. CASE UNCHANGED part BY <2>1 DEF TypeInv, TypeOK
    <2>2. CASE part' = [part EXCEPT ![handlers[h].id][handlers[h].idx] = piece]
      BY <1>2, <2>2 DEF TypeInv, TypeOK
    <2> QED BY <1>1, <2>1, <2>2
  <1>4. TypeOK' BY <1>1, <1>3 DEF ServiceStep, TypeInv, TypeOK
  <1>5. handlers'[h] = Free \/ handlers'[h].op = "chunk" BY <1>1 DEF ServiceStep, Follows
  <1>6. LocalsInv' BY <1>1, <1>5, ServiceLocals
  <1> QED BY <1>4, <1>6 DEF TypeInv

LEMMA UpdateCountTypes ==
  ASSUME TypeInv, NEW h \in Handlers, UpdateCount(h)
  PROVE  TypeInv'
  <1>1. /\ ServiceStep(h) /\ UNCHANGED <<part, rows, disturbed, faults>>
        /\ handlers[h].op = "chunk" /\ session' \in [UploadIds -> Session \cup {None}]
    BY UpdateCountMoves
  <1>2. TypeOK' BY <1>1 DEF ServiceStep, TypeInv, TypeOK
  <1>3. handlers'[h] = Free \/ handlers'[h].op = "chunk" BY <1>1 DEF ServiceStep, Follows
  <1>4. LocalsInv' BY <1>1, <1>3, ServiceLocals
  <1> QED BY <1>2, <1>4 DEF TypeInv

LEMMA MergeChunksTypes ==
  ASSUME TypeInv, NEW h \in Handlers, MergeChunks(h)
  PROVE  TypeInv'
  <1>1. /\ ServiceStep(h) /\ UNCHANGED <<session, part, rows, disturbed, faults>>
        /\ handlers[h].op = "complete"
        /\ \/ handlers'[h] = Free \/ handlers'[h].pc \in {"gone", "refused"}
           \/ handlers'[h].bytes \in [Indices -> Piece \cup {Torn}]
    BY MergeChunksMoves
  <1>2. TypeOK' BY <1>1 DEF ServiceStep, TypeInv, TypeOK
  <1>3. handlers'[h] = Free \/ handlers'[h].op = "complete" BY <1>1 DEF ServiceStep, Follows
  <1>4. LocalsInv' BY <1>1, <1>3, ServiceLocals
  <1> QED BY <1>2, <1>4 DEF TypeInv

LEMMA RegisterFileTypes ==
  ASSUME TypeInv, NEW h \in Handlers, RegisterFile(h)
  PROVE  TypeInv'
  <1> DEFINE row == [id |-> handlers[h].id, file |-> session[handlers[h].id].file,
                     bytes |-> handlers[h].bytes]
  <1>1. /\ ServiceStep(h) /\ UNCHANGED <<session, part, disturbed, faults>>
        /\ handlers[h].op = "complete" /\ handlers[h].pc = "register"
        /\ rows' = rows \cup {row} /\ handlers'[h].pc = "mark"
    BY RegisterFileMoves
  <1>2. handlers[h].bytes \in [Indices -> Piece \cup {Torn}]
    BY <1>1 DEF TypeInv, LocalsInv, HandlerLocals
  <1>3. handlers[h].id \in UploadIds /\ session[handlers[h].id].file \in Files
    BY <1>1, NamedHandler DEF Named
  <1>4. row \in [id : UploadIds, file : Files, bytes : [Indices -> Piece \cup {Torn}]]
    BY <1>2, <1>3
  <1> HIDE DEF row
  <1>5. TypeOK' BY <1>1, <1>4 DEF ServiceStep, TypeInv, TypeOK
  <1>6. handlers'[h] = Free \/ handlers'[h].op = "complete" BY <1>1 DEF ServiceStep, Follows
  <1>7. LocalsInv' BY <1>1, <1>6, ServiceLocals
  <1> QED BY <1>5, <1>7 DEF TypeInv

LEMMA MarkDoneTypes ==
  ASSUME TypeInv, NEW h \in Handlers, MarkDone(h)
  PROVE  TypeInv'
  <1>1. /\ ServiceStep(h) /\ UNCHANGED <<rows, disturbed, faults>>
        /\ handlers[h].op = "complete" /\ (handlers'[h] = Free \/ handlers'[h].pc = "ok")
        /\ session' \in [UploadIds -> Session \cup {None}]
        /\ part' = [part EXCEPT ![handlers[h].id] = [i \in Indices |-> None]]
    BY MarkDoneMoves
  <1>2. part' \in [UploadIds -> [Indices -> Piece \cup {None, Torn}]]
    BY <1>1 DEF TypeInv, TypeOK
  <1>3. TypeOK' BY <1>1, <1>2 DEF ServiceStep, TypeInv, TypeOK
  <1>4. handlers'[h] = Free \/ handlers'[h].op = "complete" BY <1>1 DEF ServiceStep, Follows
  <1>5. LocalsInv' BY <1>1, <1>4, ServiceLocals
  <1> QED BY <1>3, <1>5 DEF TypeInv

LEMMA ThrowTypes ==
  ASSUME TypeInv, NEW h \in Handlers, Throw(h)
  PROVE  TypeInv'
  <1>1. /\ ServiceStep(h) /\ UNCHANGED <<session, part, rows, disturbed>>
        /\ faults' \in 0 .. MaxFaults
        /\ handlers'[h] = Free \/ handlers'[h].pc = "refused"
    BY ThrowMoves
  <1>2. TypeOK' BY <1>1 DEF ServiceStep, TypeInv, TypeOK
  <1>3. LocalsInv' BY <1>1, ServiceLocals
  <1> QED BY <1>2, <1>3 DEF TypeInv

\* The answers, and a status request that is given up.
LEMMA TabStepTypes ==
  ASSUME TypeInv, NEW h \in Handlers, NEW id, TabStep(h, id),
         UNCHANGED <<session, part, rows>>, tabs'[handlers[h].tab].pc = "waiting" => Known(id),
         stored' \in [Keys -> UploadIds \cup {None}],
         (\A k \in Keys : stored[k] # None => Known(stored[k]))',
         disturbed' \subseteq UploadIds \X Indices, faults' \in 0 .. MaxFaults
  PROVE  TypeInv'
  <1>1. TypeOK' BY DEF TabStep, TypeInv, TypeOK
  <1>2. LocalsInv' BY TabStepLocals
  <1> QED BY <1>1, <1>2 DEF TypeInv

LEMMA fetchTypes ==
  ASSUME TypeInv, NEW h \in Handlers, fetchReceivedChunks(h)
  PROVE  TypeInv'
  <1>1. /\ TabStep(h, handlers[h].id) /\ Known(handlers[h].id)
        /\ UNCHANGED <<stored, session, part, rows, disturbed, faults>>
    BY fetchMoves DEF Known
  <1>2. (\A k \in Keys : stored[k] # None => Known(stored[k]))'
    BY <1>1, SameSessions, StoredKept
  <1> QED BY <1>1, <1>2, TabStepTypes DEF TypeInv, TypeOK

LEMMA BegunTypes ==
  ASSUME TypeInv, NEW h \in Handlers, Begun(h)
  PROVE  TypeInv'
  <1> DEFINE id == handlers[h].id
             key == resumeKey(handlers[h].file)
  <1>1. /\ UNCHANGED <<session, part, rows, disturbed, faults>> /\ TabStep(h, id)
        /\ \/ tabs'[handlers[h].tab].pc = "failed" /\ UNCHANGED stored
           \/ Known(id) /\ stored' = [stored EXCEPT ![key] = id]
    BY BegunMoves DEF Known
  <1>2. SessionsKept BY <1>1, SameSessions
  <1>3. CASE tabs'[handlers[h].tab].pc = "failed" /\ UNCHANGED stored
    <2>1. (\A k \in Keys : stored[k] # None => Known(stored[k]))' BY <1>2, <1>3, StoredKept
    <2> QED BY <1>1, <1>3, <2>1, TabStepTypes DEF TypeInv, TypeOK
  <1>4. CASE Known(id) /\ stored' = [stored EXCEPT ![key] = id]
    <2> HIDE DEF key, id
    <2>1. stored' \in [Keys -> UploadIds \cup {None}] BY <1>4 DEF Known, TypeInv, TypeOK
    <2>2. (\A k \in Keys : stored[k] # None => Known(stored[k]))'
      <3> SUFFICES ASSUME NEW k \in Keys, stored'[k] # None
                   PROVE  stored'[k] \in UploadIds /\ session'[stored'[k]] # None
        BY DEF Known
      <3>1. stored'[k] \in {id, stored[k]} BY <1>4 DEF TypeInv, TypeOK
      <3> QED BY <1>1, <1>4, <3>1 DEF Known, TypeInv, LocalsInv
    <2> QED BY <1>1, <1>4, <2>1, <2>2, TabStepTypes DEF TypeInv, TypeOK
  <1> QED BY <1>1, <1>3, <1>4

LEMMA ForgetsTypes ==
  ASSUME TypeInv, NEW h \in Handlers, TabStep(h, handlers[h].id), Forgets,
         handlers[h].id \in UploadIds, session[handlers[h].id] # None,
         UNCHANGED <<session, part, rows, disturbed, faults>>
  PROVE  TypeInv'
  <1>1. (\A k \in Keys : stored[k] # None => Known(stored[k]))'
    BY SameSessions, StoredKept DEF Forgets
  <1>2. Known(handlers[h].id) BY DEF Known
  <1> QED BY <1>1, <1>2, TabStepTypes DEF Forgets, TypeInv, TypeOK

LEMMA CutOffType ==
  ASSUME TypeInv, NEW hs \in SUBSET Handlers
  PROVE  CutOff(hs) \subseteq UploadIds \X Indices
  <1>1. ASSUME NEW h \in hs, handlers[h].op = "chunk"
        PROVE  <<handlers[h].id, handlers[h].idx>> \in UploadIds \X Indices
    BY <1>1, NamedHandler DEF Named
  <1>2. ASSUME NEW h \in hs, handlers[h].op = "complete"
        PROVE  handlers[h].id \in UploadIds
    BY <1>2, NamedHandler DEF Named
  <1> QED BY <1>1, <1>2 DEF CutOff

LEMMA GiveUpTypes ==
  ASSUME TypeInv, NEW h \in Handlers, GiveUp(h)
  PROVE  TypeInv'
  <1> DEFINE t == handlers[h].tab
  <1>1. /\ UNCHANGED <<stored, session, part, rows>> /\ faults' \in 0 .. MaxFaults
        /\ disturbed' = disturbed \cup CutOff({h}) /\ t \in Tabs /\ tabs[t].pc = "waiting"
    BY GiveUpMoves
  <1>2. SessionsKept BY <1>1, SameSessions
  <1>3. disturbed' \subseteq UploadIds \X Indices
    <2>1. CutOff({h}) \subseteq UploadIds \X Indices BY CutOffType
    <2> QED BY <1>1, <2>1 DEF TypeInv, TypeOK
  <1>4. (\A k \in Keys : stored[k] # None => Known(stored[k]))' BY <1>1, <1>2, StoredKept
  <1>5. CASE TabStep(h, handlers[h].id) /\ Known(handlers[h].id)
    BY <1>1, <1>3, <1>4, <1>5, TabStepTypes DEF TypeInv, TypeOK
  <1>6. CASE /\ tabs' \in [Tabs -> Tab] /\ OtherTabs(t)
             /\ tabs'[t].pc = "failed" /\ tabs'[t].file = tabs[t].file
             /\ tabs'[t].id = tabs[t].id
             /\ handlers' \in [Handlers -> Handler] /\ Others(h)
             /\ \/ handlers'[h] = Free
                \/ /\ handlers[h].pc \notin {"ok", "refused", "gone"}
                   /\ handlers'[h] = [handlers[h] EXCEPT !.tab = None]
    <2> HIDE DEF t
    <2>1. TypeOK' BY <1>1, <1>3, <1>6 DEF TypeInv, TypeOK
    <2>2. (\A x \in Tabs : TabLocals(tabs[x]))'
      <3> SUFFICES ASSUME NEW x \in Tabs PROVE TabLocals(tabs[x])' OBVIOUS
      <3>1. CASE x # t BY <1>2, <1>6, <3>1, TabsKept DEF OtherTabs
      <3>2. CASE x = t BY <1>1, <1>2, <1>6, <3>2, TabsKept
      <3> QED BY <3>1, <3>2
    <2>3. HandlerLocals(handlers[h])'
      <3>1. CASE handlers'[h] = Free BY <3>1, FreeFields DEF HandlerLocals, Named
      <3>2. CASE /\ handlers[h].pc \notin {"ok", "refused", "gone"}
                 /\ handlers'[h] = [handlers[h] EXCEPT !.tab = None]
        <4>1. handlers[h] \in Handler BY DEF TypeInv, TypeOK
        <4>2. /\ handlers'[h].tab = None /\ handlers'[h].op = handlers[h].op
              /\ handlers'[h].pc = handlers[h].pc /\ handlers'[h].file = handlers[h].file
              /\ handlers'[h].id = handlers[h].id /\ handlers'[h].idx = handlers[h].idx
              /\ handlers'[h].bytes = handlers[h].bytes
          BY <3>2, <4>1 DEF Handler
        <4>3. HandlerLocals(handlers[h]) BY DEF TypeInv, LocalsInv
        <4> QED BY <1>1, <3>2, <4>2, <4>3 DEF HandlerLocals, Named, Known
      <3> QED BY <1>6, <3>1, <3>2
    <2>4. handlers'[h].tab = None
      <3>1. handlers[h] \in Handler BY DEF TypeInv, TypeOK
      <3> QED BY <1>6, <3>1, FreeFields DEF Handler
    <2>5. (\A g \in Handlers : HandlerLocals(handlers[g]))' /\ Alone'
      BY <1>2, <1>6, <2>3, <2>4, LocalsStep DEF OtherTabs, t
    <2> QED BY <1>4, <2>1, <2>2, <2>5 DEF TypeInv, LocalsInv
  <1> QED BY <1>5, <1>6, GiveUpMoves DEF Known

LEMMA CrashTypes ==
  ASSUME TypeInv, Crash
  PROVE  TypeInv'
  <1>1. /\ UNCHANGED <<stored, session, part, rows>> /\ faults' \in 0 .. MaxFaults
        /\ disturbed' = disturbed \cup CutOff(Handlers)
        /\ tabs' \in [Tabs -> Tab] /\ handlers' \in [Handlers -> Handler]
        /\ \A h \in Handlers : Restarted(h)
        /\ \A t \in Tabs :
             /\ tabs'[t].file = tabs[t].file /\ tabs'[t].id = tabs[t].id
             /\ tabs'[t].pc # "idle" => tabs[t].pc # "idle"
    BY CrashMoves
  <1>2. SessionsKept BY <1>1, SameSessions
  <1>3. CutOff(Handlers) \subseteq UploadIds \X Indices BY CutOffType
  <1>4. TypeOK' BY <1>1, <1>3 DEF TypeInv, TypeOK
  <1>5. (\A t \in Tabs : TabLocals(tabs[t]))' BY <1>1, <1>2, TabsKept
  <1>6. (\A k \in Keys : stored[k] # None => Known(stored[k]))' BY <1>1, <1>2, StoredKept
  <1>7. (\A h \in Handlers : HandlerLocals(handlers[h]))'
    <2> SUFFICES ASSUME NEW h \in Handlers PROVE HandlerLocals(handlers[h])'
      OBVIOUS
    <2>1. CASE handlers'[h] = Free BY <2>1, FreeFields DEF HandlerLocals, Named
    <2>2. CASE handlers'[h] # Free
      <3>1. /\ handlers[h].op = "status" /\ handlers[h].tab \in Tabs
            /\ tabs'[handlers[h].tab] = tabs[handlers[h].tab]
            /\ handlers'[h].op = "chunk" /\ handlers'[h].pc = "new" /\ handlers'[h].idx \in Indices
            /\ handlers'[h].tab = handlers[h].tab /\ handlers'[h].file = handlers[h].file
            /\ handlers'[h].id = handlers[h].id
        BY <1>1, <2>2 DEF Restarted
      <3>2. /\ handlers[h].file \in Files /\ Known(handlers[h].id)
            /\ tabs[handlers[h].tab].pc = "waiting" /\ tabs[handlers[h].tab].file = handlers[h].file
            /\ tabs[handlers[h].tab].id = handlers[h].id
        BY <3>1, NoneAssumption DEF TypeInv, LocalsInv, HandlerLocals, Named
      <3>3. Known(handlers[h].id)' BY <1>1, <3>1, <3>2 DEF Known
      <3> QED BY <3>1, <3>2, <3>3, NoneAssumption DEF HandlerLocals
    <2> QED BY <2>1, <2>2
  <1>8. Alone'
    <2>1. \A h \in Handlers : handlers'[h].tab \in {None, handlers[h].tab}
      BY <1>1, FreeFields DEF Restarted
    <2> QED BY <2>1 DEF TypeInv, LocalsInv, Alone
  <1> QED BY <1>4, <1>5, <1>6, <1>7, <1>8 DEF TypeInv, LocalsInv

\* A session's row changes and nobody moves.
LEMMA AgeTypes ==
  ASSUME TypeInv, NEW id \in UploadIds, Age(id)
  PROVE  TypeInv'
  <1>1. /\ UNCHANGED <<tabs, stored, part, handlers, rows, disturbed>> /\ faults' \in 0 .. MaxFaults
        /\ SessionsKept /\ session' \in [UploadIds -> Session \cup {None}]
    BY AgeMoves
  <1>2. TypeOK' BY <1>1 DEF TypeInv, TypeOK
  <1>3. \A i : Known(i) => i \in UploadIds /\ session'[i] # None BY <1>1, KnownKept
  <1>4. (\A t \in Tabs : TabLocals(tabs[t]))' BY <1>1, TabsKept
  <1>5. (\A k \in Keys : stored[k] # None => Known(stored[k]))' BY <1>1, StoredKept
  <1>6. (\A h \in Handlers : HandlerLocals(handlers[h]))'
    BY <1>1, <1>3 DEF TypeInv, LocalsInv, HandlerLocals, Named, Known
  <1>7. Alone' BY <1>1 DEF TypeInv, LocalsInv, Alone
  <1> QED BY <1>2, <1>4, <1>5, <1>6, <1>7 DEF TypeInv, LocalsInv

LEMMA TypesStep == TypeInv /\ [Next]_vars => TypeInv'
  <1> SUFFICES ASSUME TypeInv, [Next]_vars PROVE TypeInv' OBVIOUS
  <1>1. ASSUME NEW t \in Tabs, NEW f \in Files, NEW h \in Handlers, Click(t, f, h) PROVE TypeInv'
    BY <1>1, ClickTypes
  <1>2. ASSUME NEW h \in Handlers, Hear(h) PROVE TypeInv'
    <2>1. CASE fetchReceivedChunks(h) BY <2>1, fetchTypes
    <2>2. CASE Begun(h) BY <2>2, BegunTypes
    <2>3. CASE ChunkAnswered(h) BY <2>3, ChunkAnsweredMoves, ForgetsTypes
    <2>4. CASE Completed(h) BY <2>4, CompletedMoves, ForgetsTypes
    <2> QED BY <1>2, <2>1, <2>2, <2>3, <2>4 DEF Hear
  <1>3. ASSUME NEW h \in Handlers, Serve(h) PROVE TypeInv'
    <2>1. CASE UploadStatus(h) BY <2>1, UploadStatusTypes
    <2>2. CASE UploadInit(h) BY <2>2, UploadInitTypes
    <2>3. CASE UploadChunk(h)
      BY <2>3, OpenChunkTypes, SaveChunkTypes, UpdateCountTypes DEF UploadChunk
    <2>4. CASE UploadComplete(h)
      BY <2>4, MergeChunksTypes, RegisterFileTypes, MarkDoneTypes DEF UploadComplete
    <2> QED BY <1>3, <2>1, <2>2, <2>3, <2>4 DEF Serve
  <1>4. ASSUME NEW h \in Handlers, GiveUp(h) \/ Throw(h) PROVE TypeInv'
    BY <1>4, GiveUpTypes, ThrowTypes
  <1>5. CASE Crash BY <1>5, CrashTypes
  <1>6. ASSUME NEW id \in UploadIds, Age(id) PROVE TypeInv' BY <1>6, AgeTypes
  <1>7. CASE UNCHANGED vars
    BY <1>7 DEF vars, TypeInv, TypeOK, LocalsInv, TabLocals, HandlerLocals, Named, Known, Alone
  <1> QED BY <1>1, <1>2, <1>3, <1>4, <1>5, <1>6, <1>7 DEF Next, Clicks

LEMMA TypesAlways == Spec => []TypeInv
  <1> QED BY TypesInit, TypesStep, PTL DEF Spec

\* Of any tabs, files, chunks, handlers and faults, the state has its types.
THEOREM ClientTypeCorrect == Spec => []TypeOK
  <1>1. TypeInv => TypeOK BY DEF TypeInv
  <1> QED BY <1>1, TypesAlways, PTL

-----------------------------------------------------------------------------
(* Resume keys. *)

KeyOf(id) == resumeKey(session[id].file)

TabKeys == \A t \in Tabs : tabs[t].id # None => KeyOf(tabs[t].id) = resumeKey(tabs[t].file)

StoredKeys == \A k \in Keys : stored[k] # None => KeyOf(stored[k]) = k

HandlerKeys ==
  \A h \in Handlers : Named(handlers[h]) => KeyOf(handlers[h].id) = resumeKey(handlers[h].file)

\* A chunk's place is its number, and its bytes are from a file of the session's key.
PartKeys ==
  \A id \in UploadIds, i \in Indices :
    part[id][i] \notin {None, Torn} =>
      /\ session[id] # None /\ part[id][i][2] = i
      /\ resumeKey(part[id][i][1]) = KeyOf(id)

Registered(id) == \E r \in rows : r.id = id /\ resumeKey(r.file) = KeyOf(id)

RegisteredInv ==
  \A h \in Handlers :
    handlers[h].op = "complete" /\ handlers[h].pc \in {"mark", "ok"} => Registered(handlers[h].id)

KeyInv ==
  TabKeys /\ StoredKeys /\ HandlerKeys /\ PartKeys /\ RegisteredInv /\ DoneMeansRegistered

LEMMA KeyInit == Init => KeyInv
  <1> SUFFICES ASSUME Init PROVE KeyInv OBVIOUS
  <1>1. \A h \in Handlers : handlers[h].op = "none" BY FreeFields DEF Init
  <1> QED BY <1>1
       DEF Init, KeyInv, TabKeys, StoredKeys, HandlerKeys, PartKeys, RegisteredInv,
           DoneMeansRegistered, Named

\* Of a known session, the key is kept, and so is what is registered under it.
LEMMA KeyKept ==
  ASSUME SessionsKept, NEW id, Known(id)
  PROVE  /\ resumeKey(session'[id].file) = KeyOf(id)
         /\ rows \subseteq rows' /\ Registered(id) =>
              \E r \in rows' : r.id = id /\ resumeKey(r.file) = resumeKey(session'[id].file)
  <1>1. session'[id].file = session[id].file BY DEF Known, SessionsKept
  <1> QED BY <1>1 DEF KeyOf, Registered, resumeKey

LEMMA StoredKeysKept ==
  ASSUME TypeInv, KeyInv, SessionsKept, \A k \in Keys : stored'[k] \in {stored[k], None}
  PROVE  StoredKeys'
  <1> SUFFICES ASSUME NEW k \in Keys, stored'[k] # None
               PROVE  resumeKey(session'[stored'[k]].file) = k
    BY DEF StoredKeys, KeyOf
  <1>1. stored'[k] = stored[k] /\ Known(stored[k]) BY DEF TypeInv, LocalsInv
  <1> QED BY <1>1, KeyKept DEF KeyInv, StoredKeys

LEMMA PartKeysKept ==
  ASSUME TypeInv, KeyInv, SessionsKept,
         \A id \in UploadIds, i \in Indices : part'[id][i] \in {part[id][i], None, Torn}
  PROVE  PartKeys'
  <1> SUFFICES ASSUME NEW id \in UploadIds, NEW i \in Indices, part'[id][i] \notin {None, Torn}
               PROVE  /\ session'[id] # None /\ part'[id][i][2] = i
                      /\ resumeKey(part'[id][i][1]) = resumeKey(session'[id].file)
    BY DEF PartKeys, KeyOf
  <1>1. part'[id][i] = part[id][i] OBVIOUS
  <1>2. /\ session[id] # None /\ part[id][i][2] = i
        /\ resumeKey(part[id][i][1]) = KeyOf(id)
    BY <1>1 DEF KeyInv, PartKeys
  <1>3. Known(id) BY <1>2 DEF Known
  <1> QED BY <1>1, <1>2, <1>3, KnownKept, KeyKept

\* Handlers other than the one that moves.
LEMMA OtherHandlers ==
  ASSUME TypeInv, KeyInv, SessionsKept, rows \subseteq rows', NEW h \in Handlers, Others(h),
         Named(handlers'[h]) =>
           resumeKey(session'[handlers'[h].id].file) = resumeKey(handlers'[h].file),
         handlers'[h].op = "complete" /\ handlers'[h].pc \in {"mark", "ok"} =>
           \E r \in rows' : /\ r.id = handlers'[h].id
                            /\ resumeKey(r.file) = resumeKey(session'[handlers'[h].id].file)
  PROVE  HandlerKeys' /\ RegisteredInv'
  <1>1. ASSUME NEW g \in Handlers, g # h, Named(handlers[g])
        PROVE  /\ handlers'[g] = handlers[g] /\ Known(handlers[g].id)
               /\ KeyOf(handlers[g].id) = resumeKey(handlers[g].file)
    BY <1>1 DEF Others, TypeInv, LocalsInv, HandlerLocals, KeyInv, HandlerKeys
  <1>2. HandlerKeys'
    <2> SUFFICES ASSUME NEW g \in Handlers, Named(handlers'[g])
                 PROVE  resumeKey(session'[handlers'[g].id].file) = resumeKey(handlers'[g].file)
      BY DEF HandlerKeys, KeyOf, Named
    <2>1. CASE g = h BY <2>1
    <2>2. CASE g # h
      <3>1. handlers'[g] = handlers[g] BY <2>2 DEF Others
      <3> QED BY <1>1, <2>2, <3>1, KeyKept
    <2> QED BY <2>1, <2>2
  <1>3. RegisteredInv'
    <2> SUFFICES ASSUME NEW g \in Handlers, handlers'[g].op = "complete",
                        handlers'[g].pc \in {"mark", "ok"}
                 PROVE  \E r \in rows' :
                          /\ r.id = handlers'[g].id
                          /\ resumeKey(r.file) = resumeKey(session'[handlers'[g].id].file)
      BY DEF RegisteredInv, Registered, KeyOf
    <2>1. CASE g = h BY <2>1
    <2>2. CASE g # h
      <3>1. handlers'[g] = handlers[g] BY <2>2 DEF Others
      <3>2. Known(handlers[g].id) BY <1>1, <2>2, <3>1 DEF Named
      <3>3. Registered(handlers[g].id) BY <3>1 DEF KeyInv, RegisteredInv
      <3> QED BY <3>1, <3>2, <3>3, KeyKept
    <2> QED BY <2>1, <2>2
  <1> QED BY <1>2, <1>3

\* Tabs that know what they knew, and are not done just now.
LEMMA TabKeysKept ==
  ASSUME TypeInv, KeyInv, SessionsKept, rows \subseteq rows', NEW t \in Tabs,
         tabs'[t].file = tabs[t].file, tabs'[t].id = tabs[t].id,
         tabs'[t].pc = "done" => tabs[t].pc = "done"
  PROVE  /\ tabs'[t].id # None =>
              resumeKey(session'[tabs'[t].id].file) = resumeKey(tabs'[t].file)
         /\ tabs'[t].pc = "done" =>
              \E r \in rows' : r.id = tabs'[t].id /\ resumeKey(r.file) = resumeKey(tabs'[t].file)
  <1>1. tabs[t].id # None => Known(tabs[t].id) /\ KeyOf(tabs[t].id) = resumeKey(tabs[t].file)
    BY DEF TypeInv, LocalsInv, TabLocals, KeyInv, TabKeys
  <1>2. tabs[t].pc = "done" =>
          \E r \in rows : r.id = tabs[t].id /\ resumeKey(r.file) = resumeKey(tabs[t].file)
    BY DEF KeyInv, DoneMeansRegistered
  <1> QED BY <1>1, <1>2, KeyKept

LEMMA AllTabs ==
  ASSUME \A t \in Tabs :
           /\ tabs'[t].id # None =>
                resumeKey(session'[tabs'[t].id].file) = resumeKey(tabs'[t].file)
           /\ tabs'[t].pc = "done" =>
                \E r \in rows' : r.id = tabs'[t].id /\ resumeKey(r.file) = resumeKey(tabs'[t].file)
  PROVE  TabKeys' /\ DoneMeansRegistered'
  BY DEF TabKeys, KeyOf, DoneMeansRegistered, resumeKey

LEMMA ServiceKeys ==
  ASSUME TypeInv, KeyInv, NEW h \in Handlers, ServiceStep(h), PartKeys', rows \subseteq rows',
         handlers'[h] # Free /\ handlers'[h].op = "init" /\ handlers'[h].pc = "ok" =>
           resumeKey(session'[handlers'[h].id].file) = resumeKey(handlers'[h].file),
         handlers'[h] # Free /\ handlers'[h].op = "complete" /\ handlers'[h].pc \in {"mark", "ok"} =>
           \E r \in rows' : /\ r.id = handlers'[h].id
                            /\ resumeKey(r.file) = resumeKey(session'[handlers'[h].id].file)
  PROVE  KeyInv'
  <1>1. UNCHANGED <<tabs, stored>> /\ SessionsKept /\ Others(h) /\ Follows(h) BY DEF ServiceStep
  <1>2. TabKeys' /\ DoneMeansRegistered' BY <1>1, TabKeysKept, AllTabs
  <1>3. StoredKeys' BY <1>1, StoredKeysKept
  <1>4. Named(handlers'[h]) =>
          resumeKey(session'[handlers'[h].id].file) = resumeKey(handlers'[h].file)
    <2>1. CASE handlers'[h] = Free BY <2>1, FreeFields DEF Named
    <2>2. CASE handlers'[h] # Free /\ handlers'[h].op = "init" BY <2>2 DEF Named
    <2>3. CASE handlers'[h] # Free /\ handlers'[h].op # "init"
      <3>1. /\ handlers'[h].op = handlers[h].op /\ handlers'[h].id = handlers[h].id
            /\ handlers'[h].file = handlers[h].file
        BY <1>1, <2>3 DEF Follows
      <3>2. Named(handlers'[h]) => Named(handlers[h]) BY <2>3, <3>1 DEF Named
      <3>3. Named(handlers[h]) => /\ Known(handlers[h].id)
                                  /\ KeyOf(handlers[h].id) = resumeKey(handlers[h].file)
        BY DEF TypeInv, LocalsInv, HandlerLocals, KeyInv, HandlerKeys
      <3> QED BY <1>1, <3>1, <3>2, <3>3, KeyKept
    <2> QED BY <2>1, <2>2, <2>3
  <1>5. handlers'[h].op = "complete" => handlers'[h] # Free BY FreeFields
  <1>6. HandlerKeys' /\ RegisteredInv' BY <1>1, <1>4, <1>5, OtherHandlers
  <1> QED BY <1>2, <1>3, <1>6 DEF KeyInv

LEMMA TabStepKeys ==
  ASSUME TypeInv, KeyInv, NEW h \in Handlers, NEW id, TabStep(h, id),
         UNCHANGED <<session, part, rows>>, StoredKeys',
         tabs'[handlers[h].tab].pc = "waiting" =>
           KeyOf(id) = resumeKey(tabs[handlers[h].tab].file),
         tabs'[handlers[h].tab].pc = "done" => Registered(handlers[h].id),
         tabs'[handlers[h].tab].pc = "done" =>
           handlers[h].id # None /\ tabs[handlers[h].tab].id = handlers[h].id
  PROVE  KeyInv'
  <1> DEFINE t == handlers[h].tab
  <1>1. SessionsKept /\ Others(h) /\ OtherTabs(t) /\ t \in Tabs BY SameSessions DEF TabStep
  <1>2. tabs[t].pc = "waiting" BY DEF TabStep
  <1>3. /\ tabs'[t].file = tabs[t].file
        /\ \/ /\ tabs'[t].pc = "waiting" /\ tabs'[t].id = id
              /\ handlers'[h].file = tabs[t].file
              /\ handlers'[h].id = id /\ handlers'[h].pc = "new"
           \/ /\ tabs'[t].pc \in {"failed", "done"} /\ tabs'[t].id = tabs[t].id
              /\ handlers'[h] = Free
    BY DEF TabStep
  <1>4. tabs[t].id # None => KeyOf(tabs[t].id) = resumeKey(tabs[t].file)
    BY <1>1 DEF KeyInv, TabKeys
  <1>5. tabs'[t].id # None => resumeKey(session'[tabs'[t].id].file) = resumeKey(tabs'[t].file)
    BY <1>3, <1>4 DEF KeyOf
  <1>6. tabs'[t].pc = "done" =>
          \E r \in rows' : r.id = tabs'[t].id /\ resumeKey(r.file) = resumeKey(tabs'[t].file)
    BY <1>3, <1>4 DEF Registered
  <1>7. Named(handlers'[h]) =>
          resumeKey(session'[handlers'[h].id].file) = resumeKey(handlers'[h].file)
    BY <1>3, FreeFields DEF KeyOf, Named
  <1>8. ~(handlers'[h].op = "complete" /\ handlers'[h].pc \in {"mark", "ok"})
    BY <1>3, FreeFields
  <1>9. HandlerKeys' /\ RegisteredInv' BY <1>1, <1>7, <1>8, OtherHandlers
  <1>10. PartKeys' BY <1>1, PartKeysKept
  <1> HIDE DEF t
  <1>11. TabKeys' /\ DoneMeansRegistered' BY <1>1, <1>5, <1>6, TabKeysKept, AllTabs DEF OtherTabs
  <1> QED BY <1>9, <1>10, <1>11 DEF KeyInv

LEMMA ClickKeys ==
  ASSUME TypeInv, KeyInv, NEW t \in Tabs, NEW f \in Files, NEW h \in Handlers, Click(t, f, h)
  PROVE  KeyInv'
  <1> DEFINE id == stored[resumeKey(f)]
  <1>1. /\ OtherTabs(t) /\ tabs'[t].pc = "waiting" /\ tabs'[t].file = f /\ tabs'[t].id = id
        /\ Others(h) /\ handlers'[h].file = f /\ handlers'[h].pc = "new"
        /\ handlers'[h].id = id
        /\ handlers'[h].op = IF id # None THEN "status" ELSE "init"
    BY ClickMoves
  <1>2. UNCHANGED <<stored, session, part, rows>> BY DEF Click
  <1>3. SessionsKept BY <1>2, SameSessions
  <1>4. id # None => resumeKey(session'[id].file) = resumeKey(f)
    BY <1>2 DEF KeyInv, StoredKeys, Keys, KeyOf
  <1> HIDE DEF id
  <1>5. TabKeys' /\ DoneMeansRegistered'
    BY <1>1, <1>2, <1>3, <1>4, TabKeysKept, AllTabs DEF OtherTabs
  <1>6. HandlerKeys' /\ RegisteredInv'
    BY <1>1, <1>2, <1>3, <1>4, OtherHandlers DEF Named
  <1>7. StoredKeys' /\ PartKeys' BY <1>2, <1>3, StoredKeysKept, PartKeysKept
  <1> QED BY <1>5, <1>6, <1>7 DEF KeyInv

LEMMA UploadInitKeys ==
  ASSUME TypeInv, KeyInv, NEW h \in Handlers, UploadInit(h)
  PROVE  KeyInv'
  <1>1. ServiceStep(h) /\ UNCHANGED rows BY UploadInitMoves
  <1>2. \A i \in UploadIds, k \in Indices : part'[i][k] \in {part[i][k], None}
    BY UploadInitMoves
  <1>3. PartKeys' BY <1>1, <1>2, PartKeysKept DEF ServiceStep
  <1>4. PICK id \in UploadIds :
          /\ session'[id].file = handlers[h].file
          /\ \/ handlers'[h] = Free
             \/ handlers'[h].op = "init" /\ handlers'[h].pc = "ok" /\ handlers'[h].id = id
    BY UploadInitMoves
  <1>5. handlers'[h] = Free \/ handlers'[h].file = handlers[h].file
    BY <1>1 DEF ServiceStep, Follows
  <1> QED BY <1>1, <1>3, <1>4, <1>5, ServiceKeys

\* Chunks come under their number.
LEMMA ChunkKeys ==
  ASSUME TypeInv, KeyInv, NEW h \in Handlers, OpenChunk(h) \/ SaveChunk(h) \/ UpdateCount(h)
  PROVE  KeyInv'
  <1> DEFINE id == handlers[h].id
             idx == handlers[h].idx
  <1>1. /\ ServiceStep(h) /\ UNCHANGED rows /\ handlers[h].op = "chunk"
        /\ \/ UNCHANGED part \/ part' = [part EXCEPT ![id][idx] = Torn]
           \/ part' = [part EXCEPT ![id][idx] = <<handlers[h].file, idx>>]
    BY OpenChunkMoves, SaveChunkMoves, UpdateCountMoves
  <1>2. id \in UploadIds /\ session[id] # None /\ idx \in Indices
    BY <1>1, NamedHandler DEF Named
  <1>3. KeyOf(id) = resumeKey(handlers[h].file) BY <1>1 DEF KeyInv, HandlerKeys, Named
  <1>4. PartKeys'
    <2>1. SessionsKept BY <1>1 DEF ServiceStep
    <2>2. CASE UNCHANGED part BY <2>1, <2>2, PartKeysKept
    <2>3. CASE part' = [part EXCEPT ![id][idx] = Torn]
      <3>1. \A i \in UploadIds, k \in Indices : part'[i][k] \in {part[i][k], None, Torn}
        BY <2>3 DEF TypeInv, TypeOK
      <3> QED BY <2>1, <3>1, PartKeysKept
    <2>4. CASE part' = [part EXCEPT ![id][idx] = <<handlers[h].file, idx>>]
      <3> SUFFICES ASSUME NEW i \in UploadIds, NEW k \in Indices, part'[i][k] \notin {None, Torn}
                   PROVE  /\ session'[i] # None /\ part'[i][k][2] = k
                          /\ resumeKey(part'[i][k][1]) = resumeKey(session'[i].file)
        BY DEF PartKeys, KeyOf
      <3>1. CASE i = id /\ k = idx
        <4>1. part'[i][k] = <<handlers[h].file, idx>> BY <1>2, <2>4, <3>1 DEF TypeInv, TypeOK
        <4>2. session'[i] # None /\ resumeKey(session'[i].file) = KeyOf(i)
          BY <1>2, <2>1, <3>1, KeyKept, KnownKept DEF Known
        <4> QED BY <1>3, <3>1, <4>1, <4>2
      <3>2. CASE ~(i = id /\ k = idx)
        <4>1. part'[i][k] = part[i][k] BY <1>2, <2>4, <3>2 DEF TypeInv, TypeOK
        <4>2. /\ session[i] # None /\ part[i][k][2] = k
              /\ resumeKey(part[i][k][1]) = KeyOf(i)
          BY <4>1 DEF KeyInv, PartKeys
        <4> QED BY <2>1, <4>1, <4>2, KeyKept, KnownKept DEF Known
      <3> QED BY <3>1, <3>2
    <2> QED BY <1>1, <2>2, <2>3, <2>4
  <1>5. handlers'[h] = Free \/ handlers'[h].op = "chunk" BY <1>1 DEF ServiceStep, Follows
  <1> QED BY <1>1, <1>4, <1>5, ServiceKeys

LEMMA CompleteKeys ==
  ASSUME TypeInv, KeyInv, NEW h \in Handlers,
         MergeChunks(h) \/ RegisterFile(h) \/ MarkDone(h)
  PROVE  KeyInv'
  <1> DEFINE id == handlers[h].id
             row == [id |-> id, file |-> session[id].file, bytes |-> handlers[h].bytes]
  <1>1. /\ ServiceStep(h) /\ handlers[h].op = "complete" /\ rows \subseteq rows'
        /\ UNCHANGED part \/ part' = [part EXCEPT ![id] = [i \in Indices |-> None]]
    BY MergeChunksMoves, RegisterFileMoves, MarkDoneMoves
  <1>2. Known(id) /\ id \in UploadIds BY <1>1, NamedHandler DEF Named, Known
  <1>3. SessionsKept BY <1>1 DEF ServiceStep
  <1>4. \/ handlers'[h] = Free
        \/ /\ handlers'[h].op = "complete" /\ handlers'[h].id = id
    BY <1>1 DEF ServiceStep, Follows
  <1>5. PartKeys'
    <2>1. \A i \in UploadIds, k \in Indices : part'[i][k] \in {part[i][k], None}
      BY <1>1, <1>2 DEF TypeInv, TypeOK
    <2> QED BY <1>3, <2>1, PartKeysKept
  <1>6. handlers'[h] # Free /\ handlers'[h].pc \in {"mark", "ok"} =>
          \E r \in rows' : r.id = id /\ resumeKey(r.file) = resumeKey(session'[id].file)
    <2>1. CASE MergeChunks(h) BY <2>1, MergeChunksMoves
    <2>2. CASE RegisterFile(h)
      <3>1. rows' = rows \cup {row} BY <2>2, RegisterFileMoves
      <3>2. session'[id].file = session[id].file BY <1>2, <1>3 DEF Known, SessionsKept
      <3>3. row \in rows' /\ row.id = id /\ row.file = session[id].file BY <3>1
      <3> QED BY <3>2, <3>3
    <2>3. CASE MarkDone(h)
      <3>1. handlers[h].pc = "mark" BY <2>3, MarkDoneMoves
      <3>2. Registered(id) BY <1>1, <3>1 DEF KeyInv, RegisteredInv
      <3> QED BY <1>1, <1>2, <1>3, <3>2, KeyKept
    <2> QED BY <2>1, <2>2, <2>3
  <1> QED BY <1>1, <1>4, <1>5, <1>6, ServiceKeys

\* UploadStatus, and an error in any handler.
LEMMA QuietKeys ==
  ASSUME TypeInv, KeyInv, NEW h \in Handlers, UploadStatus(h) \/ Throw(h)
  PROVE  KeyInv'
  <1>1. /\ ServiceStep(h) /\ UNCHANGED <<session, part, rows>>
        /\ handlers'[h] = Free \/ handlers'[h].pc = "refused" \/ handlers'[h].op = "status"
    BY UploadStatusMoves, ThrowMoves
  <1>2. PartKeys' BY <1>1, PartKeysKept DEF ServiceStep
  <1> QED BY <1>1, <1>2, ServiceKeys

LEMMA HearKeys ==
  ASSUME TypeInv, KeyInv, NEW h \in Handlers, Hear(h)
  PROVE  KeyInv'
  <1> DEFINE t == handlers[h].tab
             id == handlers[h].id
  <1>1. UNCHANGED <<session, part, rows>> BY fetchMoves, BegunMoves, ChunkAnsweredMoves, CompletedMoves DEF Hear
  <1>2. TabStep(h, id) BY fetchMoves, BegunMoves, ChunkAnsweredMoves, CompletedMoves DEF Hear
  <1>3. t \in Tabs /\ tabs[t].pc = "waiting" /\ tabs[t].file = handlers[h].file
    BY <1>2, NoneAssumption DEF TabStep, TypeInv, LocalsInv, HandlerLocals
  <1>4. SessionsKept BY <1>1, SameSessions
  <1>5. CASE Begun(h)
    <2>1. CASE /\ handlers[h].pc = "ok" /\ tabs'[t].pc = "waiting"
               /\ stored' = [stored EXCEPT ![resumeKey(handlers[h].file)] = id]
               /\ handlers[h].op = "init"
      <3>1. KeyOf(id) = resumeKey(handlers[h].file) BY <2>1 DEF KeyInv, HandlerKeys, Named
      <3>2. StoredKeys'
        <4> SUFFICES ASSUME NEW k \in Keys, stored'[k] # None
                     PROVE  resumeKey(session'[stored'[k]].file) = k
          BY DEF StoredKeys, KeyOf
        <4>1. CASE k = resumeKey(handlers[h].file)
          BY <1>1, <2>1, <3>1, <4>1 DEF KeyOf, TypeInv, TypeOK
        <4>2. CASE k # resumeKey(handlers[h].file)
          BY <1>1, <2>1, <4>2 DEF KeyInv, StoredKeys, KeyOf, TypeInv, TypeOK
        <4> QED BY <4>1, <4>2
      <3> QED BY <1>1, <1>2, <1>3, <2>1, <3>1, <3>2, TabStepKeys
    <2>2. CASE tabs'[t].pc = "failed" /\ UNCHANGED stored
      <3>1. StoredKeys' BY <1>4, <2>2, StoredKeysKept
      <3> QED BY <1>1, <1>2, <2>2, <3>1, TabStepKeys
    <2> QED BY <1>5, <2>1, <2>2, BegunMoves
  <1>6. CASE fetchReceivedChunks(h) \/ ChunkAnswered(h) \/ Completed(h)
    <2>1. /\ handlers[h].op \in {"status", "chunk", "complete"}
          /\ id \in UploadIds /\ \A k \in Keys : stored'[k] \in {stored[k], None}
      BY <1>6, fetchMoves, ChunkAnsweredMoves, CompletedMoves DEF Forgets
    <2>2. KeyOf(id) = resumeKey(tabs[t].file) BY <1>3, <2>1 DEF KeyInv, HandlerKeys, Named
    <2>3. StoredKeys' BY <1>4, <2>1, StoredKeysKept
    <2>4. tabs'[t].pc = "done" => Registered(id) /\ id # None /\ tabs[t].id = id
      <3>1. CASE fetchReceivedChunks(h) \/ ChunkAnswered(h)
        BY <3>1, fetchMoves, ChunkAnsweredMoves
      <3>2. CASE Completed(h)
        <4>1. /\ tabs[t].id = id /\ handlers[h].op = "complete"
              /\ tabs'[t].pc = "done" => handlers[h].pc = "ok"
          BY <3>2, CompletedMoves
        <4>2. id # None BY <2>1, NoneAssumption
        <4> QED BY <4>1, <4>2 DEF KeyInv, RegisteredInv
      <3> QED BY <1>6, <3>1, <3>2
    <2> QED BY <1>1, <1>2, <2>2, <2>3, <2>4, TabStepKeys
  <1> QED BY <1>5, <1>6 DEF Hear

LEMMA GiveUpKeys ==
  ASSUME TypeInv, KeyInv, NEW h \in Handlers, GiveUp(h)
  PROVE  KeyInv'
  <1> DEFINE t == handlers[h].tab
  <1>1. UNCHANGED <<stored, session, part, rows>> /\ t \in Tabs /\ tabs[t].pc = "waiting"
    BY GiveUpMoves
  <1>2. SessionsKept BY <1>1, SameSessions
  <1>3. StoredKeys' /\ PartKeys' BY <1>1, <1>2, StoredKeysKept, PartKeysKept
  <1>4. CASE /\ handlers[h].op = "status" /\ TabStep(h, handlers[h].id)
             /\ tabs'[t].pc = "waiting"
    <2>1. KeyOf(handlers[h].id) = resumeKey(tabs[t].file)
      <3>1. tabs[t].file = handlers[h].file
        BY <1>1, NoneAssumption DEF TypeInv, LocalsInv, HandlerLocals
      <3> QED BY <1>4, <3>1 DEF KeyInv, HandlerKeys, Named
    <2> QED BY <1>1, <1>3, <1>4, <2>1, TabStepKeys
  <1>5. CASE /\ OtherTabs(t) /\ tabs'[t].pc = "failed" /\ tabs'[t].file = tabs[t].file
             /\ tabs'[t].id = tabs[t].id /\ Others(h)
             /\ \/ handlers'[h] = Free
                \/ /\ handlers[h].pc \notin {"ok", "refused", "gone"}
                   /\ handlers'[h] = [handlers[h] EXCEPT !.tab = None]
    <2> HIDE DEF t
    <2>1. TabKeys' /\ DoneMeansRegistered'
      BY <1>1, <1>2, <1>5, TabKeysKept, AllTabs DEF OtherTabs
    <2>2. \/ handlers'[h] = Free
          \/ /\ handlers'[h].op = handlers[h].op /\ handlers'[h].pc = handlers[h].pc
             /\ handlers'[h].file = handlers[h].file /\ handlers'[h].id = handlers[h].id
      <3>1. handlers[h] \in Handler BY DEF TypeInv, TypeOK
      <3> QED BY <1>5, <3>1 DEF Handler
    <2>3. CASE handlers'[h] = Free
      <3>1. HandlerKeys' /\ RegisteredInv'
        BY <1>1, <1>2, <1>5, <2>3, FreeFields, OtherHandlers DEF Named
      <3> QED BY <1>3, <2>1, <3>1 DEF KeyInv
    <2>4. CASE /\ handlers'[h].op = handlers[h].op /\ handlers'[h].pc = handlers[h].pc
               /\ handlers'[h].file = handlers[h].file /\ handlers'[h].id = handlers[h].id
      <3>1. Named(handlers'[h]) =>
              resumeKey(session'[handlers'[h].id].file) = resumeKey(handlers'[h].file)
        BY <1>1, <2>4 DEF KeyInv, HandlerKeys, KeyOf, Named
      <3>2. handlers'[h].op = "complete" /\ handlers'[h].pc \in {"mark", "ok"} =>
              \E r \in rows' : /\ r.id = handlers'[h].id
                               /\ resumeKey(r.file) = resumeKey(session'[handlers'[h].id].file)
        BY <1>1, <2>4 DEF KeyInv, RegisteredInv, Registered, KeyOf
      <3>3. HandlerKeys' /\ RegisteredInv' BY <1>1, <1>2, <1>5, <3>1, <3>2, OtherHandlers
      <3> QED BY <1>3, <2>1, <3>3 DEF KeyInv
    <2> QED BY <2>2, <2>3, <2>4
  <1> QED BY <1>4, <1>5, GiveUpMoves

LEMMA CrashKeys ==
  ASSUME TypeInv, KeyInv, Crash
  PROVE  KeyInv'
  <1>1. /\ UNCHANGED <<stored, session, part, rows>>
        /\ \A h \in Handlers : Restarted(h)
        /\ \A t \in Tabs : /\ tabs'[t].file = tabs[t].file /\ tabs'[t].id = tabs[t].id
                           /\ tabs'[t].pc = "done" => tabs[t].pc = "done"
    BY CrashMoves
  <1>2. SessionsKept BY <1>1, SameSessions
  <1>3. StoredKeys' /\ PartKeys' BY <1>1, <1>2, StoredKeysKept, PartKeysKept
  <1>4. TabKeys' /\ DoneMeansRegistered' BY <1>1, <1>2, TabKeysKept, AllTabs
  <1>5. HandlerKeys' /\ RegisteredInv'
    <2> SUFFICES ASSUME NEW h \in Handlers, handlers'[h] # Free
                 PROVE  /\ handlers'[h].op = "chunk" /\ Named(handlers[h])
                        /\ handlers'[h].id = handlers[h].id /\ handlers'[h].file = handlers[h].file
      BY <1>1, FreeFields DEF KeyInv, HandlerKeys, KeyOf, RegisteredInv, Named
    <2> QED BY <1>1 DEF Restarted, Named
  <1> QED BY <1>3, <1>4, <1>5 DEF KeyInv

LEMMA AgeKeys ==
  ASSUME TypeInv, KeyInv, NEW id \in UploadIds, Age(id)
  PROVE  KeyInv'
  <1>1. UNCHANGED <<tabs, stored, part, handlers, rows>> /\ SessionsKept BY AgeMoves
  <1>2. StoredKeys' /\ PartKeys' BY <1>1, StoredKeysKept, PartKeysKept
  <1>3. TabKeys' /\ DoneMeansRegistered' BY <1>1, TabKeysKept, AllTabs
  <1>4. HandlerKeys'
    <2> SUFFICES ASSUME NEW h \in Handlers, Named(handlers[h])
                 PROVE  resumeKey(session'[handlers[h].id].file) = resumeKey(handlers[h].file)
      BY <1>1 DEF HandlerKeys, KeyOf, Named
    <2>1. Known(handlers[h].id) /\ KeyOf(handlers[h].id) = resumeKey(handlers[h].file)
      BY DEF TypeInv, LocalsInv, HandlerLocals, KeyInv, HandlerKeys
    <2> QED BY <1>1, <2>1, KeyKept
  <1>5. RegisteredInv'
    <2> SUFFICES ASSUME NEW h \in Handlers, handlers[h].op = "complete",
                        handlers[h].pc \in {"mark", "ok"}
                 PROVE  \E r \in rows' :
                          /\ r.id = handlers[h].id
                          /\ resumeKey(r.file) = resumeKey(session'[handlers[h].id].file)
      BY <1>1 DEF RegisteredInv, Registered, KeyOf
    <2>1. Known(handlers[h].id) /\ Registered(handlers[h].id)
      BY DEF TypeInv, LocalsInv, HandlerLocals, Named, KeyInv, RegisteredInv
    <2> QED BY <1>1, <2>1, KeyKept
  <1> QED BY <1>2, <1>3, <1>4, <1>5 DEF KeyInv

LEMMA KeyStep == TypeInv /\ KeyInv /\ [Next]_vars => KeyInv'
  <1> SUFFICES ASSUME TypeInv, KeyInv, [Next]_vars PROVE KeyInv' OBVIOUS
  <1>1. ASSUME NEW t \in Tabs, NEW f \in Files, NEW h \in Handlers, Click(t, f, h) PROVE KeyInv'
    BY <1>1, ClickKeys
  <1>2. ASSUME NEW h \in Handlers, Hear(h) \/ GiveUp(h) PROVE KeyInv'
    BY <1>2, HearKeys, GiveUpKeys
  <1>3. ASSUME NEW h \in Handlers, Serve(h) \/ Throw(h) PROVE KeyInv'
    BY <1>3, UploadInitKeys, ChunkKeys, CompleteKeys, QuietKeys
       DEF Serve, UploadChunk, UploadComplete
  <1>4. CASE Crash BY <1>4, CrashKeys
  <1>5. ASSUME NEW id \in UploadIds, Age(id) PROVE KeyInv' BY <1>5, AgeKeys
  <1>6. CASE UNCHANGED vars
    BY <1>6 DEF vars, KeyInv, TabKeys, StoredKeys, HandlerKeys, PartKeys, RegisteredInv,
                DoneMeansRegistered, Registered, KeyOf, Named
  <1> QED BY <1>1, <1>2, <1>3, <1>4, <1>5, <1>6 DEF Next, Clicks

LEMMA KeysAlways == Spec => []KeyInv
  <1> QED BY KeyInit, KeyStep, TypesAlways, PTL DEF Spec

\* Whatever is lost, fails or expires: a tab that says the upload has succeeded has the
\* file in the list, under the upload it was about.
THEOREM DoneIsRegistered == Spec => []DoneMeansRegistered
  <1>1. KeyInv => DoneMeansRegistered BY DEF KeyInv
  <1> QED BY <1>1, KeysAlways, PTL

-----------------------------------------------------------------------------
(* Torn chunks. *)

InitAnswered(q) == q.op = "init" /\ q.pc = "ok"

\* Nobody else knows the id of an upload before its tab has heard of it.
FreshInv ==
  \A h \in Handlers : InitAnswered(handlers[h]) =>
    /\ \A t \in Tabs : tabs[t].id # handlers[h].id
    /\ \A k \in Keys : stored[k] # handlers[h].id
    /\ \A g \in Handlers \ {h} : Named(handlers[g]) => handlers[g].id # handlers[h].id

\* An upload in two hands.
SharedInv ==
  \A t, x \in Tabs : t # x /\ tabs[t].id = tabs[x].id /\ tabs[t].id # None =>
    \A i \in Indices : <<tabs[t].id, i>> \in disturbed

\* Handlers that nobody waits for.
GivenUpInv ==
  \A h \in Handlers : handlers[h].tab = None =>
    /\ handlers[h].op = "chunk" /\ handlers[h].pc \in {"new", "save"} =>
         <<handlers[h].id, handlers[h].idx>> \in disturbed
    /\ handlers[h].op = "complete" /\ handlers[h].pc = "new" =>
         \A i \in Indices : <<handlers[h].id, i>> \in disturbed

\* A handler, with its tab, is about to write the chunk.
Saves(q, id, i) ==
  q.op = "chunk" /\ q.pc = "save" /\ q.tab # None /\ q.id = id /\ q.idx = i

TornInv ==
  \A id \in UploadIds, i \in Indices :
    part[id][i] = Torn => \/ <<id, i>> \in disturbed
                          \/ \E h \in Handlers : Saves(handlers[h], id, i)

\* What an UploadComplete has merged.
BytesInv ==
  \A h \in Handlers, i \in Indices :
    handlers[h].op = "complete" /\ handlers[h].pc = "register" =>
      IF handlers[h].bytes[i] = Torn THEN <<handlers[h].id, i>> \in disturbed
      ELSE /\ handlers[h].bytes[i][2] = i
           /\ resumeKey(handlers[h].bytes[i][1]) = KeyOf(handlers[h].id)

HandsInv == FreshInv /\ SharedInv /\ GivenUpInv /\ TornInv /\ BytesInv /\ RowsAreAccountedFor

LEMMA HandsInit == Init => HandsInv
  <1> SUFFICES ASSUME Init PROVE HandsInv OBVIOUS
  <1>1. \A h \in Handlers : handlers[h].op = "none" BY FreeFields DEF Init
  <1>2. FreshInv /\ GivenUpInv /\ BytesInv BY <1>1 DEF FreshInv, InitAnswered, GivenUpInv, BytesInv
  <1>3. SharedInv BY DEF Init, SharedInv
  <1>4. TornInv BY NoneAssumption DEF Init, TornInv
  <1>5. RowsAreAccountedFor BY DEF Init, RowsAreAccountedFor
  <1> QED BY <1>2, <1>3, <1>4, <1>5 DEF HandsInv

\* Ids that a tab, localStorage or this handler knows.
Taken(h, id) ==
  \/ id = None
  \/ \E t \in Tabs : tabs[t].id = id
  \/ \E k \in Keys : stored[k] = id
  \/ Named(handlers[h]) /\ handlers[h].id = id

LEMMA TakenNotFresh ==
  ASSUME TypeInv, FreshInv, NEW g \in Handlers, NEW h \in Handlers, g # h,
         InitAnswered(handlers[g]), NEW id, Taken(h, id)
  PROVE  handlers[g].id # id
  <1>1. handlers[g].id \in UploadIds BY NamedHandler DEF InitAnswered, Named
  <1> QED BY <1>1, NoneAssumption DEF Taken, FreshInv

LEMMA FreshStep ==
  ASSUME TypeInv, FreshInv, NEW h \in Handlers, Others(h),
         \A t \in Tabs : Taken(h, tabs'[t].id), \A k \in Keys : Taken(h, stored'[k]),
         \/ ~InitAnswered(handlers'[h]) /\ (Named(handlers'[h]) => Taken(h, handlers'[h].id))
         \/ /\ UNCHANGED <<tabs, stored>>
            /\ handlers'[h].id \in UploadIds /\ session[handlers'[h].id] = None
  PROVE  FreshInv'
  <1>1. ASSUME NEW g \in Handlers, g # h, InitAnswered(handlers[g])
        PROVE  /\ \A t \in Tabs : tabs'[t].id # handlers[g].id
               /\ \A k \in Keys : stored'[k] # handlers[g].id
               /\ \A f \in Handlers \ {g} : Named(handlers'[f]) => handlers'[f].id # handlers[g].id
    <2>1. \A t \in Tabs : tabs'[t].id # handlers[g].id BY <1>1, TakenNotFresh
    <2>2. \A k \in Keys : stored'[k] # handlers[g].id BY <1>1, TakenNotFresh
    <2>3. ASSUME NEW f \in Handlers \ {g}, Named(handlers'[f])
          PROVE  handlers'[f].id # handlers[g].id
      <3>1. CASE f # h
        <4>1. handlers'[f] = handlers[f] BY <3>1 DEF Others
        <4> QED BY <1>1, <2>3, <4>1 DEF FreshInv
      <3>2. CASE f = h
        <4>1. CASE Taken(h, handlers'[h].id) BY <1>1, <3>2, <4>1, TakenNotFresh
        <4>2. CASE session[handlers'[h].id] = None
          <5>1. session[handlers[g].id] # None BY <1>1, NamedHandler DEF InitAnswered, Named
          <5> QED BY <3>2, <4>2, <5>1
        <4> QED BY <2>3, <3>2, <4>1, <4>2
      <3> QED BY <3>1, <3>2
    <2> QED BY <2>1, <2>2, <2>3
  <1>2. ASSUME InitAnswered(handlers'[h])
        PROVE  /\ \A t \in Tabs : tabs'[t].id # handlers'[h].id
               /\ \A k \in Keys : stored'[k] # handlers'[h].id
               /\ \A f \in Handlers \ {h} : Named(handlers'[f]) => handlers'[f].id # handlers'[h].id
    <2>1. /\ UNCHANGED <<tabs, stored>>
          /\ handlers'[h].id \in UploadIds /\ session[handlers'[h].id] = None
      BY <1>2
    <2>2. \A id : Known(id) => id # handlers'[h].id BY <2>1 DEF Known
    <2>3. \A t \in Tabs : tabs[t].id = None \/ Known(tabs[t].id)
      BY DEF TypeInv, LocalsInv, TabLocals
    <2>4. \A k \in Keys : stored[k] = None \/ Known(stored[k]) BY DEF TypeInv, LocalsInv
    <2>5. \A f \in Handlers \ {h} : handlers'[f] = handlers[f] BY DEF Others
    <2>6. \A f \in Handlers : Named(handlers[f]) => Known(handlers[f].id)
      BY DEF TypeInv, LocalsInv, HandlerLocals
    <2> QED BY <2>1, <2>2, <2>3, <2>4, <2>5, <2>6, NoneAssumption
  <1>3. \A g \in Handlers \ {h} : handlers'[g] = handlers[g] BY DEF Others
  <1> SUFFICES ASSUME NEW g \in Handlers, InitAnswered(handlers'[g])
               PROVE  /\ \A t \in Tabs : tabs'[t].id # handlers'[g].id
                      /\ \A k \in Keys : stored'[k] # handlers'[g].id
                      /\ \A f \in Handlers \ {g} :
                           Named(handlers'[f]) => handlers'[f].id # handlers'[g].id
    BY DEF FreshInv, InitAnswered, Named
  <1>4. CASE g = h BY <1>2, <1>4
  <1>5. CASE g # h BY <1>1, <1>3, <1>5
  <1> QED BY <1>4, <1>5

\* What one handler's step does to the promises of the others.
LEMMA HandsStep ==
  ASSUME TypeInv, KeyInv, HandsInv, SessionsKept, NEW h \in Handlers, Others(h),
         disturbed \subseteq disturbed',
         handlers'[h].tab = None =>
           /\ handlers'[h].op = "chunk" /\ handlers'[h].pc \in {"new", "save"} =>
                <<handlers'[h].id, handlers'[h].idx>> \in disturbed'
           /\ handlers'[h].op = "complete" /\ handlers'[h].pc = "new" =>
                \A i \in Indices : <<handlers'[h].id, i>> \in disturbed',
         handlers'[h].op = "complete" /\ handlers'[h].pc = "register" =>
           \A i \in Indices :
             IF handlers'[h].bytes[i] = Torn THEN <<handlers'[h].id, i>> \in disturbed'
             ELSE /\ handlers'[h].bytes[i][2] = i
                  /\ resumeKey(handlers'[h].bytes[i][1])
                       = resumeKey(session'[handlers'[h].id].file)
  PROVE  GivenUpInv' /\ BytesInv'
  <1>1. \A g \in Handlers \ {h} : handlers'[g] = handlers[g] BY DEF Others
  <1>2. GivenUpInv'
    <2> SUFFICES ASSUME NEW g \in Handlers, handlers'[g].tab = None
                 PROVE  /\ handlers'[g].op = "chunk" /\ handlers'[g].pc \in {"new", "save"} =>
                             <<handlers'[g].id, handlers'[g].idx>> \in disturbed'
                        /\ handlers'[g].op = "complete" /\ handlers'[g].pc = "new" =>
                             \A i \in Indices : <<handlers'[g].id, i>> \in disturbed'
      BY DEF GivenUpInv
    <2>1. CASE g = h BY <2>1
    <2>2. CASE g # h BY <1>1, <2>2 DEF HandsInv, GivenUpInv
    <2> QED BY <2>1, <2>2
  <1>3. BytesInv'
    <2> SUFFICES ASSUME NEW g \in Handlers, NEW i \in Indices,
                        handlers'[g].op = "complete", handlers'[g].pc = "register"
                 PROVE  IF handlers'[g].bytes[i] = Torn THEN <<handlers'[g].id, i>> \in disturbed'
                        ELSE /\ handlers'[g].bytes[i][2] = i
                             /\ resumeKey(handlers'[g].bytes[i][1])
                                  = resumeKey(session'[handlers'[g].id].file)
      BY DEF BytesInv, KeyOf
    <2>1. CASE g = h BY <2>1
    <2>2. CASE g # h
      <3>1. handlers'[g] = handlers[g] BY <1>1, <2>2
      <3>2. Known(handlers[g].id) BY <3>1 DEF TypeInv, LocalsInv, HandlerLocals, Named
      <3>3. resumeKey(session'[handlers[g].id].file) = KeyOf(handlers[g].id) BY <3>2, KeyKept
      <3> QED BY <3>1, <3>3 DEF HandsInv, BytesInv
    <2> QED BY <2>1, <2>2
  <1> QED BY <1>2, <1>3

\* Chunks stay as they are, or go; and a handler that is about to write one still is.
LEMMA TornKept ==
  ASSUME HandsInv, NEW h \in Handlers, Others(h), disturbed \subseteq disturbed',
         \A id \in UploadIds, i \in Indices : part'[id][i] \in {part[id][i], None},
         \A id \in UploadIds, i \in Indices :
           Saves(handlers[h], id, i) => Saves(handlers'[h], id, i) \/ <<id, i>> \in disturbed'
  PROVE  TornInv'
  <1> SUFFICES ASSUME NEW id \in UploadIds, NEW i \in Indices, part'[id][i] = Torn
               PROVE  \/ <<id, i>> \in disturbed'
                      \/ \E g \in Handlers : Saves(handlers'[g], id, i)
    BY DEF TornInv, Saves
  <1>1. part[id][i] = Torn BY NoneAssumption
  <1>2. CASE <<id, i>> \in disturbed BY <1>2
  <1>3. ASSUME NEW g \in Handlers, Saves(handlers[g], id, i)
        PROVE  \/ <<id, i>> \in disturbed'
               \/ \E f \in Handlers : Saves(handlers'[f], id, i)
    <2>1. CASE g = h BY <1>3, <2>1
    <2>2. CASE g # h
      <3>1. handlers'[g] = handlers[g] BY <2>2 DEF Others
      <3> QED BY <1>3, <3>1
    <2> QED BY <2>1, <2>2
  <1> QED BY <1>1, <1>2, <1>3 DEF HandsInv, TornInv

LEMMA SharedKept ==
  ASSUME HandsInv, disturbed \subseteq disturbed', \A t \in Tabs : tabs'[t].id = tabs[t].id
  PROVE  SharedInv'
  BY DEF HandsInv, SharedInv

\* Steps of the service that neither begin an upload, nor open a chunk, nor merge.
LEMMA ServiceFresh ==
  ASSUME TypeInv, HandsInv, NEW h \in Handlers, ServiceStep(h),
         ~InitAnswered(handlers'[h])
  PROVE  FreshInv'
  <1>1. UNCHANGED <<tabs, stored>> /\ Others(h) /\ Follows(h) BY DEF ServiceStep
  <1>2. \A t \in Tabs : Taken(h, tabs'[t].id) BY <1>1 DEF Taken
  <1>3. \A k \in Keys : Taken(h, stored'[k]) BY <1>1 DEF Taken
  <1>4. Named(handlers'[h]) => Taken(h, handlers'[h].id)
    BY <1>1, FreeFields DEF Follows, Named, InitAnswered, Taken
  <1> QED BY <1>1, <1>2, <1>3, <1>4, FreshStep DEF HandsInv

LEMMA UploadInitHands ==
  ASSUME TypeInv, KeyInv, HandsInv, NEW h \in Handlers, UploadInit(h)
  PROVE  HandsInv'
  <1>1. /\ ServiceStep(h) /\ UNCHANGED <<rows, disturbed>> /\ handlers[h].op = "init"
        /\ \A i \in UploadIds, k \in Indices : part'[i][k] \in {part[i][k], None}
        /\ \/ handlers'[h] = Free
           \/ /\ handlers'[h].op = "init"
              /\ handlers'[h].id \in UploadIds /\ session[handlers'[h].id] = None
    BY UploadInitMoves DEF UploadInit, At
  <1>2. UNCHANGED <<tabs, stored>> /\ Others(h) /\ SessionsKept BY <1>1 DEF ServiceStep
  <1>3. FreshInv'
    <2>1. CASE handlers'[h] = Free
      BY <1>1, <2>1, ServiceFresh, FreeFields DEF InitAnswered
    <2>2. CASE handlers'[h].id \in UploadIds /\ session[handlers'[h].id] = None
      <3>1. \A t \in Tabs : Taken(h, tabs'[t].id) BY <1>2 DEF Taken
      <3>2. \A k \in Keys : Taken(h, stored'[k]) BY <1>2 DEF Taken
      <3> QED BY <1>2, <2>2, <3>1, <3>2, FreshStep DEF HandsInv
    <2> QED BY <1>1, <2>1, <2>2
  <1>4. SharedInv' BY <1>1, <1>2, SharedKept
  <1>5. GivenUpInv' /\ BytesInv'
    <2>1. handlers'[h].op \in {"none", "init"} BY <1>1, FreeFields
    <2> QED BY <1>1, <1>2, <2>1, HandsStep
  <1>6. TornInv'
    <2>1. \A id \in UploadIds, i \in Indices : ~Saves(handlers[h], id, i) BY <1>1 DEF Saves
    <2> QED BY <1>1, <1>2, <2>1, TornKept
  <1>7. RowsAreAccountedFor' BY <1>1 DEF HandsInv, RowsAreAccountedFor
  <1> QED BY <1>3, <1>4, <1>5, <1>6, <1>7 DEF HandsInv

LEMMA QuietHands ==
  ASSUME TypeInv, KeyInv, HandsInv, NEW h \in Handlers,
         UploadStatus(h) \/ UpdateCount(h) \/ MarkDone(h) \/ Throw(h)
  PROVE  HandsInv'
  <1>1. /\ ServiceStep(h) /\ UNCHANGED <<rows, disturbed>> /\ handlers[h].pc # "save"
        /\ \/ handlers'[h] = Free
           \/ handlers'[h].op = "status"
           \/ handlers'[h].pc = "refused"
           \/ handlers'[h].pc = "ok" /\ handlers'[h].op \in {"chunk", "complete"}
    <2>1. CASE UploadStatus(h) BY <2>1, UploadStatusMoves DEF UploadStatus, At
    <2>2. CASE UpdateCount(h)
      <3>1. /\ ServiceStep(h) /\ handlers[h].op = "chunk" /\ handlers[h].pc = "update"
            /\ UNCHANGED <<rows, disturbed>> /\ (handlers'[h] = Free \/ handlers'[h].pc = "ok")
        BY <2>2, UpdateCountMoves
      <3> QED BY <3>1 DEF ServiceStep, Follows
    <2>3. CASE MarkDone(h)
      <3>1. /\ ServiceStep(h) /\ handlers[h].op = "complete" /\ handlers[h].pc = "mark"
            /\ UNCHANGED <<rows, disturbed>> /\ (handlers'[h] = Free \/ handlers'[h].pc = "ok")
        BY <2>3, MarkDoneMoves
      <3> QED BY <3>1 DEF ServiceStep, Follows
    <2>4. CASE Throw(h) BY <2>4, ThrowMoves DEF Throw
    <2> QED BY <2>1, <2>2, <2>3, <2>4
  <1>2. UNCHANGED <<tabs, stored>> /\ Others(h) /\ SessionsKept BY <1>1 DEF ServiceStep
  <1>3. \A id \in UploadIds, i \in Indices : part'[id][i] \in {part[id][i], None}
    <2>1. CASE UploadStatus(h) \/ UpdateCount(h) \/ Throw(h)
      BY <2>1, UploadStatusMoves, UpdateCountMoves, ThrowMoves
    <2>2. CASE MarkDone(h)
      <3>1. part' = [part EXCEPT ![handlers[h].id] = [i \in Indices |-> None]]
        BY <2>2, MarkDoneMoves
      <3> QED BY <3>1 DEF TypeInv, TypeOK
    <2> QED BY <2>1, <2>2
  <1>4. FreshInv' BY <1>1, ServiceFresh, FreeFields DEF InitAnswered
  <1>5. SharedInv' BY <1>1, <1>2, SharedKept
  <1>6. GivenUpInv' /\ BytesInv' BY <1>1, <1>2, HandsStep, FreeFields
  <1>7. TornInv'
    <2>1. \A id \in UploadIds, i \in Indices : ~Saves(handlers[h], id, i) BY <1>1 DEF Saves
    <2> QED BY <1>1, <1>2, <1>3, <2>1, TornKept
  <1>8. RowsAreAccountedFor' BY <1>1 DEF HandsInv, RowsAreAccountedFor
  <1> QED BY <1>4, <1>5, <1>6, <1>7, <1>8 DEF HandsInv

\* A chunk is torn while its handler, or somebody who gave up, answers for it.
LEMMA OpenChunkHands ==
  ASSUME TypeInv, KeyInv, HandsInv, NEW h \in Handlers, OpenChunk(h)
  PROVE  HandsInv'
  <1> DEFINE id == handlers[h].id
             idx == handlers[h].idx
  <1>1. /\ ServiceStep(h) /\ UNCHANGED <<rows, disturbed>>
        /\ handlers[h].op = "chunk" /\ handlers[h].pc = "new"
        /\ \/ UNCHANGED part /\ (handlers'[h] = Free \/ handlers'[h].pc = "gone")
           \/ /\ part' = [part EXCEPT ![id][idx] = Torn]
              /\ handlers'[h] # Free /\ handlers'[h].pc = "save"
    BY OpenChunkMoves
  <1>2. UNCHANGED <<tabs, stored>> /\ Others(h) /\ SessionsKept BY <1>1 DEF ServiceStep
  <1>3. \/ handlers'[h] = Free
        \/ /\ handlers'[h].op = "chunk" /\ handlers'[h].tab = handlers[h].tab
           /\ handlers'[h].id = id /\ handlers'[h].idx = idx
    BY <1>1 DEF ServiceStep, Follows
  <1>4. handlers[h].tab = None => <<id, idx>> \in disturbed BY <1>1 DEF HandsInv, GivenUpInv
  <1>5. FreshInv' BY <1>1, <1>3, ServiceFresh, FreeFields DEF InitAnswered
  <1>6. SharedInv' BY <1>1, <1>2, SharedKept
  <1>7. GivenUpInv' /\ BytesInv' BY <1>1, <1>2, <1>3, <1>4, HandsStep, FreeFields
  <1>8. TornInv'
    <2>1. CASE UNCHANGED part
      <3>1. \A i \in UploadIds, k \in Indices : ~Saves(handlers[h], i, k) BY <1>1 DEF Saves
      <3> QED BY <1>1, <1>2, <2>1, <3>1, TornKept
    <2>2. CASE /\ part' = [part EXCEPT ![id][idx] = Torn]
               /\ handlers'[h] # Free /\ handlers'[h].pc = "save"
      <3> SUFFICES ASSUME NEW i \in UploadIds, NEW k \in Indices, part'[i][k] = Torn
                   PROVE  \/ <<i, k>> \in disturbed'
                          \/ \E g \in Handlers : Saves(handlers'[g], i, k)
        BY DEF TornInv, Saves
      <3>1. CASE i = id /\ k = idx
        <4>1. CASE handlers[h].tab = None BY <1>1, <1>4, <3>1, <4>1
        <4>2. CASE handlers[h].tab # None
          <5>1. Saves(handlers'[h], i, k) BY <1>3, <2>2, <3>1, <4>2 DEF Saves
          <5> QED BY <5>1
        <4> QED BY <4>1, <4>2
      <3>2. CASE ~(i = id /\ k = idx)
        <4>1. part[i][k] = Torn BY <2>2, <3>2 DEF TypeInv, TypeOK
        <4>2. CASE <<i, k>> \in disturbed BY <1>1, <4>2
        <4>3. ASSUME NEW g \in Handlers, Saves(handlers[g], i, k)
              PROVE  \E f \in Handlers : Saves(handlers'[f], i, k)
          <5>1. g # h BY <1>1, <4>3 DEF Saves
          <5>2. handlers'[g] = handlers[g] BY <1>2, <5>1 DEF Others
          <5> QED BY <4>3, <5>2
        <4> QED BY <4>1, <4>2, <4>3 DEF HandsInv, TornInv
      <3> QED BY <3>1, <3>2
    <2> QED BY <1>1, <2>1, <2>2
  <1>9. RowsAreAccountedFor' BY <1>1 DEF HandsInv, RowsAreAccountedFor
  <1> QED BY <1>5, <1>6, <1>7, <1>8, <1>9 DEF HandsInv

LEMMA SaveChunkHands ==
  ASSUME TypeInv, KeyInv, HandsInv, NEW h \in Handlers, SaveChunk(h)
  PROVE  HandsInv'
  <1> DEFINE id == handlers[h].id
             idx == handlers[h].idx
             piece == <<handlers[h].file, idx>>
  <1>1. /\ ServiceStep(h) /\ UNCHANGED <<rows, disturbed>>
        /\ handlers[h].op = "chunk" /\ handlers[h].pc = "save"
        /\ handlers'[h] # Free /\ handlers'[h].pc = "update"
        /\ part' = IF part[id][idx] = None THEN part ELSE [part EXCEPT ![id][idx] = piece]
    BY SaveChunkMoves
  <1>2. UNCHANGED <<tabs, stored>> /\ Others(h) /\ SessionsKept BY <1>1 DEF ServiceStep
  <1>3. handlers'[h].op = "chunk" BY <1>1 DEF ServiceStep, Follows
  <1>4. /\ id \in UploadIds /\ idx \in Indices /\ piece \in Piece
    BY <1>1, NamedHandler DEF Named, Piece
  <1>5. FreshInv' BY <1>1, <1>3, ServiceFresh DEF InitAnswered
  <1>6. SharedInv' BY <1>1, <1>2, SharedKept
  <1>7. GivenUpInv' /\ BytesInv' BY <1>1, <1>2, <1>3, HandsStep
  <1>8. TornInv'
    <2> HIDE DEF piece
    <2> SUFFICES ASSUME NEW i \in UploadIds, NEW k \in Indices, part'[i][k] = Torn
                 PROVE  \/ <<i, k>> \in disturbed'
                        \/ \E g \in Handlers : Saves(handlers'[g], i, k)
      BY DEF TornInv, Saves
    <2>1. ~(i = id /\ k = idx)
      <3> SUFFICES ASSUME i = id, k = idx PROVE FALSE OBVIOUS
      <3>1. part'[i][k] = None \/ part'[i][k] = piece BY <1>1, <1>4 DEF TypeInv, TypeOK
      <3> QED BY <1>4, <3>1, NoneAssumption
    <2>2. part[i][k] = Torn BY <1>1, <1>4, <2>1 DEF TypeInv, TypeOK
    <2>3. CASE <<i, k>> \in disturbed BY <1>1, <2>3
    <2>4. ASSUME NEW g \in Handlers, Saves(handlers[g], i, k)
          PROVE  \E f \in Handlers : Saves(handlers'[f], i, k)
      <3>1. g # h BY <2>1, <2>4 DEF Saves
      <3>2. handlers'[g] = handlers[g] BY <1>2, <3>1 DEF Others
      <3> QED BY <2>4, <3>2
    <2> QED BY <2>2, <2>3, <2>4 DEF HandsInv, TornInv
  <1>9. RowsAreAccountedFor' BY <1>1 DEF HandsInv, RowsAreAccountedFor
  <1> QED BY <1>5, <1>6, <1>7, <1>8, <1>9 DEF HandsInv

\* Who merges while another handler is writing is not of its tab.
LEMMA MergeSeesTorn ==
  ASSUME TypeInv, HandsInv, NEW h \in Handlers, NEW i \in Indices,
         handlers[h].op = "complete", handlers[h].pc = "new",
         part[handlers[h].id][i] = Torn
  PROVE  <<handlers[h].id, i>> \in disturbed
  <1> DEFINE id == handlers[h].id
  <1>1. id \in UploadIds BY NamedHandler DEF Named
  <1>2. CASE handlers[h].tab = None BY <1>2 DEF HandsInv, GivenUpInv
  <1>3. ASSUME handlers[h].tab # None, NEW g \in Handlers, Saves(handlers[g], id, i)
        PROVE  <<id, i>> \in disturbed
    <2>1. g # h BY <1>3 DEF Saves
    <2>2. handlers[g].tab # handlers[h].tab BY <1>3, <2>1 DEF TypeInv, LocalsInv, Alone
    <2>3. handlers[h].tab \in Tabs /\ handlers[g].tab \in Tabs
      BY <1>3 DEF Saves, TypeInv, TypeOK, Handler
    <2>4. tabs[handlers[h].tab].id = id BY <1>3 DEF TypeInv, LocalsInv, HandlerLocals
    <2>5. tabs[handlers[g].tab].id = id BY <1>3 DEF Saves, TypeInv, LocalsInv, HandlerLocals
    <2> QED BY <1>1, <2>2, <2>3, <2>4, <2>5, NoneAssumption DEF HandsInv, SharedInv
  <1> QED BY <1>1, <1>2, <1>3 DEF HandsInv, TornInv

LEMMA MergeChunksHands ==
  ASSUME TypeInv, KeyInv, HandsInv, NEW h \in Handlers, MergeChunks(h)
  PROVE  HandsInv'
  <1> DEFINE id == handlers[h].id
  <1>1. /\ ServiceStep(h) /\ UNCHANGED <<session, part, rows, disturbed>>
        /\ handlers[h].op = "complete" /\ handlers[h].pc = "new"
        /\ \/ handlers'[h] = Free \/ handlers'[h].pc \in {"gone", "refused"}
           \/ /\ handlers'[h] # Free /\ handlers'[h].pc = "register"
              /\ handlers'[h].bytes = part[id]
              /\ part[id] \in [Indices -> Piece \cup {Torn}]
    BY MergeChunksMoves
  <1>2. UNCHANGED <<tabs, stored>> /\ Others(h) /\ SessionsKept BY <1>1 DEF ServiceStep
  <1>3. \/ handlers'[h] = Free
        \/ handlers'[h].op = "complete" /\ handlers'[h].id = id
    BY <1>1 DEF ServiceStep, Follows
  <1>4. id \in UploadIds BY <1>1, NamedHandler DEF Named
  <1>5. FreshInv' BY <1>1, <1>3, ServiceFresh, FreeFields DEF InitAnswered
  <1>6. SharedInv' BY <1>1, <1>2, SharedKept
  <1>7. handlers'[h].op = "complete" /\ handlers'[h].pc = "register" =>
          \A i \in Indices :
            IF handlers'[h].bytes[i] = Torn THEN <<handlers'[h].id, i>> \in disturbed'
            ELSE /\ handlers'[h].bytes[i][2] = i
                 /\ resumeKey(handlers'[h].bytes[i][1])
                      = resumeKey(session'[handlers'[h].id].file)
    <2> SUFFICES ASSUME handlers'[h] # Free, handlers'[h].bytes = part[id],
                        part[id] \in [Indices -> Piece \cup {Torn}], NEW i \in Indices
                 PROVE  IF part[id][i] = Torn THEN <<id, i>> \in disturbed
                        ELSE /\ part[id][i][2] = i
                             /\ resumeKey(part[id][i][1]) = resumeKey(session[id].file)
      BY <1>1, <1>3, FreeFields
    <2>1. CASE part[id][i] = Torn BY <1>1, <2>1, MergeSeesTorn
    <2>2. CASE part[id][i] # Torn
      <3>1. part[id][i] \in Piece BY <2>2
      <3>2. part[id][i] # None BY <3>1, NoneAssumption
      <3> QED BY <1>4, <2>2, <3>2 DEF KeyInv, PartKeys, KeyOf
    <2> QED BY <2>1, <2>2
  <1>8. ~(handlers'[h].op = "complete" /\ handlers'[h].pc = "new") /\ handlers'[h].op # "chunk"
    BY <1>1, <1>3, FreeFields
  <1>9. GivenUpInv' /\ BytesInv' BY <1>1, <1>2, <1>7, <1>8, HandsStep
  <1>10. TornInv'
    <2>1. \A i \in UploadIds, k \in Indices : ~Saves(handlers[h], i, k) BY <1>1 DEF Saves
    <2> QED BY <1>1, <1>2, <2>1, TornKept
  <1>11. RowsAreAccountedFor' BY <1>1 DEF HandsInv, RowsAreAccountedFor
  <1> QED BY <1>5, <1>6, <1>9, <1>10, <1>11 DEF HandsInv

LEMMA RegisterFileHands ==
  ASSUME TypeInv, KeyInv, HandsInv, NEW h \in Handlers, RegisterFile(h)
  PROVE  HandsInv'
  <1> DEFINE id == handlers[h].id
             row == [id |-> id, file |-> session[id].file, bytes |-> handlers[h].bytes]
  <1>1. /\ ServiceStep(h) /\ UNCHANGED <<session, part, disturbed>>
        /\ handlers[h].op = "complete" /\ handlers[h].pc = "register"
        /\ rows' = rows \cup {row} /\ handlers'[h] # Free /\ handlers'[h].pc = "mark"
    BY RegisterFileMoves
  <1>2. UNCHANGED <<tabs, stored>> /\ Others(h) /\ SessionsKept BY <1>1 DEF ServiceStep
  <1>3. handlers'[h].op = "complete" BY <1>1 DEF ServiceStep, Follows
  <1>4. FreshInv' BY <1>1, <1>3, ServiceFresh DEF InitAnswered
  <1>5. SharedInv' BY <1>1, <1>2, SharedKept
  <1>6. GivenUpInv' /\ BytesInv' BY <1>1, <1>2, <1>3, HandsStep
  <1>7. TornInv'
    <2>1. \A i \in UploadIds, k \in Indices : ~Saves(handlers[h], i, k) BY <1>1 DEF Saves
    <2> QED BY <1>1, <1>2, <2>1, TornKept
  <1>8. RowsAreAccountedFor'
    <2> SUFFICES ASSUME NEW r \in rows', NEW i \in Indices
                 PROVE  IF r.bytes[i] = Torn THEN <<r.id, i>> \in disturbed
                        ELSE /\ r.bytes[i][2] = i
                             /\ Name[r.bytes[i][1]] = Name[r.file]
                             /\ Size[r.bytes[i][1]] = Size[r.file]
      BY <1>1 DEF RowsAreAccountedFor
    <2>1. CASE r \in rows BY <2>1 DEF HandsInv, RowsAreAccountedFor
    <2>2. CASE r = row
      <3>1. r.id = id /\ r.file = session[id].file /\ r.bytes = handlers[h].bytes BY <2>2
      <3>2. IF handlers[h].bytes[i] = Torn THEN <<id, i>> \in disturbed
            ELSE /\ handlers[h].bytes[i][2] = i
                 /\ resumeKey(handlers[h].bytes[i][1]) = resumeKey(session[id].file)
        BY <1>1 DEF HandsInv, BytesInv, KeyOf
      <3> QED BY <3>1, <3>2 DEF resumeKey
    <2> QED BY <1>1, <2>1, <2>2
  <1> QED BY <1>4, <1>5, <1>6, <1>7, <1>8 DEF HandsInv

\* The answers, and a status request that is given up.
LEMMA TabStepHands ==
  ASSUME TypeInv, KeyInv, HandsInv, NEW h \in Handlers, TabStep(h, handlers[h].id),
         UNCHANGED <<session, part, rows>>, disturbed \subseteq disturbed',
         tabs'[handlers[h].tab].pc = "waiting" => Named(handlers[h]),
         \A k \in Keys : Taken(h, stored'[k]),
         handlers[h].op = "status" \/ handlers[h].pc # "save"
  PROVE  HandsInv'
  <1> DEFINE t == handlers[h].tab
             id == handlers[h].id
  <1>1. /\ SessionsKept /\ Others(h) /\ OtherTabs(t) /\ t \in Tabs /\ tabs[t].pc = "waiting"
        /\ \/ /\ tabs'[t].pc = "waiting" /\ tabs'[t].id = id
              /\ handlers'[h].tab = t /\ handlers'[h].id = id /\ handlers'[h].pc = "new"
              /\ handlers'[h].op \in {"chunk", "complete"}
           \/ tabs'[t].id = tabs[t].id /\ handlers'[h] = Free
    BY SameSessions DEF TabStep
  <1>2. ASSUME tabs'[t].pc = "waiting" PROVE Named(handlers[h]) BY <1>2
  <1> HIDE DEF t
  <1>3. FreshInv'
    <2>1. ASSUME NEW x \in Tabs PROVE Taken(h, tabs'[x].id)
      <3>1. CASE x # t \/ tabs'[t].id = tabs[t].id BY <1>1, <3>1 DEF OtherTabs, Taken
      <3>2. CASE x = t /\ tabs'[t].pc = "waiting" /\ tabs'[t].id = id BY <1>2, <3>2 DEF Taken
      <3> QED BY <1>1, <3>1, <3>2
    <2>2. ~InitAnswered(handlers'[h]) BY <1>1, FreeFields DEF InitAnswered
    <2>3. Named(handlers'[h]) => Taken(h, handlers'[h].id)
      <3>1. CASE handlers'[h] = Free BY <3>1, FreeFields DEF Named
      <3>2. CASE tabs'[t].pc = "waiting" /\ handlers'[h].id = id BY <1>2, <3>2 DEF Taken
      <3> QED BY <1>1, <3>1, <3>2
    <2> QED BY <1>1, <2>1, <2>2, <2>3, FreshStep DEF HandsInv
  <1>4. SharedInv'
    <2>1. CASE tabs'[t].id = tabs[t].id BY <1>1, <2>1, SharedKept DEF OtherTabs
    <2>2. CASE tabs'[t].pc = "waiting" /\ tabs'[t].id = id /\ tabs'[t].id # tabs[t].id
      <3>1. handlers[h].tab = t /\ handlers[h].tab # None BY <1>1, NoneAssumption DEF t
      <3>2. InitAnswered(handlers[h])
        <4>1. handlers[h].op # "init" => tabs[t].id = id
          BY <3>1 DEF TypeInv, LocalsInv, HandlerLocals
        <4> QED BY <1>2, <2>2, <4>1 DEF Named, InitAnswered
      <3>3. \A x \in Tabs : tabs[x].id # id BY <3>2 DEF HandsInv, FreshInv
      <3> SUFFICES ASSUME NEW x \in Tabs, NEW y \in Tabs, x # y, tabs'[x].id = tabs'[y].id,
                          tabs'[x].id # None, NEW i \in Indices
                   PROVE  <<tabs'[x].id, i>> \in disturbed'
        BY DEF SharedInv
      <3>4. x # t /\ y # t BY <1>1, <2>2, <3>3 DEF OtherTabs
      <3>5. tabs'[x] = tabs[x] /\ tabs'[y] = tabs[y] BY <1>1, <3>4 DEF OtherTabs
      <3> QED BY <3>5 DEF HandsInv, SharedInv
    <2> QED BY <1>1, <2>1, <2>2
  <1>5. GivenUpInv' /\ BytesInv'
    <2>1. handlers'[h].pc = "new" BY <1>1, FreeFields
    <2>2. handlers'[h].tab # None \/ handlers'[h].op = "none" BY <1>1, NoneAssumption, FreeFields
    <2> QED BY <1>1, <2>1, <2>2, HandsStep
  <1>6. TornInv'
    <2>1. \A i \in UploadIds, k \in Indices : ~Saves(handlers[h], i, k) BY DEF Saves
    <2> QED BY <1>1, <2>1, TornKept
  <1>7. RowsAreAccountedFor' BY DEF HandsInv, RowsAreAccountedFor
  <1> QED BY <1>3, <1>4, <1>5, <1>6, <1>7 DEF HandsInv

LEMMA HearHands ==
  ASSUME TypeInv, KeyInv, HandsInv, NEW h \in Handlers, Hear(h)
  PROVE  HandsInv'
  <1> DEFINE t == handlers[h].tab
             id == handlers[h].id
  <1>1. UNCHANGED <<session, part, rows, disturbed>> /\ TabStep(h, id)
    BY fetchMoves, BegunMoves, ChunkAnsweredMoves, CompletedMoves DEF Hear
  <1>2. handlers[h].pc # "save"
    BY DEF Hear, fetchReceivedChunks, Begun, ChunkAnswered, Completed, Answered
  <1>3. CASE Begun(h)
    <2>1. CASE /\ handlers[h].op = "init" /\ handlers[h].pc = "ok"
               /\ stored' = [stored EXCEPT ![resumeKey(handlers[h].file)] = id]
      <3>1. Named(handlers[h]) BY <2>1 DEF Named
      <3>2. \A k \in Keys : stored'[k] \in {stored[k], id} BY <2>1 DEF TypeInv, TypeOK
      <3>3. \A k \in Keys : Taken(h, stored'[k]) BY <3>1, <3>2 DEF Taken
      <3> QED BY <1>1, <1>2, <3>1, <3>3, TabStepHands
    <2>2. CASE tabs'[t].pc = "failed" /\ UNCHANGED stored
      <3>1. \A k \in Keys : Taken(h, stored'[k]) BY <2>2 DEF Taken
      <3> QED BY <1>1, <1>2, <2>2, <3>1, TabStepHands
    <2> QED BY <1>3, <2>1, <2>2, BegunMoves
  <1>4. CASE fetchReceivedChunks(h) \/ ChunkAnswered(h) \/ Completed(h)
    <2>1. /\ handlers[h].op \in {"status", "chunk", "complete"}
          /\ \A k \in Keys : stored'[k] \in {stored[k], None}
      BY <1>4, fetchMoves, ChunkAnsweredMoves, CompletedMoves DEF Forgets
    <2>2. \A k \in Keys : Taken(h, stored'[k]) BY <2>1 DEF Taken
    <2>3. Named(handlers[h]) BY <2>1 DEF Named
    <2> QED BY <1>1, <1>2, <2>2, <2>3, TabStepHands
  <1> QED BY <1>3, <1>4 DEF Hear

\* A second tab that continues an upload disturbs it.
LEMMA ClickHands ==
  ASSUME TypeInv, KeyInv, HandsInv, NEW t \in Tabs, NEW f \in Files, NEW h \in Handlers,
         Click(t, f, h)
  PROVE  HandsInv'
  <1> DEFINE id == stored[resumeKey(f)]
  <1>1. /\ OtherTabs(t) /\ tabs'[t].id = id /\ Others(h)
        /\ handlers'[h].tab = t /\ handlers'[h].id = id /\ handlers'[h].pc = "new"
        /\ handlers'[h].op \in {"status", "init"} /\ handlers[h].op = "none"
    BY ClickMoves
  <1>2. UNCHANGED <<stored, session, part, rows>> /\ disturbed \subseteq disturbed' BY DEF Click
  <1>3. SessionsKept BY <1>2, SameSessions
  <1>4. Taken(h, id) BY DEF Taken, Keys
  <1>5. ASSUME id # None, NEW x \in Tabs \ {t}, tabs[x].id = id, NEW i \in Indices
        PROVE  <<id, i>> \in disturbed'
    BY <1>5 DEF Click
  <1> HIDE DEF id
  <1>6. FreshInv'
    <2>1. \A x \in Tabs : Taken(h, tabs'[x].id)
      <3> SUFFICES ASSUME NEW x \in Tabs PROVE Taken(h, tabs'[x].id) OBVIOUS
      <3>1. CASE x = t BY <1>1, <1>4, <3>1
      <3>2. CASE x # t BY <1>1, <3>2 DEF OtherTabs, Taken
      <3> QED BY <3>1, <3>2
    <2>2. \A k \in Keys : Taken(h, stored'[k]) BY <1>2 DEF Taken
    <2>3. ~InitAnswered(handlers'[h]) BY <1>1 DEF InitAnswered
    <2> QED BY <1>1, <1>4, <2>1, <2>2, <2>3, FreshStep DEF HandsInv
  <1>7. SharedInv'
    <2> SUFFICES ASSUME NEW x \in Tabs, NEW y \in Tabs, x # y, tabs'[x].id = tabs'[y].id,
                        tabs'[x].id # None, NEW i \in Indices
                 PROVE  <<tabs'[x].id, i>> \in disturbed'
      BY DEF SharedInv
    <2>1. CASE x # t /\ y # t
      <3>1. tabs'[x] = tabs[x] /\ tabs'[y] = tabs[y] BY <1>1, <2>1 DEF OtherTabs
      <3> QED BY <1>2, <3>1 DEF HandsInv, SharedInv
    <2>2. CASE x = t BY <1>1, <1>5, <2>2 DEF OtherTabs
    <2>3. CASE y = t BY <1>1, <1>5, <2>3 DEF OtherTabs
    <2> QED BY <2>1, <2>2, <2>3
  <1>8. GivenUpInv' /\ BytesInv' BY <1>1, <1>2, <1>3, HandsStep
  <1>9. TornInv'
    <2>1. \A i \in UploadIds, k \in Indices : ~Saves(handlers[h], i, k) BY <1>1 DEF Saves
    <2> QED BY <1>1, <1>2, <2>1, TornKept
  <1>10. RowsAreAccountedFor' BY <1>2 DEF HandsInv, RowsAreAccountedFor
  <1> QED BY <1>6, <1>7, <1>8, <1>9, <1>10 DEF HandsInv

\* What is cut off is disturbed.
LEMMA CutOffHolds ==
  ASSUME NEW hs \in SUBSET Handlers, NEW h \in hs
  PROVE  /\ handlers[h].op = "chunk" /\ handlers[h].pc \in {"new", "save"} =>
              <<handlers[h].id, handlers[h].idx>> \in CutOff(hs)
         /\ handlers[h].op = "complete" /\ handlers[h].pc = "new" =>
              \A i \in Indices : <<handlers[h].id, i>> \in CutOff(hs)
  BY DEF CutOff

LEMMA GiveUpHands ==
  ASSUME TypeInv, KeyInv, HandsInv, NEW h \in Handlers, GiveUp(h)
  PROVE  HandsInv'
  <1> DEFINE t == handlers[h].tab
  <1>1. /\ UNCHANGED <<stored, session, part, rows>> /\ t \in Tabs
        /\ disturbed' = disturbed \cup CutOff({h})
    BY GiveUpMoves
  <1>2. disturbed \subseteq disturbed' /\ CutOff({h}) \subseteq disturbed' BY <1>1
  <1>3. SessionsKept BY <1>1, SameSessions
  <1>4. \A k \in Keys : Taken(h, stored'[k]) BY <1>1 DEF Taken
  <1>5. CASE handlers[h].op = "status" /\ TabStep(h, handlers[h].id)
    <2>1. Named(handlers[h]) BY <1>5 DEF Named
    <2> QED BY <1>1, <1>2, <1>4, <1>5, <2>1, TabStepHands
  <1>6. CASE /\ OtherTabs(t) /\ tabs'[t].id = tabs[t].id /\ Others(h)
             /\ \/ handlers'[h] = Free
                   /\ handlers[h].pc \in {"ok", "refused", "gone"}
                \/ /\ handlers[h].pc \notin {"ok", "refused", "gone"}
                   /\ handlers'[h] = [handlers[h] EXCEPT !.tab = None]
    <2> HIDE DEF t
    <2>1. \/ handlers'[h] = Free /\ handlers[h].pc \in {"ok", "refused", "gone"}
          \/ /\ handlers'[h].op = handlers[h].op /\ handlers'[h].pc = handlers[h].pc
             /\ handlers'[h].id = handlers[h].id /\ handlers'[h].idx = handlers[h].idx
             /\ handlers'[h].bytes = handlers[h].bytes
             /\ handlers[h].pc \notin {"ok", "refused", "gone"}
      <3>1. handlers[h] \in Handler BY DEF TypeInv, TypeOK
      <3> QED BY <1>6, <3>1 DEF Handler
    <2>2. \A x \in Tabs : tabs'[x].id = tabs[x].id BY <1>6 DEF OtherTabs
    <2>3. FreshInv'
      <3>1. \A x \in Tabs : Taken(h, tabs'[x].id) BY <2>2 DEF Taken
      <3>2. ~InitAnswered(handlers'[h]) BY <2>1, FreeFields DEF InitAnswered
      <3>3. Named(handlers'[h]) => Taken(h, handlers'[h].id)
        BY <2>1, FreeFields DEF Named, Taken
      <3> QED BY <1>4, <1>6, <3>1, <3>2, <3>3, FreshStep DEF HandsInv
    <2>4. SharedInv' BY <1>2, <2>2, SharedKept
    <2>5. GivenUpInv' /\ BytesInv'
      <3>1. CASE handlers'[h] = Free BY <1>2, <1>3, <1>6, <3>1, HandsStep, FreeFields
      <3>2. CASE /\ handlers'[h].op = handlers[h].op /\ handlers'[h].pc = handlers[h].pc
                 /\ handlers'[h].id = handlers[h].id /\ handlers'[h].idx = handlers[h].idx
                 /\ handlers'[h].bytes = handlers[h].bytes
        <4>1. /\ handlers[h].op = "chunk" /\ handlers[h].pc \in {"new", "save"} =>
                   <<handlers[h].id, handlers[h].idx>> \in disturbed'
              /\ handlers[h].op = "complete" /\ handlers[h].pc = "new" =>
                   \A i \in Indices : <<handlers[h].id, i>> \in disturbed'
          BY <1>2, CutOffHolds
        <4>2. handlers[h].op = "complete" /\ handlers[h].pc = "register" =>
                \A i \in Indices :
                  IF handlers[h].bytes[i] = Torn THEN <<handlers[h].id, i>> \in disturbed'
                  ELSE /\ handlers[h].bytes[i][2] = i
                       /\ resumeKey(handlers[h].bytes[i][1])
                            = resumeKey(session'[handlers[h].id].file)
          BY <1>1, <1>2 DEF HandsInv, BytesInv, KeyOf
        <4> QED BY <1>2, <1>3, <1>6, <3>2, <4>1, <4>2, HandsStep
      <3> QED BY <2>1, <3>1, <3>2
    <2>6. TornInv'
      <3>1. \A i \in UploadIds, k \in Indices : Saves(handlers[h], i, k) => <<i, k>> \in disturbed'
        BY <1>2, CutOffHolds DEF Saves
      <3> QED BY <1>1, <1>2, <1>6, <3>1, TornKept
    <2>7. RowsAreAccountedFor' BY <1>1 DEF HandsInv, RowsAreAccountedFor
    <2> QED BY <2>3, <2>4, <2>5, <2>6, <2>7 DEF HandsInv
  <1> QED BY <1>5, <1>6, GiveUpMoves

LEMMA CrashHands ==
  ASSUME TypeInv, KeyInv, HandsInv, Crash
  PROVE  HandsInv'
  <1>1. /\ UNCHANGED <<stored, session, part, rows>>
        /\ disturbed' = disturbed \cup CutOff(Handlers)
        /\ \A h \in Handlers : Restarted(h)
        /\ \A t \in Tabs : tabs'[t].id = tabs[t].id
    BY CrashMoves
  <1>2. \A h \in Handlers : /\ handlers'[h].op \in {"none", "chunk"}
                            /\ handlers'[h].op = "chunk" => handlers'[h].tab # None
    BY <1>1, FreeFields, NoneAssumption DEF Restarted
  <1>3. FreshInv' /\ GivenUpInv' /\ BytesInv'
    BY <1>2 DEF FreshInv, InitAnswered, GivenUpInv, BytesInv
  <1>4. SharedInv' BY <1>1, SharedKept
  <1>5. TornInv'
    <2> SUFFICES ASSUME NEW id \in UploadIds, NEW i \in Indices, part[id][i] = Torn
                 PROVE  <<id, i>> \in disturbed'
      BY <1>1 DEF TornInv
    <2>1. CASE <<id, i>> \in disturbed BY <1>1, <2>1
    <2>2. ASSUME NEW h \in Handlers, Saves(handlers[h], id, i)
          PROVE  <<id, i>> \in disturbed'
      BY <1>1, <2>2, CutOffHolds DEF Saves
    <2> QED BY <2>1, <2>2 DEF HandsInv, TornInv
  <1>6. RowsAreAccountedFor' BY <1>1 DEF HandsInv, RowsAreAccountedFor
  <1> QED BY <1>3, <1>4, <1>5, <1>6 DEF HandsInv

LEMMA AgeHands ==
  ASSUME TypeInv, KeyInv, HandsInv, NEW id \in UploadIds, Age(id)
  PROVE  HandsInv'
  <1>1. UNCHANGED <<tabs, stored, part, handlers, rows, disturbed>> /\ SessionsKept
    BY AgeMoves
  <1>2. FreshInv' BY <1>1 DEF HandsInv, FreshInv, InitAnswered, Named
  <1>3. SharedInv' /\ GivenUpInv' BY <1>1 DEF HandsInv, SharedInv, GivenUpInv
  <1>4. TornInv' BY <1>1 DEF HandsInv, TornInv, Saves
  <1>5. BytesInv'
    <2> SUFFICES ASSUME NEW h \in Handlers, NEW i \in Indices, handlers[h].op = "complete",
                        handlers[h].pc = "register"
                 PROVE  IF handlers[h].bytes[i] = Torn THEN <<handlers[h].id, i>> \in disturbed
                        ELSE /\ handlers[h].bytes[i][2] = i
                             /\ resumeKey(handlers[h].bytes[i][1])
                                  = resumeKey(session'[handlers[h].id].file)
      BY <1>1 DEF BytesInv, KeyOf
    <2>1. Known(handlers[h].id) BY DEF TypeInv, LocalsInv, HandlerLocals, Named
    <2>2. resumeKey(session'[handlers[h].id].file) = KeyOf(handlers[h].id)
      BY <1>1, <2>1, KeyKept
    <2> QED BY <2>2 DEF HandsInv, BytesInv
  <1>6. RowsAreAccountedFor' BY <1>1 DEF HandsInv, RowsAreAccountedFor
  <1> QED BY <1>2, <1>3, <1>4, <1>5, <1>6 DEF HandsInv

LEMMA HandsKept == TypeInv /\ KeyInv /\ HandsInv /\ [Next]_vars => HandsInv'
  <1> SUFFICES ASSUME TypeInv, KeyInv, HandsInv, [Next]_vars PROVE HandsInv' OBVIOUS
  <1>1. ASSUME NEW t \in Tabs, NEW f \in Files, NEW h \in Handlers, Click(t, f, h)
        PROVE  HandsInv'
    BY <1>1, ClickHands
  <1>2. ASSUME NEW h \in Handlers, Hear(h) \/ GiveUp(h) PROVE HandsInv'
    BY <1>2, HearHands, GiveUpHands
  <1>3. ASSUME NEW h \in Handlers, Serve(h) \/ Throw(h) PROVE HandsInv'
    <2>1. CASE UploadStatus(h) \/ UpdateCount(h) \/ MarkDone(h) \/ Throw(h)
      BY <2>1, QuietHands
    <2>2. CASE UploadInit(h) BY <2>2, UploadInitHands
    <2>3. CASE OpenChunk(h) \/ SaveChunk(h) BY <2>3, OpenChunkHands, SaveChunkHands
    <2>4. CASE MergeChunks(h) \/ RegisterFile(h) BY <2>4, MergeChunksHands, RegisterFileHands
    <2> QED BY <1>3, <2>1, <2>2, <2>3, <2>4 DEF Serve, UploadChunk, UploadComplete
  <1>4. CASE Crash BY <1>4, CrashHands
  <1>5. ASSUME NEW id \in UploadIds, Age(id) PROVE HandsInv' BY <1>5, AgeHands
  <1>6. CASE UNCHANGED vars
    BY <1>6 DEF vars, HandsInv, FreshInv, InitAnswered, Named, SharedInv, GivenUpInv, TornInv,
                Saves, BytesInv, KeyOf, RowsAreAccountedFor
  <1> QED BY <1>1, <1>2, <1>3, <1>4, <1>5, <1>6 DEF Next, Clicks

\* A registered file is made of its own chunks, each in its place; whatever is missing
\* of one was disturbed.  For any tabs, files, handlers and faults.
THEOREM RowsAccounted == Spec => []RowsAreAccountedFor
  <1>1. HandsInv => RowsAreAccountedFor BY DEF HandsInv
  <1> QED BY <1>1, HandsInit, HandsKept, TypesAlways, KeysAlways, PTL DEF Spec
=============================================================================
