------------------------------- MODULE FileList -------------------------------
(***************************************************************************)
(* A user's list of files: the rows of tbl_file that FileUpload inserts,   *)
(* FileRename and FileDelete update and FileQuery reads page by page, and  *)
(* the table of home.html that loadFiles fills.                            *)
(*                                                                         *)
(* loadFiles reads the page and the keyword, awaits the answer, and then   *)
(* writes the table and the page controls; nothing orders the answers of   *)
(* two calls.  The list changes between two pages, by this browser or by   *)
(* another one: what the page-by-page reader sees is the subject.  Rows    *)
(* are one user's; a row's id is its place in rows.  loadFiles after an    *)
(* upload, a delete or a rename is a Refresh like any other.               *)
(***************************************************************************)
EXTENDS Integers, SequencesExt, FiniteSetsExt

CONSTANTS
  Names, Hashes,
  Collation,                \* the names that are equal to one, to the database
  Keywords, NamesLike(_),   \* what can be searched for, and the names LIKE %keyword%
  Everything,               \* the empty keyword
  PageSize,
  MaxRows, MaxPage, MaxLoads   \* bounds

ASSUME PageAssumption == PageSize \in Nat \ {0} /\ MaxPage \in Nat \ {0}
ASSUME BoundsAssumption == MaxRows \in Nat /\ MaxLoads \in Nat \ {0}
ASSUME CollationAssumption == Collation \in [Names -> SUBSET Names]
ASSUME KeywordAssumption ==
  /\ Everything \in Keywords /\ NamesLike(Everything) = Names
  /\ \A k \in Keywords : NamesLike(k) \subseteq Names

VARIABLES
  rows,      \* tbl_file: name, hash, created_at (to the second) and status
  page,      \* currentPage of home.js
  keyword,   \* currentKeyword
  loads,     \* the calls of loadFiles that wait for their answers
  shown,     \* the table and the page controls
  walk       \* what a reader has seen who pages on from page 1

vars == <<rows, page, keyword, loads, shown, walk>>

Row == [name : Names, hash : Hashes, at : 1 .. MaxRows, live : BOOLEAN]

Ids == 1 .. MaxRows
Answers == Seq(Ids)

\* moved: the rows that have entered or left the list since the answer was read.
\* latest: no later call of loadFiles has been made.
Load == [page : 1 .. MaxPage, keyword : Keywords, served : BOOLEAN, ids : Answers,
         moved : SUBSET Ids, latest : BOOLEAN]

\* The buttons, and, while the table is the answer of the last call of loadFiles, the
\* page and the keyword it was asked for and the number written under it.
Shown == [prev : BOOLEAN, next : BOOLEAN,
          last : {<<>>} \cup (1 .. MaxPage) \X Keywords \X (1 .. MaxPage)]

\* page 0: nobody is reading on.  again: rows met a second time.  ended: a short page came.
Walk == [page : 0 .. MaxPage, keyword : Keywords, seen : SUBSET Ids, again : SUBSET Ids,
         ended : BOOLEAN, moved : SUBSET Ids]

NoWalk == [page |-> 0, keyword |-> Everything, seen |-> {}, again |-> {}, ended |-> FALSE,
           moved |-> {}]

Call(p, k) == [page |-> p, keyword |-> k, served |-> FALSE, ids |-> <<>>,
               moved |-> {}, latest |-> TRUE]

\* The page loads its first list at once; home.html disables only the button back.
Init ==
  /\ rows = <<>>
  /\ page = 1 /\ keyword = Everything
  /\ loads = <<Call(1, Everything)>>
  /\ shown = [prev |-> FALSE, next |-> TRUE, last |-> <<>>]
  /\ walk = NoWalk

-----------------------------------------------------------------------------
(* The service: the query. *)

Live == {i \in DOMAIN rows : rows[i].live}
ListedIn(rs, k) == {i \in DOMAIN rs : rs[i].live /\ rs[i].name \in NamesLike(k)}
Listed(k) == ListedIn(rows, k)

\* Mutant of InOrder: no ORDER BY.
InAnyOrder(s) == TRUE

\* ORDER BY created_at DESC; rows of the same second come in any order.
InOrder(s) == \A i, j \in DOMAIN s : i < j => rows[s[i]].at >= rows[s[j]].at

\* LIMIT ? OFFSET ?
Cut(s, p) == SubSeq(s, (p - 1) * PageSize + 1, IF Len(s) < p * PageSize THEN Len(s) ELSE p * PageSize)

Query(p, k) == {Cut(s, p) : s \in {o \in SetToSeqs(Listed(k)) : InOrder(o)}}

FileQuery(l) ==
  /\ ~loads[l].served
  /\ \E ids \in Query(loads[l].page, loads[l].keyword) :
       loads' = [loads EXCEPT ![l].served = TRUE, ![l].ids = ids]
  /\ UNCHANGED <<rows, page, keyword, shown, walk>>

(* The service: the changes. *)

\* Whoever has read the list does not see what comes and goes then.
Noting(r, rs) ==
  [r EXCEPT !.moved = @ \cup SymDiff(Listed(r.keyword), ListedIn(rs, r.keyword))]

Change(rs) ==
  /\ rows' = rs
  /\ loads' = [l \in DOMAIN loads |-> IF loads[l].served THEN Noting(loads[l], rs) ELSE loads[l]]
  /\ walk' = IF walk.page = 0 THEN walk ELSE Noting(walk, rs)
  /\ UNCHANGED <<page, keyword, shown>>

\* In the second of the row before, or in a later one.
FileUpload(n, h) ==
  /\ Len(rows) < MaxRows
  /\ \E at \in IF rows = <<>> THEN {1} ELSE {Last(rows).at, Last(rows).at + 1} :
       Change(Append(rows, [name |-> n, hash |-> h, at |-> at, live |-> TRUE]))

\* Mutant of Matches: LIMIT 1.
FirstMatch(n, h) ==
  LET all == {i \in Live : Collation[rows[i].name] = Collation[n] /\ rows[i].hash = h}
  IN  {i \in all : \A j \in all : i <= j}

\* WHERE filename = ? AND hashcode = ? AND status = 0: the column's collation, which is
\* the database's, compares names without regard to case.
Matches(n, h) == {i \in Live : Collation[rows[i].name] = Collation[n] /\ rows[i].hash = h}

FileDelete(n, h) ==
  /\ Matches(n, h) # {}
  /\ Change([i \in DOMAIN rows |->
       IF i \in Matches(n, h) THEN [rows[i] EXCEPT !.live = FALSE] ELSE rows[i]])

\* created_at stays.
FileRename(old, new, h) ==
  /\ old # new
  /\ Matches(old, h) # {}
  /\ Change([i \in DOMAIN rows |->
       IF i \in Matches(old, h) THEN [rows[i] EXCEPT !.name = new] ELSE rows[i]])

-----------------------------------------------------------------------------
(* The page. *)

\* loadFiles up to its await.
Start(p, k) ==
  /\ Len(loads) < MaxLoads
  /\ loads' = Append([l \in DOMAIN loads |-> [loads[l] EXCEPT !.latest = FALSE]], Call(p, k))
  /\ shown' = [shown EXCEPT !.last = <<>>]
  /\ UNCHANGED <<rows, walk>>

\* The refresh button, and what the page does once a delete, a rename or an upload was
\* answered with success.
Refresh == Start(page, keyword) /\ UNCHANGED <<page, keyword>>

\* Search and clear.
Search(k) ==
  /\ keyword' = k
  /\ page' = 1
  /\ Start(1, k)

\* Mutant of Prev: the button alone guards the page.
PrevAlways ==
  /\ shown.prev
  /\ page' = page - 1
  /\ Start(page', keyword)
  /\ UNCHANGED keyword

Prev ==
  /\ shown.prev
  /\ page > 1
  /\ page' = page - 1
  /\ Start(page', keyword)
  /\ UNCHANGED keyword

\* Mutant of NextPage: the list is loaded before the page is turned.
NextPageLate ==
  /\ shown.next
  /\ page < MaxPage
  /\ page' = page + 1
  /\ Start(page, keyword)
  /\ UNCHANGED keyword

NextPage ==
  /\ shown.next
  /\ page < MaxPage
  /\ page' = page + 1
  /\ Start(page', keyword)
  /\ UNCHANGED keyword

\* Reading on from page 1: a page is part of the walk if it is the next one.
Reading(load) ==
  LET first == load.page = 1
      on    == load.page = walk.page + 1 /\ load.keyword = walk.keyword /\ ~walk.ended
      w     == IF first THEN [NoWalk EXCEPT !.keyword = load.keyword] ELSE walk
  IN  IF ~(first \/ on) THEN NoWalk
      ELSE [w EXCEPT !.page = load.page,
                     !.seen = @ \cup ToSet(load.ids),
                     !.again = @ \cup (w.seen \cap ToSet(load.ids)),
                     !.ended = Len(load.ids) < PageSize,
                     !.moved = @ \cup load.moved]

\* loadFiles after its await: the number is the page the browser is at by then.
Show(l) ==
  /\ loads[l].served
  /\ shown' = [prev |-> page # 1, next |-> Len(loads[l].ids) = PageSize,
               last |-> IF loads[l].latest THEN <<loads[l].page, loads[l].keyword, page>> ELSE <<>>]
  /\ walk' = Reading(loads[l])
  /\ loads' = RemoveAt(loads, l)
  /\ UNCHANGED <<rows, page, keyword>>

\* The answer is an error: the table is emptied and the controls stay.
ShowError(l) ==
  /\ shown' = [shown EXCEPT !.last = <<>>]
  /\ walk' = NoWalk
  /\ loads' = RemoveAt(loads, l)
  /\ UNCHANGED <<rows, page, keyword>>

\* fetch throws, or the answer is no JSON: nothing is shown.
Lost(l) ==
  /\ loads' = RemoveAt(loads, l)
  /\ UNCHANGED <<rows, page, keyword, shown, walk>>

Next ==
  \/ \E l \in DOMAIN loads : FileQuery(l) \/ Show(l) \/ ShowError(l) \/ Lost(l)
  \/ \E n \in Names, h \in Hashes : FileUpload(n, h) \/ FileDelete(n, h)
  \/ \E old, new \in Names, h \in Hashes : FileRename(old, new, h)
  \/ \E k \in Keywords : Search(k)
  \/ Refresh \/ Prev \/ NextPage

Spec == Init /\ [][Next]_vars

-----------------------------------------------------------------------------
(* What holds. *)

TypeOK ==
  /\ rows \in Seq(Row) /\ Len(rows) <= MaxRows
  /\ page \in 1 .. MaxPage /\ keyword \in Keywords
  /\ loads \in Seq(Load) /\ Len(loads) <= MaxLoads
  /\ shown \in Shown
  /\ walk \in Walk

Tied(i) == \E j \in DOMAIN rows \ {i} : rows[j].at = rows[i].at

\* Who pages on from page 1 meets a row twice, or comes to the end of the list without
\* having met one that is there, only if a row at least as new has come or gone
\* meanwhile, or there are rows of the same second, which change places from page to
\* page (file_service_impl.cpp:57: LIMIT and OFFSET over a live list, ordered by created_at alone).
PagingMeetsEachRowOnce ==
  \A i \in walk.again \cup (IF walk.ended THEN Listed(walk.keyword) \ walk.seen ELSE {}) :
    (\E j \in walk.moved : rows[j].at >= rows[i].at) \/ Tied(i)

\* When the last call of loadFiles has been answered, by a list and after all others, the
\* table holds the page and the keyword the browser is at, under that page's number.
\* (An earlier call answered later overwrites it, under the new number: home.js:83.)
LastCallIsShown ==
  shown.last # <<>> => shown.last = <<page, keyword, page>>

Twins(rs, i, j) ==
  /\ Collation[rs[i].name] = Collation[rs[j].name]
  /\ rs[i].hash = rs[j].hash /\ rs[i].live = rs[j].live

\* Rows of one content whose names differ in nothing but case are never told apart
\* again: a rename or a delete of one is one of all (file_service_impl.cpp:145).
TwinsStayTogether ==
  [][\A i, j \in DOMAIN rows : Twins(rows, i, j) => Twins(rows', i, j)]_vars
============================================================================
