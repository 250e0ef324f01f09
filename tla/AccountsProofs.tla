--------------------------- MODULE AccountsProofs ---------------------------
(***************************************************************************)
(* The theorems about Accounts: types, and that accounts and tokens keep   *)
(* what their answers promised.                                            *)
(*                                                                         *)
(* Rows of tbl_user never change, so what a sign-in has verified stays     *)
(* verified (OwnerInv).  A token's row and the request that inserted it    *)
(* agree (TokenInv), so the purges can be followed through the requests.   *)
(***************************************************************************)
EXTENDS Accounts, TLAPS

-----------------------------------------------------------------------------
(* Types. *)

LEMMA InitTypes == Init => TypeOK
BY TimeAssumption DEF Init, TypeOK, SignupReq, SigninReq, CheckReq, SignupLocals, SigninLocals,
                      CheckLocals

LEMMA SelectNameTypes ==
  ASSUME TypeOK, NEW r \in Signups, NEW n \in Names, NEW p \in Passwords, SelectName(r, n, p)
  PROVE  TypeOK'
<1>1. PICK x \in {"exists", "insert"} :
        signups' = [signups EXCEPT ![r] = [pc |-> x, name |-> n, password |-> p]]
  BY DEF SelectName
<1>2. signups' \in [Signups -> SignupReq] /\ \A s \in Signups : SignupLocals(signups'[s])
  BY <1>1 DEF TypeOK, SignupReq, SignupLocals
<1> QED
  BY <1>2 DEF TypeOK, SelectName

LEMMA InsertUserTypes ==
  ASSUME TypeOK, NEW r \in Signups, InsertUser(r)
  PROVE  TypeOK'
<1>1. NewUser(r) \in UserRow
  BY DEF NewUser, UserRow, Digest, InsertUser, TypeOK, SignupLocals
<1>2. users' \in [Signups -> UserRow \cup {None}]
  BY <1>1 DEF InsertUser, TypeOK
<1>3. PICK x \in {"failed", "ok"} : signups' = [signups EXCEPT ![r].pc = x]
  BY DEF InsertUser
<1>4. signups' \in [Signups -> SignupReq] /\ \A s \in Signups : SignupLocals(signups'[s])
  BY <1>3 DEF TypeOK, SignupReq, SignupLocals, InsertUser
<1> QED
  BY <1>2, <1>4 DEF TypeOK, InsertUser

LEMMA SignupFaultTypes ==
  ASSUME TypeOK, NEW r \in Signups, SignupFault(r)
  PROVE  TypeOK'
<1>1. signups' \in [Signups -> SignupReq] /\ \A s \in Signups : SignupLocals(signups'[s])
  BY DEF TypeOK, SignupReq, SignupLocals, SignupFault
<1> QED
  BY <1>1 DEF TypeOK, SignupFault

\* Replacing one request of Signin by another keeps the types of all.
LEMMA SigninPut ==
  ASSUME TypeOK, NEW r \in Signins, NEW q \in SigninReq, SigninLocals(q),
         signins' = [signins EXCEPT ![r] = q]
  PROVE  signins' \in [Signins -> SigninReq] /\ \A s \in Signins : SigninLocals(signins'[s])
<1>1. signins \in [Signins -> SigninReq] /\ \A s \in Signins : SigninLocals(signins[s])
  BY DEF TypeOK
<1>2. \A s \in Signins : signins'[s] = IF s = r THEN q ELSE signins[s]
  BY <1>1
<1> QED
  BY <1>1, <1>2

LEMMA SelectUserTypes ==
  ASSUME TypeOK, NEW r \in Signins, NEW n \in Names, NEW p \in Passwords, SelectUser(r, n, p)
  PROVE  TypeOK'
<1>1. signins[r] \in SigninReq
  BY DEF TypeOK
<1>2. \/ signins' = [signins EXCEPT ![r] = [signins[r] EXCEPT !.name = n, !.password = p, !.pc = "refused"]]
      \/ \E u \in Signups, x \in {"purge", "refused"} :
           signins' = [signins EXCEPT ![r] =
                         [signins[r] EXCEPT !.name = n, !.password = p, !.uid = u, !.pc = x]]
  BY DEF SelectUser
<1>3. signins' \in [Signins -> SigninReq] /\ \A s \in Signins : SigninLocals(signins'[s])
  <2>1. ASSUME signins' = [signins EXCEPT ![r] =
                             [signins[r] EXCEPT !.name = n, !.password = p, !.pc = "refused"]]
        PROVE  signins' \in [Signins -> SigninReq] /\ \A s \in Signins : SigninLocals(signins'[s])
    <3> DEFINE q == [signins[r] EXCEPT !.name = n, !.password = p, !.pc = "refused"]
    <3>1. q \in SigninReq /\ q.pc = "refused"
      BY <1>1 DEF SigninReq
    <3>2. SigninLocals(q)
      BY <3>1 DEF SigninLocals
    <3> HIDE DEF q
    <3> QED
      BY <2>1, <3>1, <3>2, SigninPut DEF q
  <2>2. ASSUME NEW u \in Signups, NEW x \in {"purge", "refused"},
               signins' = [signins EXCEPT ![r] =
                             [signins[r] EXCEPT !.name = n, !.password = p, !.uid = u, !.pc = x]]
        PROVE  signins' \in [Signins -> SigninReq] /\ \A s \in Signins : SigninLocals(signins'[s])
    <3> DEFINE q == [signins[r] EXCEPT !.name = n, !.password = p, !.uid = u, !.pc = x]
    <3>1. q \in SigninReq /\ q.name = n /\ q.password = p /\ q.uid = u
      BY <1>1 DEF SigninReq
    <3>2. SigninLocals(q)
      BY <3>1 DEF SigninLocals
    <3> HIDE DEF q
    <3> QED
      BY <2>2, <3>1, <3>2, SigninPut DEF q
  <2> QED
    BY <1>2, <2>1, <2>2
<1> QED
  BY <1>3 DEF TypeOK, SelectUser

LEMMA PurgeTypes ==
  ASSUME TypeOK, NEW r \in Signins, PurgeTokens(r)
  PROVE  TypeOK'
<1>1. signins' \in [Signins -> SigninReq] /\ \A s \in Signins : SigninLocals(signins'[s])
  <2> DEFINE q == [signins[r] EXCEPT !.pc = "insert", !.purged = now]
  <2>1. signins[r] \in SigninReq /\ SigninLocals(signins[r]) /\ now \in Nat /\ signins[r].pc = "purge"
    BY DEF TypeOK, PurgeTokens
  <2>2. q \in SigninReq /\ SigninLocals(q)
    BY <2>1 DEF SigninReq, SigninLocals
  <2>3. signins' = [signins EXCEPT ![r] = q]
    BY <2>1 DEF PurgeTokens, TypeOK
  <2> HIDE DEF q
  <2> QED
    BY <2>2, <2>3, SigninPut
<1>2. tokens' \in [Signins -> TokenRow \cup {None}]
  BY DEF TypeOK, PurgeTokens
<1> QED
  BY <1>1, <1>2 DEF TypeOK, PurgeTokens

LEMMA InsertTokenTypes ==
  ASSUME TypeOK, NEW r \in Signins, InsertToken(r)
  PROVE  TypeOK'
<1>1. now + TTL \in Nat
  BY TimeAssumption DEF TypeOK
<1>2. signins' \in [Signins -> SigninReq] /\ \A s \in Signins : SigninLocals(signins'[s])
  <2> DEFINE q == [signins[r] EXCEPT !.pc = "ok", !.expires = now + TTL]
  <2>1. signins[r] \in SigninReq /\ SigninLocals(signins[r]) /\ signins[r].pc = "insert"
    BY DEF TypeOK, InsertToken
  <2>2. q \in SigninReq /\ SigninLocals(q)
    BY <1>1, <2>1 DEF SigninReq, SigninLocals
  <2>3. signins' = [signins EXCEPT ![r] = q]
    BY <2>1 DEF InsertToken, TypeOK
  <2> HIDE DEF q
  <2> QED
    BY <2>2, <2>3, SigninPut
<1>3. [uid |-> signins[r].uid, expires |-> now + TTL] \in TokenRow
  BY <1>1 DEF TypeOK, SigninReq, SigninLocals, InsertToken, TokenRow
<1>4. tokens' \in [Signins -> TokenRow \cup {None}]
  BY <1>3 DEF TypeOK, InsertToken
<1> QED
  BY <1>2, <1>4 DEF TypeOK, InsertToken

LEMMA SigninFaultTypes ==
  ASSUME TypeOK, NEW r \in Signins, SigninFault(r)
  PROVE  TypeOK'
<1>1. signins' \in [Signins -> SigninReq] /\ \A s \in Signins : SigninLocals(signins'[s])
  BY DEF TypeOK, SigninReq, SigninLocals, SigninFault
<1> QED
  BY <1>1 DEF TypeOK, SigninFault

LEMMA CheckTypes ==
  ASSUME TypeOK, NEW c \in Checks, NEW n \in Names, NEW t \in Signins, CheckToken(c, n, t)
  PROVE  TypeOK'
<1>1. \E x \in {"refused", "accepted"}, u \in Signups \cup {None} :
        /\ checks' = [checks EXCEPT ![c] = [pc |-> x, name |-> n, token |-> t, uid |-> u, at |-> now]]
        /\ x = "accepted" => u \in Signups
  BY DEF CheckToken
<1>2. checks' \in [Checks -> CheckReq] /\ \A d \in Checks : CheckLocals(checks'[d])
  BY <1>1 DEF TypeOK, CheckReq, CheckLocals
<1> QED
  BY <1>2 DEF TypeOK, CheckToken

LEMMA ShowTypes ==
  ASSUME TypeOK, NEW c \in Checks, ShowUser(c)
  PROVE  TypeOK'
<1>1. PICK x \in {"shown", "missing", "failed"} : checks' = [checks EXCEPT ![c].pc = x]
  BY DEF ShowUser
<1>2. checks' \in [Checks -> CheckReq] /\ \A d \in Checks : CheckLocals(checks'[d])
  BY <1>1 DEF TypeOK, CheckReq, CheckLocals, ShowUser
<1> QED
  BY <1>2 DEF TypeOK, ShowUser

\* What a dying process leaves of its handlers.
LEMMA LostTypes ==
  ASSUME TypeOK
  PROVE  /\ Lost(signups, {"insert"}) \in [Signups -> SignupReq]
         /\ \A r \in Signups : SignupLocals(Lost(signups, {"insert"})[r])
         /\ Lost(signins, {"purge", "insert"}) \in [Signins -> SigninReq]
         /\ \A r \in Signins : SigninLocals(Lost(signins, {"purge", "insert"})[r])
<1>1. /\ Lost(signups, {"insert"}) \in [Signups -> SignupReq]
      /\ \A r \in Signups : SignupLocals(Lost(signups, {"insert"})[r])
  BY DEF TypeOK, Lost, SignupReq, SignupLocals
<1>2. /\ Lost(signins, {"purge", "insert"}) \in [Signins -> SigninReq]
      /\ \A r \in Signins : SigninLocals(Lost(signins, {"purge", "insert"})[r])
  BY DEF TypeOK, Lost, SigninReq, SigninLocals
<1> QED
  BY <1>1, <1>2

LEMMA CrashTypes == ASSUME TypeOK, Crash PROVE TypeOK'
<1>1. crashes' \in 0 .. MaxCrashes
  BY TimeAssumption DEF TypeOK, Crash
<1> QED
  BY <1>1, LostTypes DEF TypeOK, Crash

LEMMA ThrowTypes ==
  ASSUME TypeOK, NEW c \in Checks, CheckThrows(c)
  PROVE  TypeOK'
<1>1. checks' \in [Checks -> CheckReq] /\ \A d \in Checks : CheckLocals(checks'[d])
  BY DEF TypeOK, CheckReq, CheckLocals, CheckThrows
<1>2. crashes' \in 0 .. MaxCrashes
  BY TimeAssumption DEF TypeOK, CheckThrows
<1>3. /\ signups' \in [Signups -> SignupReq] /\ \A r \in Signups : SignupLocals(signups'[r])
      /\ signins' \in [Signins -> SigninReq] /\ \A r \in Signins : SigninLocals(signins'[r])
  BY LostTypes DEF TypeOK, CheckThrows
<1> QED
  BY <1>1, <1>2, <1>3 DEF TypeOK, CheckThrows

LEMMA TypeStep == ASSUME TypeOK, [Next]_vars PROVE TypeOK'
<1>1. ASSUME NEW r \in Signups, Signup(r) PROVE TypeOK'
  BY <1>1, SelectNameTypes, InsertUserTypes, SignupFaultTypes DEF Signup
<1>2. ASSUME NEW r \in Signins, Signin(r) PROVE TypeOK'
  BY <1>2, SelectUserTypes, PurgeTypes, InsertTokenTypes, SigninFaultTypes DEF Signin
<1>3. ASSUME NEW c \in Checks, GetUserInfo(c) PROVE TypeOK'
  BY <1>3, CheckTypes, ShowTypes, ThrowTypes DEF GetUserInfo
<1>4. CASE Tick
  BY <1>4, TimeAssumption DEF Tick, TypeOK, handlers
<1>5. CASE UNCHANGED vars
  BY <1>5 DEF TypeOK, vars, handlers
<1> QED
  BY <1>1, <1>2, <1>3, <1>4, <1>5, CrashTypes DEF Next

\* The tables of tbl_user and tbl_user_token and the locals of the four handlers
\* keep their types.
THEOREM AccountsTypeCorrect == Spec => []TypeOK
BY InitTypes, TypeStep, PTL DEF Spec

-----------------------------------------------------------------------------
(* Rows of tbl_user. *)

\* The UNIQUE key.
OneRowPerName ==
  \A u, v \in Signups, n \in Names : Named(u, n) /\ Named(v, n) => u = v

\* A request inserts its row at its last step, and its row is what it was sent.
SignupInv ==
  \A s \in Signups :
    /\ signups[s].pc \in {"idle", "insert"} => users[s] = None
    /\ signups[s].pc = "ok" =>
         /\ Named(s, signups[s].name)
         /\ users[s].salt = s /\ users[s].hash = Digest(signups[s].password, s)

UserInv == OneRowPerName /\ SignupInv

\* What a step does to the sign-ups' requests when it is none of their statements.
SignupsRest ==
  \A s \in Signups : \/ signups'[s] = signups[s]
                     \/ /\ signups[s].pc = "insert"
                        /\ signups'[s].pc \in {"failed", "lost"}

LEMMA OthersLeaveSignups ==
  ASSUME TypeOK, [Next]_vars, \A r \in Signups : ~Signup(r)
  PROVE  SignupsRest /\ UNCHANGED users
<1>1. ASSUME signups' = Lost(signups, {"insert"}) PROVE SignupsRest
  BY <1>1 DEF Lost, SignupsRest, TypeOK, SignupReq
<1>2. ASSUME NEW r \in Signins, Signin(r) PROVE UNCHANGED <<users, signups>>
  BY <1>2 DEF Signin, SelectUser, PurgeTokens, InsertToken, SigninFault
<1>3. ASSUME NEW c \in Checks, GetUserInfo(c)
      PROVE  /\ UNCHANGED users
             /\ signups' = signups \/ signups' = Lost(signups, {"insert"})
  BY <1>3 DEF GetUserInfo, CheckToken, ShowUser, CheckThrows
<1> QED
  BY <1>1, <1>2, <1>3 DEF Next, Tick, Crash, vars, handlers, SignupsRest

\* What a row of tbl_user is, it stays.
LEMMA UsersKept ==
  ASSUME TypeOK, SignupInv, [Next]_vars, NEW u \in Signups, users[u] # None
  PROVE  users'[u] = users[u]
<1>1. ASSUME NEW r \in Signups, Signup(r) PROVE users'[u] = users[u]
  BY <1>1 DEF Signup, SelectName, InsertUser, SignupFault, SignupInv, TypeOK
<1> QED
  BY <1>1, OthersLeaveSignups

LEMMA NamedKept ==
  ASSUME TypeOK, SignupInv, [Next]_vars, NEW u \in Signups, NEW n \in Names, Named(u, n)
  PROVE  Named(u, n)' /\ users'[u] = users[u]
BY UsersKept DEF Named

LEMMA InsertKeepsUnique ==
  ASSUME TypeOK, OneRowPerName, NEW r \in Signups, InsertUser(r)
  PROVE  OneRowPerName'
<1>1. CASE \E u \in Signups : Named(u, signups[r].name)
  BY <1>1 DEF InsertUser, OneRowPerName, Named
<1>2. CASE \A u \in Signups : ~Named(u, signups[r].name)
  <2>1. signups[r].name \in Names /\ NewUser(r).name = signups[r].name
    BY DEF TypeOK, SignupLocals, InsertUser, NewUser
  <2>2. \A u \in Signups : users'[u] = IF u = r THEN NewUser(r) ELSE users[u]
    BY <1>2 DEF InsertUser, TypeOK
  <2>3. ASSUME NEW u \in Signups, NEW n \in Names, Named(u, n)', Named(r, n)', u # r
        PROVE  FALSE
    <3>1. Named(u, n) /\ Collation[signups[r].name] = Collation[n]
      BY <2>1, <2>2, <2>3 DEF Named
    <3>2. Named(u, signups[r].name)
      BY <3>1 DEF Named
    <3> QED
      BY <1>2, <3>2
  <2>4. ASSUME NEW u \in Signups, NEW v \in Signups, NEW n \in Names,
               Named(u, n)', Named(v, n)', u # r, v # r
        PROVE  u = v
    BY <2>2, <2>4 DEF Named, OneRowPerName
  <2> QED
    BY <2>3, <2>4 DEF OneRowPerName
<1> QED
  BY <1>1, <1>2

LEMMA InsertFulfils ==
  ASSUME TypeOK, SignupInv, NEW r \in Signups, InsertUser(r)
  PROVE  SignupInv'
<1>1. CASE \E u \in Signups : Named(u, signups[r].name)
  BY <1>1 DEF InsertUser, SignupInv, Named, TypeOK, SignupReq
<1>2. CASE \A u \in Signups : ~Named(u, signups[r].name)
  <2>1. \A s \in Signups : users'[s] = IF s = r THEN NewUser(r) ELSE users[s]
    BY <1>2 DEF InsertUser, TypeOK
  <2>2. /\ signups'[r].pc = "ok"
        /\ signups'[r].name = signups[r].name /\ signups'[r].password = signups[r].password
        /\ \A s \in Signups : s # r => signups'[s] = signups[s]
    BY <1>2 DEF InsertUser, TypeOK, SignupReq
  <2>3. NewUser(r) \in UserRow
    BY DEF NewUser, UserRow, Digest, InsertUser, TypeOK, SignupLocals
  <2>4. /\ NewUser(r) # None /\ NewUser(r).name = signups[r].name
        /\ NewUser(r).salt = r /\ NewUser(r).hash = Digest(signups[r].password, r)
    BY <2>3, NoneAssumption DEF NewUser
  <2>5. ASSUME NEW s \in Signups, s # r
        PROVE  /\ signups'[s].pc \in {"idle", "insert"} => users'[s] = None
               /\ signups'[s].pc = "ok" =>
                    /\ Named(s, signups[s].name)'
                    /\ users'[s].salt = s /\ users'[s].hash = Digest(signups'[s].password, s)
    BY <2>1, <2>2, <2>5 DEF SignupInv, Named
  <2>6. Named(r, signups[r].name)' /\ users'[r] = NewUser(r)
    BY <2>1, <2>2, <2>4 DEF Named
  <2> QED
    BY <2>2, <2>4, <2>5, <2>6 DEF SignupInv
<1> QED
  BY <1>1, <1>2

LEMMA UserStep == ASSUME TypeOK, UserInv, [Next]_vars PROVE UserInv'
<1>1. ASSUME NEW r \in Signups, InsertUser(r) PROVE UserInv'
  BY <1>1, InsertKeepsUnique, InsertFulfils DEF UserInv
<1>2. ASSUME NEW r \in Signups, NEW n \in Names, NEW p \in Passwords, SelectName(r, n, p)
      PROVE  UserInv'
  <2>1. /\ UNCHANGED users /\ signups[r].pc = "idle" /\ signups'[r].pc \in {"exists", "insert"}
        /\ \A s \in Signups : s # r => signups'[s] = signups[s]
    BY <1>2 DEF SelectName, TypeOK
  <2> QED
    BY <2>1 DEF UserInv, OneRowPerName, SignupInv, Named
<1>3. ASSUME NEW r \in Signups, SignupFault(r) PROVE UserInv'
  <2>1. /\ UNCHANGED users /\ signups'[r].pc = "failed"
        /\ \A s \in Signups : s # r => signups'[s] = signups[s]
    BY <1>3 DEF SignupFault, TypeOK, SignupReq
  <2> QED
    BY <2>1 DEF UserInv, OneRowPerName, SignupInv, Named
<1>4. CASE \A r \in Signups : ~Signup(r)
  BY <1>4, OthersLeaveSignups DEF UserInv, OneRowPerName, SignupInv, Named, SignupsRest
<1> QED
  BY <1>1, <1>2, <1>3, <1>4 DEF Signup

LEMMA InitUsers == Init => UserInv
BY DEF Init, UserInv, OneRowPerName, SignupInv, Named

LEMMA RefusalIsRight ==
  ASSUME TypeOK, UserInv, NEW r \in Signins, NEW n \in Names, NEW p \in Passwords,
         SelectUser(r, n, p), signins'[r].pc = "refused",
         NEW s \in Signups, signups[s].pc = "ok",
         Collation[signups[s].name] = Collation[n], signups[s].password = p
  PROVE  FALSE
<1>1. /\ users[s] # None /\ Collation[users[s].name] = Collation[signups[s].name]
      /\ users[s].salt = s /\ users[s].hash = Digest(p, s)
  BY DEF UserInv, SignupInv, Named
<1>2. Named(s, n)
  BY <1>1 DEF Named
<1>3. PICK u \in Signups :
        /\ Named(u, n)
        /\ signins' = [signins EXCEPT ![r] = [@ EXCEPT !.name = n, !.password = p, !.uid = u,
             !.pc = IF Digest(p, users[u].salt) = users[u].hash THEN "purge" ELSE "refused"]]
  BY <1>2 DEF SelectUser
<1>4. u = s
  BY <1>2, <1>3 DEF UserInv, OneRowPerName
<1>5. signins'[r].pc = "purge"
  BY <1>1, <1>3, <1>4 DEF TypeOK, SigninReq
<1> QED
  BY <1>5

\* What SelectUser leaves in the request.
LEMMA SelectUserDoes ==
  ASSUME TypeOK, NEW r \in Signins, NEW n \in Names, NEW p \in Passwords, SelectUser(r, n, p)
  PROVE  /\ signins'[r].name = n /\ signins'[r].password = p
         /\ signins'[r].pc \in {"purge", "refused"}
         /\ signins'[r].pc = "purge" =>
              /\ signins'[r].uid \in Signups /\ Named(signins'[r].uid, n)
              /\ users[signins'[r].uid].hash = Digest(p, users[signins'[r].uid].salt)
<1>1. signins[r] \in SigninReq /\ DOMAIN signins = Signins
  BY DEF TypeOK
<1>2. CASE \A u \in Signups : ~Named(u, n)
  <2> DEFINE q == [signins[r] EXCEPT !.name = n, !.password = p, !.pc = "refused"]
  <2>1. q.name = n /\ q.password = p /\ q.pc = "refused"
    BY <1>1 DEF SigninReq
  <2>2. signins'[r] = q
    BY <1>1, <1>2 DEF SelectUser
  <2> HIDE DEF q
  <2> QED
    BY <2>1, <2>2
<1>3. ASSUME NEW u \in Signups, Named(u, n),
             signins' = [signins EXCEPT ![r] = [@ EXCEPT !.name = n, !.password = p, !.uid = u,
               !.pc = IF Digest(p, users[u].salt) = users[u].hash THEN "purge" ELSE "refused"]]
      PROVE  /\ signins'[r].name = n /\ signins'[r].password = p
             /\ signins'[r].pc \in {"purge", "refused"}
             /\ signins'[r].pc = "purge" =>
                  /\ signins'[r].uid \in Signups /\ Named(signins'[r].uid, n)
                  /\ users[signins'[r].uid].hash = Digest(p, users[signins'[r].uid].salt)
  <2> DEFINE x == IF Digest(p, users[u].salt) = users[u].hash THEN "purge" ELSE "refused"
             q == [signins[r] EXCEPT !.name = n, !.password = p, !.uid = u, !.pc = x]
  <2>1. q.name = n /\ q.password = p /\ q.pc = x /\ q.uid = u
    BY <1>1 DEF SigninReq
  <2>2. signins'[r] = q
    BY <1>1, <1>3
  <2>3. x \in {"purge", "refused"} /\ (x = "purge" => users[u].hash = Digest(p, users[u].salt))
    OBVIOUS
  <2> HIDE DEF q, x
  <2> QED
    BY <1>3, <2>1, <2>2, <2>3
<1> QED
  BY <1>2, <1>3 DEF SelectUser

LEMMA OnlySelectRefuses ==
  ASSUME TypeOK, [Next]_vars, NEW r \in Signins,
         signins[r].pc = "idle", signins'[r].pc = "refused"
  PROVE  \E n \in Names, p \in Passwords : SelectUser(r, n, p)
<1>1. ASSUME NEW q \in Signins, Signin(q), q # r PROVE FALSE
  BY <1>1 DEF Signin, SelectUser, PurgeTokens, InsertToken, SigninFault, TypeOK
<1>2. ASSUME PurgeTokens(r) \/ InsertToken(r) \/ SigninFault(r) PROVE FALSE
  BY <1>2 DEF PurgeTokens, InsertToken, SigninFault
<1>3. ASSUME UNCHANGED signins PROVE FALSE
  BY <1>3
<1>4. ASSUME signins' = Lost(signins, {"purge", "insert"}) PROVE FALSE
  BY <1>4 DEF Lost, TypeOK
<1>5. ASSUME NEW q \in Signups, Signup(q) PROVE FALSE
  BY <1>3, <1>5 DEF Signup, SelectName, InsertUser, SignupFault
<1>6. ASSUME NEW c \in Checks, GetUserInfo(c) PROVE FALSE
  BY <1>3, <1>4, <1>6 DEF GetUserInfo, CheckToken, ShowUser, CheckThrows
<1> QED
  BY <1>1, <1>2, <1>3, <1>4, <1>5, <1>6 DEF Next, Signin, Tick, Crash, vars, handlers

\* Whoever was told that a sign-up succeeded is not refused when signing in with its
\* password, in any spelling of the name, however sign-ups raced at the UNIQUE key.
THEOREM SignupsStand == Spec => SignupStands
<1>1. ASSUME TypeOK, UserInv, [Next]_vars, NEW r \in Signins,
             signins[r].pc = "idle", signins'[r].pc = "refused",
             NEW s \in Signups, signups[s].pc = "ok",
             Collation[signups[s].name] = Collation[signins'[r].name],
             signups[s].password = signins'[r].password
      PROVE  FALSE
  BY <1>1, OnlySelectRefuses, SelectUserDoes, RefusalIsRight
<1>2. Init => UserInv /\ TypeOK
  BY InitUsers, InitTypes
<1>3. TypeOK /\ UserInv /\ [Next]_vars => TypeOK' /\ UserInv'
  BY TypeStep, UserStep
<1>4. TypeOK /\ UserInv /\ [Next]_vars =>
        [\A r \in Signins :
           signins[r].pc = "idle" /\ signins'[r].pc = "refused" =>
             ~\E s \in Signups :
                /\ signups[s].pc = "ok"
                /\ Collation[signups[s].name] = Collation[signins'[r].name]
                /\ signups[s].password = signins'[r].password]_vars
  BY <1>1
<1> QED
  BY <1>2, <1>3, <1>4, PTL DEF Spec, SignupStands

-----------------------------------------------------------------------------
(* Tokens. *)

\* What a step does to one request of Signin.
LEMMA SigninMoves ==
  ASSUME TypeOK, [Next]_vars, NEW r \in Signins
  PROVE  \/ signins'[r] = signins[r]
         \/ \E n \in Names, p \in Passwords : SelectUser(r, n, p)
         \/ PurgeTokens(r)
         \/ InsertToken(r)
         \/ signins[r].pc \in {"purge", "insert"} /\ signins'[r].pc \in {"failed", "lost"}
<1>1. ASSUME signins' = Lost(signins, {"purge", "insert"})
      PROVE  \/ signins'[r] = signins[r]
             \/ signins[r].pc \in {"purge", "insert"} /\ signins'[r].pc \in {"failed", "lost"}
  BY <1>1 DEF Lost, TypeOK, SigninReq
<1>2. ASSUME NEW q \in Signins, Signin(q), q # r PROVE signins'[r] = signins[r]
  BY <1>2 DEF Signin, SelectUser, PurgeTokens, InsertToken, SigninFault, TypeOK
<1>3. ASSUME SigninFault(r)
      PROVE  signins[r].pc \in {"purge", "insert"} /\ signins'[r].pc \in {"failed", "lost"}
  BY <1>3 DEF SigninFault, TypeOK, SigninReq
<1>4. ASSUME NEW q \in Signups, Signup(q) PROVE UNCHANGED signins
  BY <1>4 DEF Signup, SelectName, InsertUser, SignupFault
<1>5. ASSUME NEW c \in Checks, GetUserInfo(c)
      PROVE  UNCHANGED signins \/ signins' = Lost(signins, {"purge", "insert"})
  BY <1>5 DEF GetUserInfo, CheckToken, ShowUser, CheckThrows
<1> QED
  BY <1>1, <1>2, <1>3, <1>4, <1>5 DEF Next, Signin, Tick, Crash, vars, handlers

\* The clock does not run backwards; tbl_user_token is Signin's alone.
LEMMA TokensRest ==
  ASSUME TypeOK, [Next]_vars
  PROVE  /\ now' \in Nat /\ now <= now'
         /\ \/ UNCHANGED tokens
            \/ \E r \in Signins : PurgeTokens(r) \/ InsertToken(r)
<1>1. ASSUME NEW r \in Signins, Signin(r)
      PROVE  UNCHANGED now /\ (UNCHANGED tokens \/ PurgeTokens(r) \/ InsertToken(r))
  BY <1>1 DEF Signin, SelectUser, PurgeTokens, InsertToken, SigninFault
<1>2. ASSUME NEW q \in Signups, Signup(q) PROVE UNCHANGED <<now, tokens>>
  BY <1>2 DEF Signup, SelectName, InsertUser, SignupFault
<1>3. ASSUME NEW c \in Checks, GetUserInfo(c) PROVE UNCHANGED <<now, tokens>>
  BY <1>3 DEF GetUserInfo, CheckToken, ShowUser, CheckThrows
<1>4. now \in Nat
  BY DEF TypeOK
<1> QED
  BY <1>1, <1>2, <1>3, <1>4 DEF Next, Tick, Crash, vars, handlers

\* The password of a request past its check is the one its user's row was made from.
Owner(q) ==
  q.pc \in {"purge", "insert", "ok"} =>
    Named(q.uid, q.name) /\ users[q.uid].hash = Digest(q.password, users[q.uid].salt)

OwnerInv == \A r \in Signins : Owner(signins[r])

LEMMA PurgeRecord ==
  ASSUME TypeOK, NEW r \in Signins, PurgeTokens(r)
  PROVE  /\ signins[r].pc = "purge" /\ signins'[r].pc = "insert" /\ signins'[r].purged = now
         /\ signins'[r].uid = signins[r].uid /\ signins'[r].name = signins[r].name
         /\ signins'[r].password = signins[r].password
         /\ \A s \in Signins : s # r => signins'[s] = signins[s]
BY DEF PurgeTokens, TypeOK, SigninReq

LEMMA InsertRecord ==
  ASSUME TypeOK, NEW r \in Signins, InsertToken(r)
  PROVE  /\ signins[r].pc = "insert" /\ signins'[r].pc = "ok"
         /\ signins'[r].expires = now + TTL /\ signins'[r].purged = signins[r].purged
         /\ signins'[r].uid = signins[r].uid /\ signins'[r].name = signins[r].name
         /\ signins'[r].password = signins[r].password
         /\ \A s \in Signins : s # r => signins'[s] = signins[s]
BY DEF InsertToken, TypeOK, SigninReq

LEMMA OwnerStep ==
  ASSUME TypeOK, UserInv, OwnerInv, [Next]_vars
  PROVE  OwnerInv'
<1> SUFFICES ASSUME NEW r \in Signins, signins'[r].pc \in {"purge", "insert", "ok"}
             PROVE  /\ Named(signins[r].uid, signins[r].name)'
                    /\ users'[signins'[r].uid].hash
                         = Digest(signins'[r].password, users'[signins'[r].uid].salt)
  BY DEF OwnerInv, Owner
<1>1. CASE \E n \in Names, p \in Passwords : SelectUser(r, n, p)
  <2>1. PICK n \in Names, p \in Passwords : SelectUser(r, n, p)
    BY <1>1
  <2>2. UNCHANGED users
    BY <2>1 DEF SelectUser
  <2> QED
    BY <2>1, <2>2, SelectUserDoes DEF Named
<1>2. CASE /\ signins[r].pc \in {"purge", "insert", "ok"}
           /\ signins'[r].uid = signins[r].uid /\ signins'[r].name = signins[r].name
           /\ signins'[r].password = signins[r].password
  <2>1. signins[r].uid \in Signups /\ signins[r].name \in Names
    BY <1>2 DEF TypeOK, SigninLocals
  <2>2. /\ Named(signins[r].uid, signins[r].name)
        /\ users[signins[r].uid].hash = Digest(signins[r].password, users[signins[r].uid].salt)
    BY <1>2 DEF OwnerInv, Owner
  <2>3. users[signins[r].uid] # None
    BY <2>2 DEF Named
  <2>4. users'[signins[r].uid] = users[signins[r].uid]
    BY <2>1, <2>3, UsersKept DEF UserInv
  <2> QED
    BY <1>2, <2>2, <2>4 DEF Named
<1> QED
  BY <1>1, <1>2, SigninMoves, PurgeRecord, InsertRecord

\* The row of a token is its request's, and no purge is ahead of the clock.
TokenInv ==
  \A t \in Signins :
    /\ tokens[t] # None => /\ signins[t].pc = "ok"
                           /\ tokens[t].uid = signins[t].uid
                           /\ tokens[t].expires = signins[t].expires
    /\ signins[t].pc \in {"insert", "ok"} => signins[t].purged <= now

\* OldTokensGone holds from the purge on.
PurgedInv ==
  \A r, t \in Signins :
    signins[r].pc \in {"insert", "ok"} /\ tokens[t] # None /\ tokens[t].uid = signins[r].uid =>
      tokens[t].expires >= signins[r].purged

SessionInv == TokenInv /\ PurgedInv /\ TokensLast

LEMMA PurgeKeepsSessions ==
  ASSUME TypeOK, SessionInv, NEW q \in Signins, PurgeTokens(q)
  PROVE  SessionInv'
<1>1. /\ signins[q].pc = "purge" /\ signins'[q].pc = "insert" /\ signins'[q].purged = now
      /\ signins'[q].uid = signins[q].uid
      /\ \A s \in Signins : s # q => signins'[s] = signins[s]
  BY PurgeRecord
<1>2. /\ now' = now /\ now \in Nat
      /\ \A t \in Signins : tokens'[t] = IF Expired(t, signins[q].uid) THEN None ELSE tokens[t]
  BY DEF PurgeTokens, TypeOK
<1>3. \A t \in Signins : tokens[t] # None => tokens[t].expires \in Nat
  BY DEF TypeOK, TokenRow
<1>4. \A t \in Signins : tokens'[t] # None => tokens'[t] = tokens[t] /\ t # q
  BY <1>1, <1>2 DEF SessionInv, TokenInv
<1>5. TokenInv'
  BY <1>1, <1>2, <1>4 DEF SessionInv, TokenInv
<1>6. PurgedInv'
  <2> SUFFICES ASSUME NEW r \in Signins, NEW t \in Signins, signins'[r].pc \in {"insert", "ok"},
                      tokens'[t] # None, tokens'[t].uid = signins'[r].uid
               PROVE  tokens'[t].expires >= signins'[r].purged
    BY DEF PurgedInv
  <2>1. CASE r = q
    <3>1. tokens[t] # None /\ tokens[t].uid = signins[q].uid /\ ~Expired(t, signins[q].uid)
      BY <1>1, <1>2, <1>4, <2>1
    <3> QED
      BY <1>1, <1>2, <1>3, <1>4, <2>1, <3>1 DEF Expired
  <2>2. CASE r # q
    BY <1>1, <1>4, <2>2 DEF SessionInv, PurgedInv
  <2> QED
    BY <2>1, <2>2
<1>7. TokensLast'
  <2> SUFFICES ASSUME NEW t \in Signins, signins'[t].pc = "ok", now' <= signins'[t].expires
               PROVE  tokens'[t] # None
    BY DEF TokensLast
  <2>1. t # q /\ signins[t].pc = "ok" /\ now <= signins[t].expires
    BY <1>1, <1>2
  <2>2. tokens[t] # None /\ tokens[t].expires = signins[t].expires
    BY <2>1 DEF SessionInv, TokensLast, TokenInv
  <2> QED
    BY <1>2, <1>3, <2>1, <2>2 DEF Expired
<1> QED
  BY <1>5, <1>6, <1>7 DEF SessionInv

LEMMA InsertKeepsSessions ==
  ASSUME TypeOK, SessionInv, NEW q \in Signins, InsertToken(q)
  PROVE  SessionInv'
<1> DEFINE row == [uid |-> signins[q].uid, expires |-> now + TTL]
<1>1. /\ signins[q].pc = "insert" /\ signins'[q].pc = "ok" /\ signins'[q].expires = now + TTL
      /\ signins'[q].purged = signins[q].purged /\ signins'[q].uid = signins[q].uid
      /\ \A s \in Signins : s # q => signins'[s] = signins[s]
  BY InsertRecord
<1>2. /\ now' = now /\ now \in Nat /\ now + TTL \in Nat /\ now <= now + TTL
      /\ \A t \in Signins : tokens'[t] = IF t = q THEN row ELSE tokens[t]
  BY TimeAssumption DEF InsertToken, TypeOK
<1>3. row # None /\ row.uid = signins[q].uid /\ row.expires = now + TTL
  <2>1. row \in TokenRow
    BY <1>1, <1>2 DEF TypeOK, SigninLocals, TokenRow
  <2> QED
    BY <2>1, NoneAssumption
<1> HIDE DEF row
<1>4. \A s \in Signins : signins[s].purged \in Nat
  BY DEF TypeOK, SigninReq
<1>5. TokenInv'
  BY <1>1, <1>2, <1>3 DEF SessionInv, TokenInv
<1>6. PurgedInv'
  <2> SUFFICES ASSUME NEW r \in Signins, NEW t \in Signins, signins'[r].pc \in {"insert", "ok"},
                      tokens'[t] # None, tokens'[t].uid = signins'[r].uid
               PROVE  tokens'[t].expires >= signins'[r].purged
    BY DEF PurgedInv
  <2>1. /\ signins[r].pc \in {"insert", "ok"} /\ signins'[r].purged = signins[r].purged
        /\ signins'[r].uid = signins[r].uid
    BY <1>1
  <2>2. CASE t = q
    <3>1. signins[r].purged <= now
      BY <2>1 DEF SessionInv, TokenInv
    <3> QED
      BY <1>2, <1>3, <1>4, <2>1, <2>2, <3>1
  <2>3. CASE t # q
    BY <1>2, <2>1, <2>3 DEF SessionInv, PurgedInv
  <2> QED
    BY <2>2, <2>3
<1>7. TokensLast'
  BY <1>1, <1>2, <1>3 DEF SessionInv, TokensLast
<1> QED
  BY <1>5, <1>6, <1>7 DEF SessionInv

\* A step that is none of Signin's statements on the tokens: requests that were past
\* the purge keep their records.
LEMMA RestKeepsSessions ==
  ASSUME TypeOK, SessionInv, [Next]_vars, UNCHANGED tokens,
         \A r \in Signins : ~PurgeTokens(r) /\ ~InsertToken(r)
  PROVE  SessionInv'
<1>1. now \in Nat /\ now' \in Nat /\ now <= now'
  BY TokensRest DEF TypeOK
<1>2. \A r \in Signins :
        \/ signins'[r] = signins[r]
        \/ signins[r].pc # "ok" /\ signins'[r].pc \notin {"insert", "ok"}
  <2> SUFFICES ASSUME NEW r \in Signins
               PROVE  \/ signins'[r] = signins[r]
                      \/ signins[r].pc # "ok" /\ signins'[r].pc \notin {"insert", "ok"}
    OBVIOUS
  <2>1. ASSUME NEW n \in Names, NEW p \in Passwords, SelectUser(r, n, p)
        PROVE  signins[r].pc = "idle" /\ signins'[r].pc \in {"purge", "refused"}
    <3>1. signins[r].pc = "idle"
      BY <2>1 DEF SelectUser
    <3> QED
      BY <2>1, <3>1, SelectUserDoes
  <2>2. ~PurgeTokens(r) /\ ~InsertToken(r)
    OBVIOUS
  <2>3. \/ signins'[r] = signins[r]
        \/ \E n \in Names, p \in Passwords : SelectUser(r, n, p)
        \/ signins[r].pc \in {"purge", "insert"} /\ signins'[r].pc \in {"failed", "lost"}
    BY <2>2, SigninMoves
  <2> QED
    BY <2>1, <2>3
<1>3. \A r \in Signins : signins[r].purged \in Nat /\ signins[r].expires \in Nat
  BY DEF TypeOK, SigninReq
<1>4. TokenInv'
  BY <1>1, <1>2, <1>3 DEF SessionInv, TokenInv
<1>5. PurgedInv'
  BY <1>2 DEF SessionInv, PurgedInv
<1>6. TokensLast'
  BY <1>1, <1>2, <1>3 DEF SessionInv, TokensLast
<1> QED
  BY <1>4, <1>5, <1>6 DEF SessionInv

LEMMA SessionStep == ASSUME TypeOK, SessionInv, [Next]_vars PROVE SessionInv'
<1>1. CASE \E r \in Signins : PurgeTokens(r) \/ InsertToken(r)
  BY <1>1, PurgeKeepsSessions, InsertKeepsSessions
<1>2. CASE \A r \in Signins : ~PurgeTokens(r) /\ ~InsertToken(r)
  BY <1>2, TokensRest, RestKeepsSessions
<1> QED
  BY <1>1, <1>2

LEMMA InitSessions == Init => OwnerInv /\ SessionInv
BY DEF Init, OwnerInv, Owner, SessionInv, TokenInv, PurgedInv, TokensLast

\* A token that was given is still there until it expires, whatever purges of later
\* sign-ins and restarts come between.
THEOREM TokensDoLast == Spec => []TokensLast
<1>1. SessionInv => TokensLast
  BY DEF SessionInv
<1> QED
  BY <1>1, InitTypes, TypeStep, InitSessions, SessionStep, PTL DEF Spec

\* What a user has left at a sign-in had not expired then.
THEOREM OldTokensAreGone == Spec => []OldTokensGone
<1>1. SessionInv => OldTokensGone
  BY DEF SessionInv, PurgedInv, OldTokensGone
<1> QED
  BY <1>1, InitTypes, TypeStep, InitSessions, SessionStep, PTL DEF Spec

-----------------------------------------------------------------------------
(* Checks. *)

\* A check's owner, with the request that was given its token.
Acting(d) ==
  d.pc \in {"accepted", "shown"} =>
    LET s == signins[d.token] IN
      /\ s.pc = "ok" /\ s.uid = d.uid /\ d.at < s.expires
      /\ Named(s.uid, d.name) /\ users[s.uid].hash = Digest(s.password, users[s.uid].salt)

ActingInv == \A c \in Checks : Acting(checks[c])

\* What a step does to one check.
LEMMA CheckMoves ==
  ASSUME TypeOK, [Next]_vars, NEW c \in Checks
  PROVE  \/ \E n \in Names, t \in Signins : CheckToken(c, n, t)
         \/ checks'[c].pc \notin {"accepted", "shown"}
         \/ /\ checks[c].pc \in {"accepted", "shown"}
            /\ checks'[c].token = checks[c].token /\ checks'[c].uid = checks[c].uid
            /\ checks'[c].name = checks[c].name /\ checks'[c].at = checks[c].at
<1>1. ASSUME NEW d \in Checks, GetUserInfo(d), d # c PROVE checks'[c] = checks[c]
  BY <1>1 DEF GetUserInfo, CheckToken, ShowUser, CheckThrows, TypeOK
<1>2. ASSUME CheckThrows(c) PROVE checks'[c].pc \notin {"accepted", "shown"}
  BY <1>2 DEF CheckThrows, TypeOK, CheckReq
<1>3. ASSUME ShowUser(c)
      PROVE  /\ checks[c].pc \in {"accepted", "shown"}
             /\ checks'[c].token = checks[c].token /\ checks'[c].uid = checks[c].uid
             /\ checks'[c].name = checks[c].name /\ checks'[c].at = checks[c].at
  <2>1. PICK x \in {"shown", "missing", "failed"} : checks' = [checks EXCEPT ![c].pc = x]
    BY <1>3 DEF ShowUser
  <2> QED
    BY <1>3, <2>1 DEF ShowUser, TypeOK, CheckReq
<1>4. ASSUME NEW q \in Signups, Signup(q) PROVE UNCHANGED checks
  BY <1>4 DEF Signup, SelectName, InsertUser, SignupFault
<1>5. ASSUME NEW q \in Signins, Signin(q) PROVE UNCHANGED checks
  BY <1>5 DEF Signin, SelectUser, PurgeTokens, InsertToken, SigninFault
<1> QED
  BY <1>1, <1>2, <1>3, <1>4, <1>5 DEF Next, GetUserInfo, Tick, Crash, vars, handlers

LEMMA CheckActs ==
  ASSUME TypeOK, OwnerInv, SessionInv, NEW c \in Checks, NEW n \in Names, NEW t \in Signins,
         CheckToken(c, n, t)
  PROVE  Acting(checks[c])'
<1>1. signins[t].pc = "ok" /\ UNCHANGED <<signins, users>>
  BY DEF CheckToken
<1>2. CASE \A u \in Signups : ~Joined(u, n, t)
  BY <1>2 DEF CheckToken, Acting, TypeOK
<1>3. ASSUME NEW u \in Signups, Joined(u, n, t),
             checks' = [checks EXCEPT ![c] = [pc |-> "accepted", name |-> n, token |-> t,
                                              uid |-> u, at |-> now]]
      PROVE  Acting(checks[c])'
  <2>1. /\ checks'[c].token = t /\ checks'[c].uid = u
        /\ checks'[c].name = n /\ checks'[c].at = now
    BY <1>3 DEF TypeOK
  <2>2. Named(u, n) /\ tokens[t] # None /\ tokens[t].uid = u /\ tokens[t].expires > now
    BY <1>3 DEF Joined
  <2>3. signins[t].uid = u /\ signins[t].expires = tokens[t].expires
    BY <2>2 DEF SessionInv, TokenInv
  <2>4. users[u].hash = Digest(signins[t].password, users[u].salt)
    BY <1>1, <2>3 DEF OwnerInv, Owner
  <2>5. now < signins[t].expires
    BY <2>2, <2>3 DEF TypeOK, TokenRow
  <2> QED
    BY <1>1, <2>1, <2>2, <2>3, <2>4, <2>5 DEF Acting, Named
<1> QED
  BY <1>2, <1>3 DEF CheckToken

LEMMA ActingStep ==
  ASSUME TypeOK, UserInv, OwnerInv, SessionInv, ActingInv, [Next]_vars
  PROVE  ActingInv'
<1> SUFFICES ASSUME NEW c \in Checks PROVE Acting(checks[c])'
  BY DEF ActingInv
<1>1. CASE checks'[c].pc \notin {"accepted", "shown"}
  BY <1>1 DEF Acting
<1>2. CASE /\ checks[c].pc \in {"accepted", "shown"}
           /\ checks'[c].token = checks[c].token /\ checks'[c].uid = checks[c].uid
           /\ checks'[c].name = checks[c].name /\ checks'[c].at = checks[c].at
  <2> DEFINE t == checks[c].token
             u == signins[t].uid
  <2>1. t \in Signins /\ u \in Signups /\ checks[c].uid = u /\ checks[c].name \in Names
    BY <1>2 DEF ActingInv, Acting, TypeOK, CheckLocals
  <2>2. /\ signins[t].pc = "ok" /\ checks[c].at < signins[t].expires
        /\ Named(u, checks[c].name) /\ users[u].hash = Digest(signins[t].password, users[u].salt)
    BY <1>2 DEF ActingInv, Acting
  <2>3. signins'[t] = signins[t]
    BY <2>1, <2>2, SigninMoves DEF SelectUser, PurgeTokens, InsertToken
  <2>4. users'[u] = users[u]
    BY <2>1, <2>2, UsersKept DEF UserInv, Named
  <2> HIDE DEF t
  <2> QED
    BY <1>2, <2>1, <2>2, <2>3, <2>4 DEF Acting, Named, t
<1> QED
  BY <1>1, <1>2, CheckMoves, CheckActs

LEMMA InitActing == Init => ActingInv
BY DEF Init, ActingInv, Acting

\* A handler that goes on after CheckToken acts under the uid of someone who had that
\* user's password, with a token of theirs that had not expired.
THEOREM HandlersActAsOwner == Spec => []ActsAsOwner
<1>1. ActingInv => ActsAsOwner
  BY DEF ActingInv, Acting, ActsAsOwner
<1>2. Init => TypeOK /\ UserInv /\ OwnerInv /\ SessionInv /\ ActingInv
  BY InitTypes, InitUsers, InitSessions, InitActing
<1>3. TypeOK /\ UserInv /\ OwnerInv /\ SessionInv /\ ActingInv /\ [Next]_vars =>
        TypeOK' /\ UserInv' /\ OwnerInv' /\ SessionInv' /\ ActingInv'
  BY TypeStep, UserStep, OwnerStep, SessionStep, ActingStep
<1> QED
  BY <1>1, <1>2, <1>3, PTL DEF Spec
============================================================================
