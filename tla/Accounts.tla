------------------------------ MODULE Accounts ------------------------------
(***************************************************************************)
(* Accounts and tokens: the handlers Signup, Signin, GetUserInfo and       *)
(* CheckToken of UserServiceImpl, and auth::checkToken, over tbl_user and  *)
(* tbl_user_token.  Every other handler of webdisk asks CheckToken first   *)
(* and then goes on with the uid it was given.                             *)
(*                                                                         *)
(* Each SQL statement is its own transaction and evaluates NOW() anew, so  *)
(* one action is one statement.  MySQL compares names by the collation     *)
(* utf8mb4_0900_ai_ci, which the code does not mention: several spellings  *)
(* are one name to the WHERE clauses and to the UNIQUE key.                *)
(*                                                                         *)
(* Abstractions.  sha256_hex is injective and random_hex never repeats: a  *)
(* salt is the ticket of its sign-up, a token the ticket of its sign-in,   *)
(* a row's AUTO_INCREMENT id the ticket that inserted it.  Nothing in the  *)
(* code sets tomb, which is left out.  A request with an empty field       *)
(* changes nothing and is a stuttering step.                               *)
(***************************************************************************)
EXTENDS Integers, FiniteSets

CONSTANTS
  Signups, Signins, Checks,  \* requests to Signup, Signin; to CheckToken or GetUserInfo
  Names,                     \* user names as they are spelt
  Collation,                 \* maps a spelling to the one that stands for its equals
  Passwords,
  TTL,                       \* INTERVAL 1 DAY
  MaxNow, MaxCrashes,        \* bounds of the clock and of the service's restarts
  Faults,                    \* SQL exceptions happen
  None

ASSUME CollationAssumption == Collation \in [Names -> Names]
ASSUME TimeAssumption == TTL \in Nat \ {0} /\ MaxNow \in Nat /\ MaxCrashes \in Nat
ASSUME FaultsAssumption == Faults \in BOOLEAN

\* What crypto::sha256_hex(password + salt) returns.
Digest(p, salt) == <<p, salt>>

UserRow  == [name : Names, hash : Passwords \X Signups, salt : Signups]
TokenRow == [uid : Signups, expires : Nat]

ASSUME NoneAssumption ==
  None \notin Names \cup Passwords \cup Signups \cup Signins \cup UserRow \cup TokenRow

VARIABLES
  now,                      \* MySQL's clock
  users,                    \* tbl_user: the row each sign-up inserted, or None
  tokens,                   \* tbl_user_token: the row each sign-in inserted, or None
  signups, signins, checks, \* the locals of each request's handler
  crashes

handlers == <<signups, signins, checks>>
vars == <<now, users, tokens, handlers, crashes>>

SignupReq ==
  [pc : {"idle", "insert", "ok", "exists", "failed", "lost"},
   name : Names \cup {None}, password : Passwords \cup {None}]

\* purged and expires keep what NOW() was in the DELETE, and what the INSERT made of it.
SigninReq ==
  [pc : {"idle", "purge", "insert", "ok", "refused", "failed", "lost"},
   name : Names \cup {None}, password : Passwords \cup {None},
   uid : Signups \cup {None}, purged : Nat, expires : Nat]

\* at is the time of the check.
CheckReq ==
  [pc : {"idle", "accepted", "refused", "shown", "missing", "failed", "lost"},
   name : Names \cup {None}, token : Signins \cup {None}, uid : Signups \cup {None}, at : Nat]

Init ==
  /\ now = 0
  /\ users = [r \in Signups |-> None]
  /\ tokens = [r \in Signins |-> None]
  /\ signups = [r \in Signups |-> [pc |-> "idle", name |-> None, password |-> None]]
  /\ signins = [r \in Signins |-> [pc |-> "idle", name |-> None, password |-> None,
                                   uid |-> None, purged |-> 0, expires |-> 0]]
  /\ checks = [c \in Checks |-> [pc |-> "idle", name |-> None, token |-> None,
                                 uid |-> None, at |-> 0]]
  /\ crashes = 0

\* username = ?, as MySQL compares.
Named(u, n) == users[u] # None /\ Collation[users[u].name] = Collation[n]

-----------------------------------------------------------------------------
(* Signup. *)

SelectName(r, n, p) ==
  /\ signups[r].pc = "idle"
  /\ signups' = [signups EXCEPT ![r] =
       [pc |-> IF \E u \in Signups : Named(u, n) THEN "exists" ELSE "insert",
        name |-> n, password |-> p]]
  /\ UNCHANGED <<now, users, tokens, signins, checks, crashes>>

NewUser(r) ==
  [name |-> signups[r].name, hash |-> Digest(signups[r].password, r), salt |-> r]

\* Mutant of InsertUser: REPLACE INTO, which deletes the row in the way.
ReplaceUser(r) ==
  /\ signups[r].pc = "insert"
  /\ users' = [u \in Signups |-> IF u = r THEN NewUser(r)
                                 ELSE IF Named(u, signups[r].name) THEN None ELSE users[u]]
  /\ signups' = [signups EXCEPT ![r].pc = "ok"]
  /\ UNCHANGED <<now, tokens, signins, checks, crashes>>

\* The UNIQUE key on username lets the INSERT through, or makes it throw.
InsertUser(r) ==
  /\ signups[r].pc = "insert"
  /\ IF \E u \in Signups : Named(u, signups[r].name)
     THEN /\ signups' = [signups EXCEPT ![r].pc = "failed"]
          /\ UNCHANGED users
     ELSE /\ users' = [users EXCEPT ![r] = NewUser(r)]
          /\ signups' = [signups EXCEPT ![r].pc = "ok"]
  /\ UNCHANGED <<now, tokens, signins, checks, crashes>>

SignupFault(r) ==
  /\ Faults
  /\ signups[r].pc = "insert"
  /\ signups' = [signups EXCEPT ![r].pc = "failed"]
  /\ UNCHANGED <<now, users, tokens, signins, checks, crashes>>

-----------------------------------------------------------------------------
(* Signin. *)

\* Mutant of SelectUser: the handler does not return when the name has no row.
SelectUserOrNobody(r, n, p) ==
  /\ signins[r].pc = "idle"
  /\ signins' = [signins EXCEPT ![r] = [@ EXCEPT !.name = n, !.password = p, !.pc = "purge"]]
  /\ UNCHANGED <<now, users, tokens, signups, checks, crashes>>

\* The SELECT takes the first row of that name, and its hash decides.
SelectUser(r, n, p) ==
  /\ signins[r].pc = "idle"
  /\ \/ /\ \A u \in Signups : ~Named(u, n)
        /\ signins' = [signins EXCEPT ![r] = [@ EXCEPT !.name = n, !.password = p, !.pc = "refused"]]
     \/ \E u \in Signups :
          /\ Named(u, n)
          /\ signins' = [signins EXCEPT ![r] = [@ EXCEPT !.name = n, !.password = p, !.uid = u,
               !.pc = IF Digest(p, users[u].salt) = users[u].hash THEN "purge" ELSE "refused"]]
  /\ UNCHANGED <<now, users, tokens, signups, checks, crashes>>

\* Mutant of Expired: each sign-in ends the user's other sessions.
OfUser(t, u) == tokens[t] # None /\ tokens[t].uid = u

\* Mutant of Expired: the comparison is turned round, and none but a valid one goes.
NotYetExpired(t, u) == tokens[t] # None /\ tokens[t].uid = u /\ tokens[t].expires > now

\* uid = ? AND expired_at < NOW().
Expired(t, u) == tokens[t] # None /\ tokens[t].uid = u /\ tokens[t].expires < now

PurgeTokens(r) ==
  /\ signins[r].pc = "purge"
  /\ tokens' = [t \in Signins |-> IF Expired(t, signins[r].uid) THEN None ELSE tokens[t]]
  /\ signins' = [signins EXCEPT ![r].pc = "insert", ![r].purged = now]
  /\ UNCHANGED <<now, users, signups, checks, crashes>>

InsertToken(r) ==
  /\ signins[r].pc = "insert"
  /\ tokens' = [tokens EXCEPT ![r] = [uid |-> signins[r].uid, expires |-> now + TTL]]
  /\ signins' = [signins EXCEPT ![r].pc = "ok", ![r].expires = now + TTL]
  /\ UNCHANGED <<now, users, signups, checks, crashes>>

SigninFault(r) ==
  /\ Faults
  /\ signins[r].pc \in {"purge", "insert"}
  /\ signins' = [signins EXCEPT ![r].pc = "failed"]
  /\ UNCHANGED <<now, users, tokens, signups, checks, crashes>>

-----------------------------------------------------------------------------
(* auth::checkToken, and what CheckToken and GetUserInfo make of it. *)

\* Mutant of Joined: the join has lost its condition u.id = t.uid.
NotJoined(u, n, t) == Named(u, n) /\ tokens[t] # None /\ tokens[t].expires > now

\* The row of the JOIN, if there is one.
Joined(u, n, t) ==
  /\ Named(u, n)
  /\ tokens[t] # None /\ tokens[t].uid = u /\ tokens[t].expires > now

\* A client presents a token that it was given.
CheckToken(c, n, t) ==
  /\ checks[c].pc = "idle"
  /\ signins[t].pc = "ok"
  /\ \/ /\ \A u \in Signups : ~Joined(u, n, t)
        /\ checks' = [checks EXCEPT ![c] = [pc |-> "refused", name |-> n, token |-> t,
                                            uid |-> None, at |-> now]]
     \/ \E u \in Signups :
          /\ Joined(u, n, t)
          /\ checks' = [checks EXCEPT ![c] = [pc |-> "accepted", name |-> n, token |-> t,
                                              uid |-> u, at |-> now]]
  /\ UNCHANGED <<now, users, tokens, signups, signins, crashes>>

\* GetUserInfo goes on with SELECT created_at ... WHERE id = ?, which may throw.
ShowUser(c) ==
  /\ checks[c].pc = "accepted"
  /\ \/ checks' = [checks EXCEPT ![c].pc = IF users[checks[c].uid] # None
                                           THEN "shown" ELSE "missing"]
     \/ Faults /\ checks' = [checks EXCEPT ![c].pc = "failed"]
  /\ UNCHANGED <<now, users, tokens, signups, signins, crashes>>

-----------------------------------------------------------------------------
Tick ==
  /\ now < MaxNow
  /\ now' = now + 1
  /\ UNCHANGED <<users, tokens, handlers, crashes>>

Lost(reqs, running) ==
  [r \in DOMAIN reqs |-> IF reqs[r].pc \in running THEN [reqs[r] EXCEPT !.pc = "lost"] ELSE reqs[r]]

\* The user service dies and is started again.
Crash ==
  /\ crashes < MaxCrashes
  /\ crashes' = crashes + 1
  /\ signups' = Lost(signups, {"insert"})
  /\ signins' = Lost(signins, {"purge", "insert"})
  /\ UNCHANGED <<now, users, tokens, checks>>

\* The statement of auth::checkToken throws outside any try block: the exception
\* leaves the handler, and may take the process and the other handlers with it.
CheckThrows(c) ==
  /\ Faults
  /\ checks[c].pc = "idle"
  /\ checks' = [checks EXCEPT ![c].pc = "failed"]
  /\ \/ UNCHANGED <<signups, signins, crashes>>
     \/ /\ crashes < MaxCrashes
        /\ crashes' = crashes + 1
        /\ signups' = Lost(signups, {"insert"})
        /\ signins' = Lost(signins, {"purge", "insert"})
  /\ UNCHANGED <<now, users, tokens>>

Signup(r) ==
  \/ \E n \in Names, p \in Passwords : SelectName(r, n, p)
  \/ InsertUser(r)
  \/ SignupFault(r)

Signin(r) ==
  \/ \E n \in Names, p \in Passwords : SelectUser(r, n, p)
  \/ PurgeTokens(r)
  \/ InsertToken(r)
  \/ SigninFault(r)

GetUserInfo(c) ==
  \/ \E n \in Names, t \in Signins : CheckToken(c, n, t)
  \/ CheckThrows(c)
  \/ ShowUser(c)

Next ==
  \/ \E r \in Signups : Signup(r)
  \/ \E r \in Signins : Signin(r)
  \/ \E c \in Checks : GetUserInfo(c)
  \/ Tick
  \/ Crash

Spec == Init /\ [][Next]_vars

-----------------------------------------------------------------------------
(* What holds. *)

SignupLocals(q) == q.pc # "idle" => q.name \in Names /\ q.password \in Passwords

SigninLocals(q) ==
  q.pc \in {"purge", "insert", "ok"} =>
    q.name \in Names /\ q.password \in Passwords /\ q.uid \in Signups

CheckLocals(q) ==
  q.pc \in {"accepted", "shown", "missing"} =>
    q.name \in Names /\ q.token \in Signins /\ q.uid \in Signups

\* Tables and handlers' locals have their types, and no statement runs with a uid
\* that was never read.
TypeOK ==
  /\ now \in 0 .. MaxNow
  /\ users \in [Signups -> UserRow \cup {None}]
  /\ tokens \in [Signins -> TokenRow \cup {None}]
  /\ signups \in [Signups -> SignupReq] /\ \A r \in Signups : SignupLocals(signups[r])
  /\ signins \in [Signins -> SigninReq] /\ \A r \in Signins : SigninLocals(signins[r])
  /\ checks \in [Checks -> CheckReq] /\ \A c \in Checks : CheckLocals(checks[c])
  /\ crashes \in 0 .. MaxCrashes

\* Whoever was told that a sign-up succeeded can sign in, in whatever spelling:
\* of sign-ups that race for one name, at most one is told so, and it is its
\* password that the name has from then on.
SignupStands ==
  [][\A r \in Signins :
       signins[r].pc = "idle" /\ signins'[r].pc = "refused" =>
         ~\E s \in Signups :
            /\ signups[s].pc = "ok"
            /\ Collation[signups[s].name] = Collation[signins'[r].name]
            /\ signups[s].password = signins'[r].password]_vars

\* A handler acts under a uid only with a token that was given, and had not
\* expired when it was checked, to someone who had that user's password.
ActsAsOwner ==
  \A c \in Checks : checks[c].pc \in {"accepted", "shown"} =>
    LET s == signins[checks[c].token] IN
      /\ s.uid = checks[c].uid /\ checks[c].at < s.expires
      /\ Named(s.uid, checks[c].name)
      /\ users[s.uid].hash = Digest(s.password, users[s.uid].salt)

\* A token lasts as long as it was given for, through later sign-ins of the same
\* user and their purges, and through restarts.
TokensLast ==
  \A r \in Signins :
    signins[r].pc = "ok" /\ now <= signins[r].expires => tokens[r] # None

\* README.md: a sign-in clears the user's expired tokens.  What a user has left
\* had not expired at the last sign-in; the table does not fill up with old ones.
OldTokensGone ==
  \A r, t \in Signins :
    signins[r].pc = "ok" /\ tokens[t] # None /\ tokens[t].uid = signins[r].uid =>
      tokens[t].expires >= signins[r].purged
============================================================================
