------------------------------ MODULE Accounts ------------------------------
(***************************************************************************)
(* Accounts of employees: login with its throttle in Redis, passwords, and *)
(* the administration of accounts. Every request is authenticated by a     *)
(* token that names an employee number, reads the rows it decides on, and  *)
(* writes later; logins take a Redis or a database call per step.          *)
(***************************************************************************)
EXTENDS Integers, FiniteSets, FiniteSetsExt

CONSTANTS
  Requests,    \* bound: requests under way at once
  MaxAttempts, \* LOGIN_FAIL_MAX_ATTEMPTS
  MaxNumber,   \* bound: employee numbers of the month
  MaxAsks,     \* bound: requests
  MaxOutages,  \* bound: Redis failures and crashes of a request
  GivenRoles,  \* roles that are given
  Chosen       \* passwords that people choose, or give to others

Numbers == 1..MaxNumber
Roles   == { "MASTER", "ADMIN", "WORKER", "GUEST" }

Managers  == { "MASTER", "ADMIN" }
NoRow   == [who |-> 0]
NoToken == [n |-> 0, who |-> 0, role |-> "NONE"]

VARIABLES
  account, \* users, by employee number; who is the row's uuid
  fails,   \* auth:fail:<number>, 0 when there is no such key
  ttl,     \* does the key expire?
  tokens,  \* tokens given to people
  req,     \* requests under way, with what they have read
  hired,   \* rows inserted so far
  asks, outages,
  tried,   \* history: wrong passwords judged since the key last went
  refused, \* history: numbers refused by the throttle since their key last went
  retired  \* history: numbers that a deletion let go, or that were chosen on purpose

throttleVars == << fails, ttl, tried, refused >>
accountVars  == << account, fails, ttl, tokens, req, hired, asks, outages, tried, refused, retired >>

(* Eight letters and digits that register_user draws and nobody is told.    *)
Drawn   == [text |-> "drawn", len |-> 8, classes |-> 2, run |-> 1, personal |-> FALSE]
NoPassword == [text |-> "", len |-> 0, classes |-> 0, run |-> 0, personal |-> FALSE]

NoAsk   == [do |-> "rest", pc |-> "rest", self |-> NoRow, n |-> 0, saw |-> NoRow,
            arg |-> "NONE", pw |-> NoPassword, knew |-> FALSE]

Row(who, role, pw) == [who |-> who, role |-> role, status |-> "ACTIVE", pw |-> pw, must |-> TRUE]

(* validate_password.                                                       *)
Acceptable(pw) ==
  /\ pw.classes >= 2 /\ pw.len \in (IF pw.classes = 2 THEN 10 ELSE 8)..64
  /\ pw.run < 4 /\ ~pw.personal

ASSUME AccountsAssumption ==
  /\ IsFiniteSet(Requests) /\ MaxAttempts \in Nat \ {0} /\ MaxNumber \in Nat \ {0, 1}
  /\ MaxAsks \in Nat /\ MaxOutages \in Nat /\ GivenRoles \subseteq Roles
  /\ \E pw \in Chosen : Acceptable(pw)

(* A master who has chosen a password and a colleague who has not.          *)
AccountsInit ==
  /\ \E role \in GivenRoles :
       /\ account = [n \in Numbers |-> CASE n = 1   -> [Row(1, "MASTER", CHOOSE pw \in Chosen : Acceptable(pw)) EXCEPT !.must = FALSE]
                                         [] n = 2   -> Row(2, role, Drawn)
                                         [] n \notin 1..2 -> NoRow]
       /\ tokens = { [n |-> 1, who |-> 1, role |-> "MASTER"], [n |-> 2, who |-> 2, role |-> role] }
  /\ fails = [n \in Numbers |-> 0] /\ ttl = [n \in Numbers |-> FALSE] /\ tried = fails
  /\ req = [r \in Requests |-> NoAsk] /\ hired = 2
  /\ asks = 0 /\ outages = 0 /\ refused = {} /\ retired = {}

-----------------------------------------------------------------------------
(* Requests.                                                                *)
Ready(r) == req[r] = NoAsk /\ asks < MaxAsks

Begin(r, ask) ==
  /\ Ready(r)
  /\ req' = [req EXCEPT ![r] = ask] /\ asks' = asks + 1

At(r, do, pc) == req[r].do = do /\ req[r].pc = pc
Goto(r, pc)   == req' = [req EXCEPT ![r].pc = pc]
End(r)        == req' = [req EXCEPT ![r] = NoAsk]

(* Mutant of RoleOf: the role written into the token at login.              *)
RoleInToken(t) == t.role

(* The checks of roles read the row.                                        *)
RoleOf(t) == account[t.n].role

Authenticated(t) == account[t.n] # NoRow /\ account[t.n].status = "ACTIVE"

AccountOf(n) == IF n \in Numbers THEN account[n] ELSE NoRow

Submit(r, t, do, n, arg) ==
  /\ Authenticated(t)
  /\ Begin(r, [NoAsk EXCEPT !.do = do, !.pc = "write", !.self = account[t.n], !.n = n, !.saw = AccountOf(n), !.arg = arg])

-----------------------------------------------------------------------------
(* POST /auth/login                                                         *)
KnownTo(n) == { pw \in Chosen : account[n] # NoRow /\ account[n].pw = pw }

KeyGone(n) ==
  /\ fails' = [fails EXCEPT ![n] = 0] /\ ttl' = [ttl EXCEPT ![n] = FALSE]
  /\ tried' = [tried EXCEPT ![n] = 0] /\ refused' = refused \ {n}

Login(r, n, guess, blocked) ==
  /\ Begin(r, [NoAsk EXCEPT !.do = "login", !.pc = IF blocked THEN "wait" ELSE "verify", !.n = n, !.pw = guess])
  /\ UNCHANGED << account, throttleVars, tokens, hired, outages, retired >>

(* Mutant of CheckThrottle: one attempt too many.                           *)
CheckThrottleLate(r, n, guess) == Login(r, n, guess, fails[n] > MaxAttempts)

CheckThrottle(r, n, guess) == Login(r, n, guess, fails[n] >= MaxAttempts)

(* Mutant of Refuse: a key without an expiry is left as it is.              *)
RefuseOnly(r) ==
  /\ At(r, "login", "wait") /\ End(r)
  /\ refused' = IF fails[req[r].n] > 0 THEN refused \cup {req[r].n} ELSE refused
  /\ UNCHANGED << account, fails, ttl, tried, tokens, hired, asks, outages, retired >>

(* The refusal gives the key an expiry if it has none.                      *)
Refuse(r) ==
  LET n == req[r].n IN
  /\ At(r, "login", "wait") /\ End(r)
  /\ ttl' = [ttl EXCEPT ![n] = fails[n] > 0]
  /\ refused' = IF fails[n] > 0 THEN refused \cup {n} ELSE refused
  /\ UNCHANGED << account, fails, tried, tokens, hired, asks, outages, retired >>

(* authenticate_user and the check of the status.                           *)
Verify(r) ==
  LET n == req[r].n
      row == account[n]
  IN
  /\ At(r, "login", "verify")
  /\ IF row = NoRow \/ row.pw # req[r].pw
     THEN Goto(r, "count") /\ tried' = [tried EXCEPT ![n] = @ + 1]
     ELSE /\ UNCHANGED tried
          /\ IF row.status # "ACTIVE" THEN End(r)
             ELSE req' = [req EXCEPT ![r].pc = "clear", ![r].self = row]
  /\ UNCHANGED << account, fails, ttl, refused, tokens, hired, asks, outages, retired >>

(* INCR.                                                                    *)
Count(r) ==
  LET n == req[r].n IN
  /\ At(r, "login", "count")
  /\ fails' = [fails EXCEPT ![n] = @ + 1]
  /\ IF fails[n] = 0 THEN Goto(r, "expire") ELSE End(r)
  /\ UNCHANGED << account, ttl, tried, refused, tokens, hired, asks, outages, retired >>

(* EXPIRE, after the first failure only.                                    *)
SetExpiry(r) ==
  LET n == req[r].n IN
  /\ At(r, "login", "expire") /\ End(r)
  /\ ttl' = [ttl EXCEPT ![n] = fails[n] > 0]
  /\ UNCHANGED << account, fails, tried, refused, tokens, hired, asks, outages, retired >>

GiveToken(r) == tokens' = tokens \cup {[n |-> req[r].n, who |-> req[r].self.who, role |-> req[r].self.role]}

Clear(r) ==
  /\ At(r, "login", "clear") /\ End(r)
  /\ KeyGone(req[r].n) /\ GiveToken(r)
  /\ UNCHANGED << account, hired, asks, outages, retired >>

Expire(n) ==
  /\ ttl[n] /\ KeyGone(n)
  /\ UNCHANGED << account, tokens, req, hired, asks, outages, retired >>

(* Redis does not answer: the throttle lets the login go on.                *)
RedisFails(r) ==
  /\ req[r].do = "login" /\ outages < MaxOutages /\ outages' = outages + 1
  /\ \/ req[r].pc = "wait" /\ Goto(r, "verify") /\ UNCHANGED tokens
     \/ req[r].pc \in {"count", "expire"} /\ End(r) /\ UNCHANGED tokens
     \/ req[r].pc = "clear" /\ End(r) /\ GiveToken(r)
  /\ UNCHANGED << account, throttleVars, hired, asks, retired >>

(* The process of a login ends. (Other requests write once: when they end   *)
(* early it is as if they were still waiting.)                              *)
Crash(r) ==
  /\ req[r].do = "login" /\ outages < MaxOutages /\ outages' = outages + 1 /\ End(r)
  /\ UNCHANGED << account, throttleVars, tokens, hired, asks, retired >>

-----------------------------------------------------------------------------
(* Administration. A request writes the columns whose value differs from    *)
(* what it read, to the row it read, if that is still there.                *)
StillThere(r) == account[req[r].n].who = req[r].saw.who

MayManage(t, n, role) == RoleOf(t) \in Managers /\ (RoleOf(t) = "MASTER" \/ "MASTER" \notin {account[n].role, role})

InUse == { n \in Numbers : account[n] # NoRow }

(* Mutant of NextNumber: the first number that is free.                     *)
FirstFreeNumber == IF Numbers \ InUse = {} THEN MaxNumber + 1 ELSE Min(Numbers \ InUse)

NextNumber == IF InUse = {} THEN 1 ELSE Max(InUse) + 1

Quiet == UNCHANGED << account, throttleVars, tokens, hired, outages, retired >>

AskStatus(r, t, n, status) ==
  /\ Authenticated(t) /\ account[n] # NoRow /\ MayManage(t, n, "NONE") /\ Submit(r, t, "status", n, status) /\ Quiet

AskRole(r, t, n, role) ==
  /\ Authenticated(t) /\ account[n] # NoRow /\ MayManage(t, n, role) /\ Submit(r, t, "role", n, role) /\ Quiet

AskDelete(r, t, n) ==
  /\ Authenticated(t) /\ account[n] # NoRow /\ MayManage(t, n, "NONE") /\ Submit(r, t, "delete", n, "NONE") /\ Quiet

(* POST /users/issue: the number is computed now, the row comes later.      *)
AskIssue(r, t, role) ==
  /\ Authenticated(t) /\ RoleOf(t) \in Managers /\ NextNumber \in Numbers /\ Submit(r, t, "issue", NextNumber, role) /\ Quiet

(* A row of POST /users/admin/create-accounts.                              *)
AskCreate(r, t, n, role) ==
  /\ Authenticated(t) /\ RoleOf(t) \in Managers /\ account[n] = NoRow /\ Submit(r, t, "create", n, role) /\ Quiet

SetStatus(r) ==
  LET n == req[r].n IN
  /\ At(r, "status", "write") /\ End(r)
  /\ account' = IF StillThere(r) /\ req[r].arg # req[r].saw.status THEN [account EXCEPT ![n].status = req[r].arg] ELSE account
  /\ UNCHANGED << throttleVars, tokens, hired, asks, outages, retired >>

SetRole(r) ==
  LET n == req[r].n IN
  /\ At(r, "role", "write") /\ End(r)
  /\ account' = IF StillThere(r) /\ req[r].arg # req[r].saw.role THEN [account EXCEPT ![n].role = req[r].arg] ELSE account
  /\ UNCHANGED << throttleVars, tokens, hired, asks, outages, retired >>

(* The numbers that may be given out again once n is deleted: those above   *)
(* the last one left, and n when somebody has computed it and not used it.  *)
Released(n) ==
  { m \in 1..n : \/ \A k \in InUse \ {n} : k < m
                 \/ m = n /\ \E s \in Requests : At(s, "issue", "write") /\ req[s].n = n }

Delete(r) ==
  LET n == req[r].n IN
  /\ At(r, "delete", "write") /\ End(r)
  /\ account' = IF StillThere(r) THEN [account EXCEPT ![n] = NoRow] ELSE account
  /\ retired' = IF StillThere(r) THEN retired \cup Released(n) ELSE retired
  /\ UNCHANGED << throttleVars, tokens, hired, asks, outages >>

(* The number is unique: of two requests with the same one the second fails.*)
Insert(r, pw) ==
  LET n == req[r].n IN
  /\ End(r)
  /\ IF account[n] # NoRow THEN UNCHANGED << account, hired >>
     ELSE hired' = hired + 1 /\ account' = [account EXCEPT ![n] = Row(hired + 1, req[r].arg, pw)]

Issue(r) ==
  /\ At(r, "issue", "write") /\ Insert(r, Drawn)
  /\ UNCHANGED << throttleVars, tokens, asks, outages, retired >>

Create(r) ==
  /\ At(r, "create", "write") /\ \E pw \in Chosen : Insert(r, pw)
  /\ retired' = retired \cup {req[r].n}
  /\ UNCHANGED << throttleVars, tokens, asks, outages >>

-----------------------------------------------------------------------------
(* Mutant of MayChange: whoever is logged in may.                           *)
MayChangeLoggedIn(row, current, new) == Acceptable(new) /\ current # new

(* Who has not chosen a password yet need not repeat the one issued.        *)
MayChange(row, current, new) == (row.must \/ current = row.pw) /\ Acceptable(new) /\ current # new

AskPassword(r, t, current, new) ==
  /\ Authenticated(t) /\ MayChange(account[t.n], current, new)
  /\ Begin(r, [NoAsk EXCEPT !.do = "password", !.pc = "write", !.self = account[t.n], !.n = t.n, !.saw = account[t.n],
                            !.pw = new, !.knew = current = account[t.n].pw])
  /\ Quiet

SetPassword(r) ==
  LET n == req[r].n IN
  /\ At(r, "password", "write") /\ End(r)
  /\ account' = IF ~StillThere(r) THEN account
                ELSE [account EXCEPT ![n].pw = req[r].pw, ![n].must = @ /\ ~req[r].saw.must]
  /\ UNCHANGED << throttleVars, tokens, hired, asks, outages, retired >>

AccountsNext ==
  \/ \E n \in Numbers : Expire(n)
  \/ \E r \in Requests :
       \/ Refuse(r) \/ Verify(r) \/ Count(r) \/ SetExpiry(r) \/ Clear(r) \/ RedisFails(r) \/ Crash(r)
       \/ SetStatus(r) \/ SetRole(r) \/ Delete(r) \/ Issue(r) \/ Create(r) \/ SetPassword(r)
       \/ Ready(r) /\ \E n \in Numbers : \E guess \in KnownTo(n) \cup {NoPassword} : CheckThrottle(r, n, guess)
       \/ Ready(r) /\ \E t \in tokens :
            \/ \E current \in Chosen \cup {NoPassword}, new \in Chosen \cup {NoPassword} : AskPassword(r, t, current, new)
            \/ \E role \in GivenRoles : AskIssue(r, t, role)
            \/ \E n \in Numbers, role \in GivenRoles : AskRole(r, t, n, role) \/ AskCreate(r, t, n, role)
            \/ \E n \in Numbers, status \in {"ACTIVE", "INACTIVE"} : AskStatus(r, t, n, status)
            \/ \E n \in Numbers : AskDelete(r, t, n)

-----------------------------------------------------------------------------
(* Properties *)

AccountsTypeOK ==
  /\ \A n \in Numbers : /\ account[n] = NoRow \/ (account[n].role \in Roles /\ account[n].status \in {"ACTIVE", "INACTIVE"})
                        /\ fails[n] \in 0..MaxAsks /\ ttl[n] \in BOOLEAN /\ (ttl[n] => fails[n] > 0)
  /\ \A t \in tokens : t.n \in Numbers /\ t.role \in Roles
  /\ hired \in 2..(MaxAsks + 2) /\ {refused, retired} \subseteq SUBSET Numbers

(* Within the life of its key an account has at most the permitted number   *)
(* of wrong passwords tried, and one more for every request that was let    *)
(* through at the same time, and every failure of Redis or of a process.    *)
GuessesAreBounded == \A n \in Numbers : tried[n] <= MaxAttempts - 1 + Cardinality(Requests) + outages

(* The throttle never locks an account: who is refused is free again, even  *)
(* when the process that should have given the key its expiry has crashed.  *)
RefusedIsFreed == refused # {} ~> refused = {}

(* A token, which names an employee number, stands for the person it was    *)
(* given to. Two exceptions: a number let go by a deletion is computed      *)
(* again, and an administrator may choose a number to create.               *)
TokenNamesItsHolder ==
  \A t \in tokens : account[t.n] = NoRow \/ account[t.n].who = t.who \/ t.n \in retired

(* Who writes administrative changes was an administrator when asking: the  *)
(* role that a token has carried since the login gives no right.            *)
RightsAreFresh ==
  \A r \in Requests : req[r].do \in {"status", "role", "delete", "issue", "create"} => req[r].self.role \in Managers

(* A chosen password gives way only to a request that repeated it. The      *)
(* exception is a request that had read the row before it last changed: of  *)
(* two requests of the onboarding the second overwrites the first.          *)
ChosenStands ==
  [][\A n \in InUse :
       account'[n].who = account[n].who /\ ~account[n].must /\ account'[n].pw # account[n].pw =>
         \E r \in Requests : /\ At(r, "password", "write") /\ req[r].n = n
                             /\ req[r].knew \/ req[r].self # account[n]]_accountVars
=============================================================================
