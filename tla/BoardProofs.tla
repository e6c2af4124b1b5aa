---------------------------- MODULE BoardProofs ----------------------------
(***************************************************************************)
(* Proofs about accounts and the notice board, for any number of people,   *)
(* requests, numbers and posts: wrong passwords are bounded, a token names *)
(* its holder, rights are those of now, and a chosen password gives way    *)
(* only to a request that repeated it.                                     *)
(***************************************************************************)
EXTENDS Board, GradingProofs

Passwords == Chosen \cup {Drawn, NoPassword}
PersonType == [who : Nat \ {0}, role : Roles, status : {"ACTIVE", "INACTIVE"}, pw : Passwords, must : BOOLEAN]
RowType == PersonType \cup {NoRow}

AdminAsks == {"status", "role", "delete", "issue", "create"}
BoardAsks == {"post", "update", "remove", "comment"}
LoginSteps == {"wait", "verify", "count", "expire", "clear"}
Words == Roles \cup {"ACTIVE", "INACTIVE", "NONE"} \cup PostKinds

RequestType ==
  [do : AdminAsks \cup BoardAsks \cup {"rest", "login", "password"}, pc : LoginSteps \cup {"rest", "write"},
   self : RowType, n : Numbers \cup Posts \cup {0}, saw : RowType, arg : Words, pw : Passwords, knew : BOOLEAN]

TokenType == [n : Numbers, who : Nat \ {0}, role : Roles]

AccountsShape ==
  /\ account \in [Numbers -> RowType] /\ hired \in Nat \ {0, 1} /\ \A n \in Numbers : account[n].who <= hired
  /\ tokens \subseteq TokenType /\ refused \subseteq Numbers /\ retired \subseteq Numbers
  /\ fails \in [Numbers -> Nat] /\ ttl \in [Numbers -> BOOLEAN] /\ tried \in [Numbers -> Nat]
  /\ asks \in 0..MaxAsks /\ outages \in 0..MaxOutages

(* What a request is about, by its kind.                                    *)
Knows(a, h) ==
  /\ a.do # "login" => a.pc = IF a.do = "rest" THEN "rest" ELSE "write"
  /\ a.do = "login" => a.n \in Numbers /\ a.pc \in LoginSteps /\ (a.pc = "clear" => a.self # NoRow)
  /\ a.do \notin {"rest", "login"} => a.self # NoRow /\ a.self.who <= h
  /\ a.do \in AdminAsks => a.n \in Numbers /\ a.self.role \in Managers
  /\ a.do \in {"status", "role", "delete", "password"} => a.saw # NoRow
  /\ a.do \in {"issue", "create", "role"} => a.arg \in Roles
  /\ a.do = "status" => a.arg \in {"ACTIVE", "INACTIVE"}
  /\ a.do = "password" => a.n \in Numbers /\ (a.knew \/ a.self.must)
  /\ a.do \in BoardAsks => a.n \in Posts
  /\ a.do = "post" => a.arg \in PostKinds
  /\ a.do = "update" => a.arg \in PostKinds \cup {"NONE"}
  /\ a.do \in {"post", "update"} /\ a.arg = "NOTICE" => a.self.role \in Managers

RequestsShape == req \in [Requests -> RequestType] /\ \A r \in Requests : Knows(req[r], hired)

(* The throttle *)
Attempts(f, n, steps) == {r \in Requests : f[r].do = "login" /\ f[r].n = n /\ f[r].pc \in steps}

ThrottleAt(n) ==
  /\ ttl[n] => fails[n] > 0
  /\ fails[n] + Cardinality(Attempts(req, n, {"wait", "verify", "count"})) <= asks
  /\ tried[n] <= fails[n] + Cardinality(Attempts(req, n, {"count"})) + outages
  /\ tried[n] + Cardinality(Attempts(req, n, {"verify"})) <= MaxAttempts - 1 + Cardinality(Requests) + outages

ThrottleInv == \A n \in Numbers : ThrottleAt(n)

(* The numbers *)
Hiring(f) == {r \in Requests : f[r].do \in {"issue", "create"}}

Claims(n, who) ==
  \/ \E t \in tokens : t.n = n /\ t.who = who
  \/ \E r \in Requests : At(r, "login", "clear") /\ req[r].n = n /\ req[r].self.who = who

(* A number that somebody claims is his, or it is not computed again.       *)
Stands(n, who) ==
  \/ account[n].who = who
  \/ /\ account[n] = NoRow /\ \E m \in InUse : n < m
     /\ \A r \in Requests : ~(At(r, "issue", "write") /\ req[r].n = n)

NumbersInv ==
  /\ hired + Cardinality(Hiring(req)) <= asks + 2
  /\ \A n \in Numbers : \A who \in Nat : Claims(n, who) /\ n \notin retired => Stands(n, who)
  /\ \A t \in tokens : t.who <= hired
  /\ \A r \in Requests : At(r, "login", "clear") => req[r].self.who <= hired

(* The board *)
CommentType == [author : Nat \ {0}, rank : Roles, under : PostKinds]
PostType == [category : PostKinds \cup {"NONE", "GONE"}, author : Nat, comments : SUBSET CommentType, made : Roles \cup {"NONE"}]

PostsShape ==
  /\ post \in [Posts -> PostType] /\ moved \subseteq Posts
  /\ \A p \in Posts : /\ ~There(p) => post[p] \in {NoPost, GonePost}
                      /\ There(p) => post[p].author \in 1..hired
                      /\ \A c \in post[p].comments : c.author <= hired

(* A post is written once under its id, and it is there, or was, when somebody is about to change it. *)
PostsArePlanned ==
  \A r \in Requests, p \in Posts : req[r].n = p =>
    /\ req[r].do = "post" => post[p] = NoPost /\ \A s \in Requests : req[s].do = "post" /\ req[s].n = p => s = r
    /\ req[r].do \in {"update", "remove", "comment"} => post[p] # NoPost
    /\ req[r].do = "comment" /\ There(p) /\ p \notin moved =>
         post[p].category # "NOTICE" /\ (post[p].category = "MANUAL" => req[r].self.role \in Managers)

AccountsInv == AccountsShape /\ RequestsShape /\ ThrottleInv /\ NumbersInv
PostsInv == PostsShape /\ PostsArePlanned /\ NoticeByAdmin /\ CommentsAreAdmitted
BoardInv == AccountsInv /\ PostsInv

-----------------------------------------------------------------------------
(* Requests, counted                                                        *)

LEMMA SomeRequests ==
  ASSUME NEW A, NEW B, A \subseteq B, B \subseteq Requests
  PROVE  /\ IsFiniteSet(A) /\ IsFiniteSet(B) /\ Cardinality(A) \in Nat /\ Cardinality(B) \in Nat
         /\ Cardinality(A) <= Cardinality(B)
<1>1. IsFiniteSet(B)
  BY FS_Subset, AccountsAssumption
<1>2. QED
  BY <1>1, FS_Subset, FS_CardinalityType

(* Requests of one kind, when one request changes.                          *)
LEMMA OneRequestChanges ==
  ASSUME NEW A, NEW B, NEW r \in Requests, A \subseteq Requests, B \subseteq Requests,
         \A s \in Requests : s # r => (s \in A <=> s \in B)
  PROVE  Cardinality(A) + (IF r \in B THEN 1 ELSE 0) = Cardinality(B) + (IF r \in A THEN 1 ELSE 0)
<1>1. Cardinality(A) \in Nat /\ Cardinality(B) \in Nat
  BY SomeRequests
<1>2. CASE r \in A /\ r \in B
  <2>1. A = B
    BY <1>2
  <2>2. QED
    BY <1>1, <1>2, <2>1
<1>3. CASE r \notin A /\ r \notin B
  <2>1. A = B
    BY <1>3
  <2>2. QED
    BY <1>1, <1>3, <2>1
<1>4. CASE r \in A /\ r \notin B
  <2>1. A = B \cup {r}
    BY <1>4
  <2>2. Cardinality(A) = Cardinality(B) + 1
    BY <1>4, <2>1, FS_AddElement, SomeRequests
  <2>3. QED
    BY <1>1, <1>4, <2>2
<1>5. CASE r \notin A /\ r \in B
  <2>1. B = A \cup {r}
    BY <1>5
  <2>2. Cardinality(B) = Cardinality(A) + 1
    BY <1>5, <2>1, FS_AddElement, SomeRequests
  <2>3. QED
    BY <1>1, <1>5, <2>2
<1>6. QED
  BY <1>2, <1>3, <1>4, <1>5

Counts(a, n, steps) == IF a.do = "login" /\ a.n = n /\ a.pc \in steps THEN 1 ELSE 0

LEMMA AttemptsChange ==
  ASSUME RequestsShape, NEW r \in Requests, NEW ask, req' = [req EXCEPT ![r] = ask],
         NEW CONSTANT n, NEW CONSTANT steps
  PROVE  /\ Cardinality(Attempts(req, n, steps)) \in Nat /\ Cardinality(Attempts(req', n, steps)) \in Nat
         /\ Cardinality(Attempts(req', n, steps)) + Counts(req[r], n, steps)
              <= Cardinality(Attempts(req, n, steps)) + Counts(ask, n, steps)
         /\ Cardinality(Attempts(req, n, steps)) + Counts(ask, n, steps)
              <= Cardinality(Attempts(req', n, steps)) + Counts(req[r], n, steps)
<1> DEFINE A == Attempts(req, n, steps)
           B == Attempts(req', n, steps)
<1>1. req'[r] = ask /\ \A s \in Requests : s # r => req'[s] = req[s]
  BY DEF RequestsShape
<1>2. A \subseteq Requests /\ B \subseteq Requests /\ \A s \in Requests : s # r => (s \in B <=> s \in A)
  BY <1>1 DEF Attempts
<1>3. Counts(req[r], n, steps) = (IF r \in A THEN 1 ELSE 0)
  BY DEF Attempts, Counts
<1>4. Counts(ask, n, steps) = (IF r \in B THEN 1 ELSE 0)
  BY <1>1 DEF Attempts, Counts
<1>5. Cardinality(A) \in Nat /\ Cardinality(B) \in Nat
  BY <1>2, SomeRequests
<1>6. Cardinality(B) + (IF r \in A THEN 1 ELSE 0) = Cardinality(A) + (IF r \in B THEN 1 ELSE 0)
  <2> HIDE DEF A, B
  <2> QED
    BY <1>2, OneRequestChanges
<1>7. QED
  <2> HIDE DEF A, B
  <2>1. QED
    BY <1>3, <1>4, <1>5, <1>6 DEF A, B

-----------------------------------------------------------------------------
(* Steps by what they touch                                                 *)

LEMMA RestIsKnown == NoAsk \in RequestType /\ \A h : Knows(NoAsk, h)
<1>1. NoRow \in RowType /\ NoPassword \in Passwords
  BY DEF RowType, Passwords
<1>2. NoAsk \in RequestType
  BY <1>1 DEF NoAsk, RequestType, Words
<1>3. QED
  BY <1>2 DEF Knows, NoAsk, AdminAsks, BoardAsks

LEMMA MoreHired ==
  ASSUME NEW a \in RequestType, NEW h \in Nat, NEW k \in Nat, h <= k, Knows(a, h)
  PROVE  Knows(a, k)
<1>1. a.self # NoRow => a.self.who \in Nat
  BY DEF RequestType, RowType, PersonType
<1>2. QED
  BY <1>1 DEF Knows

LEMMA RequestsKeep ==
  ASSUME AccountsShape, RequestsShape, NEW r \in Requests, NEW ask \in RequestType, req' = [req EXCEPT ![r] = ask],
         hired' \in Nat, hired <= hired', Knows(ask, hired')
  PROVE  RequestsShape'
<1>1. req' \in [Requests -> RequestType]
  BY DEF RequestsShape
<1>2. ASSUME NEW s \in Requests PROVE Knows(req'[s], hired')
  <2>1. CASE s = r
    BY <2>1 DEF RequestsShape
  <2>2. CASE s # r
    <3>1. req'[s] = req[s] /\ req[s] \in RequestType /\ Knows(req[s], hired) /\ hired \in Nat
      BY <2>2 DEF RequestsShape, AccountsShape
    <3>2. QED
      BY <3>1, MoreHired
  <2>3. QED
    BY <2>1, <2>2
<1>3. RequestType' = RequestType
  BY DEF RequestType, LoginSteps, AdminAsks, BoardAsks
<1>4. QED
  BY <1>1, <1>2, <1>3 DEF RequestsShape

LEMMA ThrottleStep ==
  ASSUME AccountsShape, RequestsShape, ThrottleInv, NEW r \in Requests, NEW ask, req' = [req EXCEPT ![r] = ask],
         NEW CONSTANT n \in Numbers,
         fails'[n] \in Nat, tried'[n] \in Nat, asks' \in Nat, outages' \in Nat, ttl'[n] => fails'[n] > 0,
         fails'[n] + Counts(ask, n, {"wait", "verify", "count"}) + asks
           <= fails[n] + Counts(req[r], n, {"wait", "verify", "count"}) + asks',
         tried'[n] + fails[n] + Counts(req[r], n, {"count"}) + outages
           <= tried[n] + fails'[n] + Counts(ask, n, {"count"}) + outages',
         tried'[n] + Counts(ask, n, {"verify"}) + outages <= tried[n] + Counts(req[r], n, {"verify"}) + outages'
  PROVE  ThrottleAt(n)'
<1>1. /\ fails[n] \in Nat /\ tried[n] \in Nat /\ asks \in Nat /\ outages \in Nat
      /\ MaxAttempts \in Nat /\ Cardinality(Requests) \in Nat
  BY FS_CardinalityType, AccountsAssumption DEF AccountsShape
<1>2. \A steps : Counts(ask, n, steps) \in Nat /\ Counts(req[r], n, steps) \in Nat
  BY DEF Counts
<1>3. fails'[n] + Cardinality(Attempts(req', n, {"wait", "verify", "count"})) <= asks'
  <2>1. /\ Cardinality(Attempts(req, n, {"wait", "verify", "count"})) \in Nat /\ Cardinality(Attempts(req', n, {"wait", "verify", "count"})) \in Nat
        /\ Cardinality(Attempts(req', n, {"wait", "verify", "count"})) + Counts(req[r], n, {"wait", "verify", "count"})
             <= Cardinality(Attempts(req, n, {"wait", "verify", "count"})) + Counts(ask, n, {"wait", "verify", "count"})
    BY AttemptsChange
  <2>2. QED
    BY <1>1, <1>2, <2>1 DEF ThrottleInv, ThrottleAt
<1>4. tried'[n] <= fails'[n] + Cardinality(Attempts(req', n, {"count"})) + outages'
  <2>1. /\ Cardinality(Attempts(req, n, {"count"})) \in Nat /\ Cardinality(Attempts(req', n, {"count"})) \in Nat
        /\ Cardinality(Attempts(req, n, {"count"})) + Counts(ask, n, {"count"})
             <= Cardinality(Attempts(req', n, {"count"})) + Counts(req[r], n, {"count"})
    BY AttemptsChange
  <2>2. QED
    BY <1>1, <1>2, <2>1 DEF ThrottleInv, ThrottleAt
<1>5. tried'[n] + Cardinality(Attempts(req', n, {"verify"})) <= MaxAttempts - 1 + Cardinality(Requests) + outages'
  <2>1. /\ Cardinality(Attempts(req, n, {"verify"})) \in Nat /\ Cardinality(Attempts(req', n, {"verify"})) \in Nat
        /\ Cardinality(Attempts(req', n, {"verify"})) + Counts(req[r], n, {"verify"})
             <= Cardinality(Attempts(req, n, {"verify"})) + Counts(ask, n, {"verify"})
    BY AttemptsChange
  <2>2. QED
    BY <1>1, <1>2, <2>1 DEF ThrottleInv, ThrottleAt
<1>6. QED
  BY <1>3, <1>4, <1>5 DEF ThrottleAt

(* Steps that are no login's.                                               *)
LEMMA ThrottleStays ==
  ASSUME AccountsShape, RequestsShape, ThrottleInv, NEW r \in Requests, NEW ask, req' = [req EXCEPT ![r] = ask],
         req[r].do # "login", ask.do # "login",
         UNCHANGED << fails, ttl, tried, outages >>, asks' \in Nat, asks <= asks'
  PROVE  ThrottleInv'
<1>1. ASSUME NEW CONSTANT n \in Numbers PROVE ThrottleAt(n)'
  <2>1. \A steps : Counts(ask, n, steps) = 0 /\ Counts(req[r], n, steps) = 0
    BY DEF Counts
  <2>2. /\ fails'[n] = fails[n] /\ tried'[n] = tried[n] /\ outages' = outages /\ fails[n] \in Nat /\ tried[n] \in Nat
        /\ outages \in Nat /\ asks \in Nat /\ (ttl'[n] => fails'[n] > 0)
    BY DEF AccountsShape, ThrottleInv, ThrottleAt
  <2>3. /\ fails'[n] + Counts(ask, n, {"wait", "verify", "count"}) + asks
             <= fails[n] + Counts(req[r], n, {"wait", "verify", "count"}) + asks'
        /\ tried'[n] + fails[n] + Counts(req[r], n, {"count"}) + outages
             <= tried[n] + fails'[n] + Counts(ask, n, {"count"}) + outages'
        /\ tried'[n] + Counts(ask, n, {"verify"}) + outages <= tried[n] + Counts(req[r], n, {"verify"}) + outages'
    BY <2>1, <2>2
  <2>4. QED
    BY <2>2, <2>3, ThrottleStep
<1>2. QED
  BY <1>1 DEF ThrottleInv

LEMMA NobodyIsZero ==
  ASSUME NEW row \in RowType
  PROVE  row.who \in Nat /\ (row = NoRow <=> row.who = 0)
<1>1. NoRow.who = 0
  BY DEF NoRow
<1>2. QED
  BY <1>1 DEF RowType, PersonType

Hires(a) == IF a.do \in {"issue", "create"} THEN 1 ELSE 0

LEMMA HiringChanges ==
  ASSUME RequestsShape, NEW r \in Requests, NEW ask, req' = [req EXCEPT ![r] = ask]
  PROVE  /\ Cardinality(Hiring(req)) \in Nat /\ Cardinality(Hiring(req')) \in Nat
         /\ Cardinality(Hiring(req')) + Hires(req[r]) <= Cardinality(Hiring(req)) + Hires(ask)
<1> DEFINE A == Hiring(req)
           B == Hiring(req')
<1>1. req'[r] = ask /\ \A s \in Requests : s # r => req'[s] = req[s]
  BY DEF RequestsShape
<1>2. A \subseteq Requests /\ B \subseteq Requests /\ \A s \in Requests : s # r => (s \in B <=> s \in A)
  BY <1>1 DEF Hiring
<1>3. Hires(req[r]) = (IF r \in A THEN 1 ELSE 0)
  BY DEF Hiring, Hires
<1>4. Hires(ask) = (IF r \in B THEN 1 ELSE 0)
  BY <1>1 DEF Hiring, Hires
<1>5. Cardinality(A) \in Nat /\ Cardinality(B) \in Nat
  BY <1>2, SomeRequests
<1>6. Cardinality(B) + (IF r \in A THEN 1 ELSE 0) = Cardinality(A) + (IF r \in B THEN 1 ELSE 0)
  <2> HIDE DEF A, B
  <2> QED
    BY <1>2, OneRequestChanges
<1>7. QED
  <2> HIDE DEF A, B
  <2>1. QED
    BY <1>3, <1>4, <1>5, <1>6 DEF A, B

(* Steps that leave every number with whom it has.                          *)
LEMMA NumbersStay ==
  ASSUME AccountsShape, RequestsShape, NumbersInv, NEW r \in Requests, NEW ask, req' = [req EXCEPT ![r] = ask],
         account' \in [Numbers -> RowType], \A n \in Numbers : account'[n].who = account[n].who,
         tokens' = tokens, hired' = hired, retired \subseteq retired', asks' \in Nat,
         Hires(ask) + asks <= Hires(req[r]) + asks',
         ask.do = "issue" => \A m \in InUse : m < ask.n,
         ask.do = "login" /\ ask.pc = "clear" => ask.self.who <= hired /\ account[ask.n].who = ask.self.who
  PROVE  NumbersInv'
<1>1. req'[r] = ask /\ \A s \in Requests : s # r => req'[s] = req[s]
  BY DEF RequestsShape
<1>2. \A n \in Numbers : account'[n] = NoRow <=> account[n] = NoRow
  BY NobodyIsZero DEF AccountsShape
<1>3. InUse' = InUse
  BY <1>2 DEF InUse
<1>4. hired' + Cardinality(Hiring(req')) <= asks' + 2
  <2>1. hired \in Nat /\ asks \in Nat /\ Hires(ask) \in Nat /\ Hires(req[r]) \in Nat
    BY DEF AccountsShape, Hires
  <2>2. /\ Cardinality(Hiring(req)) \in Nat /\ Cardinality(Hiring(req')) \in Nat
        /\ Cardinality(Hiring(req')) + Hires(req[r]) <= Cardinality(Hiring(req)) + Hires(ask)
    BY HiringChanges
  <2>3. hired + Cardinality(Hiring(req)) <= asks + 2
    BY DEF NumbersInv
  <2>4. QED
    BY <2>1, <2>2, <2>3
<1>5. ASSUME NEW n \in Numbers, NEW who \in Nat, Claims(n, who)', n \notin retired'
      PROVE  Stands(n, who)'
  <2>1. Claims(n, who) \/ account[n].who = who
    BY <1>1, <1>5 DEF Claims, At
  <2>2. CASE account[n].who = who
    BY <2>2 DEF Stands
  <2>3. CASE Claims(n, who) /\ account[n].who # who
    <3>1. /\ account[n] = NoRow /\ \E m \in InUse : n < m
          /\ \A s \in Requests : ~(At(s, "issue", "write") /\ req[s].n = n)
      BY <1>5, <2>3 DEF NumbersInv, Stands
    <3>2. ~(ask.do = "issue" /\ ask.n = n)
      <4>1. PICK m \in InUse : n < m
        BY <3>1
      <4>2. m \in Int /\ n \in Int
        BY AccountsAssumption DEF InUse, Numbers
      <4>3. QED
        BY <4>1, <4>2
    <3>3. \A s \in Requests : ~(At(s, "issue", "write")' /\ req'[s].n = n)
      BY <1>1, <3>1, <3>2 DEF At
    <3>4. QED
      BY <1>2, <1>3, <3>1, <3>3 DEF Stands
  <2>4. QED
    BY <2>1, <2>2, <2>3
<1>6. \A s \in Requests : At(s, "login", "clear")' => req'[s].self.who <= hired'
  BY <1>1 DEF NumbersInv, At
<1>7. QED
  BY <1>4, <1>5, <1>6 DEF NumbersInv

(* Deleting a person deletes what he wrote, and no more.                    *)
LEMMA PostsStay ==
  ASSUME AccountsShape, RequestsShape, PostsInv, Cascade, moved' = moved, hired' \in Nat, hired <= hired',
         \A s \in Requests : req'[s].do \in BoardAsks => req'[s] = req[s]
  PROVE  PostsInv'
<1> DEFINE gone(who) == \A n \in Numbers : account'[n].who # who
<1>1. ASSUME NEW p \in Posts
      PROVE  /\ post'[p] \in PostType
             /\ \/ post'[p] = GonePost /\ There(p)
                \/ /\ post'[p].category = post[p].category /\ post'[p].author = post[p].author
                   /\ post'[p].made = post[p].made /\ post'[p].comments \subseteq post[p].comments
                   /\ ~There(p) => post'[p] = post[p]
  <2>1. post[p] \in PostType
    BY DEF PostsInv, PostsShape
  <2>2. CASE There(p) /\ gone(post[p].author)
    <3>1. post'[p] = GonePost
      BY <2>2 DEF Cascade
    <3>2. GonePost \in PostType
      BY DEF GonePost, NoPost, PostType
    <3>3. QED
      BY <2>2, <3>1, <3>2
  <2>3. CASE ~(There(p) /\ gone(post[p].author))
    <3>1. PICK left \in SUBSET CommentType : left \subseteq post[p].comments /\ post'[p] = [post[p] EXCEPT !.comments = left]
      <4>1. post'[p] = [post[p] EXCEPT !.comments = {c \in post[p].comments : ~gone(c.author)}]
        BY <2>3 DEF Cascade
      <4>2. post[p].comments \in SUBSET CommentType
        BY <2>1 DEF PostType
      <4>3. QED
        BY <4>1, <4>2
    <3>2. /\ post'[p] \in PostType
          /\ post'[p].category = post[p].category /\ post'[p].author = post[p].author
          /\ post'[p].made = post[p].made /\ post'[p].comments = left
      BY <2>1, <3>1 DEF PostType
    <3>3. ASSUME ~There(p) PROVE post'[p] = post[p]
      <4>1. post[p] \in {NoPost, GonePost}
        BY <3>3 DEF PostsInv, PostsShape, There
      <4>2. left = {}
        BY <3>1, <4>1 DEF NoPost, GonePost
      <4>3. CASE post[p] = NoPost
        BY <3>1, <4>2, <4>3 DEF NoPost
      <4>4. CASE post[p] = GonePost
        <5>1. GonePost = [category |-> "GONE", author |-> 0, comments |-> {}, made |-> "NONE"]
          BY DEF GonePost, NoPost
        <5>2. post'[p] = [category |-> "GONE", author |-> 0, comments |-> left, made |-> "NONE"]
          BY <3>1, <4>4, <5>1
        <5>3. QED
          BY <4>2, <4>4, <5>1, <5>2
      <4>5. QED
        BY <4>1, <4>3, <4>4
    <3>4. QED
      BY <3>1, <3>2, <3>3
  <2>4. QED
    BY <2>2, <2>3
<1>2. GonePost.category = "GONE" /\ GonePost.comments = {} /\ GonePost # NoPost
  BY DEF GonePost, NoPost
<1>3. /\ \A p \in Posts : post'[p] = NoPost <=> post[p] = NoPost
      /\ \A p \in Posts : There(p)' => There(p)
  <2>1. \A p \in Posts : There(p)' => There(p)
    BY <1>1, <1>2 DEF There, PostKinds
  <2>2. ASSUME NEW p \in Posts PROVE post'[p] = NoPost <=> post[p] = NoPost
    <3>1. NoPost.category \notin PostKinds
      BY DEF NoPost, PostKinds
    <3>2. QED
      BY <1>1, <1>2, <3>1 DEF There
  <2>3. QED
    BY <2>1, <2>2
<1>4. PostsShape'
  <2>1. post' \in [Posts -> PostType]
    BY <1>1 DEF Cascade
  <2>2. PostType' = PostType
    BY DEF PostType, CommentType
  <2>3. ASSUME NEW p \in Posts
        PROVE  /\ ~There(p)' => post'[p] \in {NoPost, GonePost}
               /\ There(p)' => post'[p].author \in 1..hired'
               /\ \A c \in post'[p].comments : c.author <= hired'
    <3>1. ~There(p)' => post'[p] \in {NoPost, GonePost}
      <4>1. CASE There(p)
        BY <1>1, <4>1 DEF There
      <4>2. CASE ~There(p)
        BY <1>1, <4>2 DEF PostsInv, PostsShape, There
      <4>3. QED
        BY <4>1, <4>2
    <3>2. There(p)' => post'[p].author \in 1..hired'
      BY <1>1, <1>2 DEF PostsInv, PostsShape, There, PostKinds, AccountsShape
    <3>3. ASSUME NEW c \in post'[p].comments PROVE c.author <= hired'
      <4>1. c \in post[p].comments /\ c.author <= hired
        <5>1. c \in post[p].comments
          BY <1>1, <1>2, <3>3
        <5>2. QED
          BY <5>1 DEF PostsInv, PostsShape
      <4>2. c.author \in Nat /\ hired \in Nat
        BY <4>1 DEF PostsInv, PostsShape, PostType, CommentType, AccountsShape
      <4>3. QED
        BY <4>1, <4>2
    <3>4. QED
      BY <3>1, <3>2, <3>3
  <2>4. moved' \subseteq Posts
    BY DEF PostsInv, PostsShape
  <2>5. QED
    BY <2>1, <2>2, <2>3, <2>4 DEF PostsShape
<1>5. PostsArePlanned'
  <2>1. ASSUME NEW r \in Requests, NEW p \in Posts, req'[r].n = p, req'[r].do \in BoardAsks
        PROVE  /\ req'[r].do = "post" =>
                    post'[p] = NoPost /\ \A s \in Requests : req'[s].do = "post" /\ req'[s].n = p => s = r
               /\ req'[r].do \in {"update", "remove", "comment"} => post'[p] # NoPost
               /\ req'[r].do = "comment" /\ There(p)' /\ p \notin moved' =>
                    post'[p].category # "NOTICE" /\ (post'[p].category = "MANUAL" => req'[r].self.role \in Managers)
    <3>1. req'[r] = req[r]
      BY <2>1
    <3>2. \A s \in Requests : req'[s].do = "post" => req'[s] = req[s]
      BY DEF BoardAsks
    <3>3. /\ req[r].do = "post" => post[p] = NoPost /\ \A s \in Requests : req[s].do = "post" /\ req[s].n = p => s = r
          /\ req[r].do \in {"update", "remove", "comment"} => post[p] # NoPost
          /\ req[r].do = "comment" /\ There(p) /\ p \notin moved =>
               post[p].category # "NOTICE" /\ (post[p].category = "MANUAL" => req[r].self.role \in Managers)
      BY <2>1, <3>1 DEF PostsInv, PostsArePlanned
    <3>4. There(p)' => There(p) /\ post'[p].category = post[p].category
      BY <1>1, <1>2 DEF There, PostKinds
    <3>5. CASE There(p)'
      BY <1>3, <3>1, <3>2, <3>3, <3>4, <3>5
    <3>6. CASE ~There(p)'
      BY <1>3, <3>1, <3>2, <3>3, <3>6
    <3>7. QED
      BY <3>5, <3>6
  <2>2. QED
    BY <2>1 DEF PostsArePlanned, BoardAsks, There
<1>6. NoticeByAdmin'
  BY <1>1, <1>2 DEF PostsInv, NoticeByAdmin
<1>7. CommentsAreAdmitted'
  BY <1>1, <1>2 DEF PostsInv, CommentsAreAdmitted
<1>8. QED
  BY <1>4, <1>5, <1>6, <1>7 DEF PostsInv

-----------------------------------------------------------------------------
(* Logins                                                                   *)

LEMMA LoginKeeps ==
  ASSUME AccountsInv, NEW r \in Requests, NEW n \in Numbers, NEW guess \in Passwords,
         Ready(r), CheckThrottle(r, n, guess)
  PROVE  AccountsInv'
<1>1. PICK pc \in {"wait", "verify"} :
        /\ Begin(r, [NoAsk EXCEPT !.do = "login", !.pc = pc, !.n = n, !.pw = guess])
        /\ pc = "verify" => ~(fails[n] >= MaxAttempts)
        /\ UNCHANGED << account, throttleVars, tokens, hired, outages, retired >>
  BY DEF CheckThrottle, Login
<1>2. PICK ask \in RequestType :
        req' = [req EXCEPT ![r] = ask] /\ ask.do = "login" /\ ask.pc = pc /\ ask.n = n
  <2>1. PICK a \in RequestType : a = NoAsk
    BY RestIsKnown
  <2>2. PICK b \in RequestType : b = [a EXCEPT !.do = "login", !.pc = pc, !.n = n, !.pw = guess]
    BY DEF RequestType, LoginSteps
  <2>3. b.do = "login" /\ b.pc = pc /\ b.n = n
    BY <2>2 DEF RequestType
  <2>4. req' = [req EXCEPT ![r] = b]
    BY <1>1, <2>1, <2>2 DEF Begin
  <2>5. QED
    BY <2>3, <2>4
<1>b. AccountsShape /\ RequestsShape /\ ThrottleInv /\ NumbersInv
  BY DEF AccountsInv
<1>3. /\ req' = [req EXCEPT ![r] = ask] /\ req[r] = NoAsk /\ asks < MaxAsks /\ asks' = asks + 1
      /\ UNCHANGED << account, fails, ttl, tried, refused, tokens, hired, outages, retired >>
      /\ req[r].do = "rest" /\ req[r].pc = "rest"
  <2>1. req' = [req EXCEPT ![r] = ask] /\ req[r] = NoAsk /\ asks < MaxAsks /\ asks' = asks + 1
    BY <1>1, <1>2 DEF Begin, Ready
  <2>2. NoAsk.do = "rest" /\ NoAsk.pc = "rest"
    BY DEF NoAsk
  <2>3. UNCHANGED << account, fails, ttl, tried, refused, tokens, hired, outages, retired >>
    BY <1>1 DEF throttleVars
  <2>4. QED
    BY <2>1, <2>2, <2>3
<1>a. \A h : Knows(ask, h)
  BY <1>2 DEF Knows, LoginSteps, AdminAsks, BoardAsks
<1>4. AccountsShape'
  BY <1>3, AccountsAssumption DEF AccountsInv, AccountsShape
<1>5. RequestsShape'
  <2>1. hired' \in Nat /\ hired <= hired'
    BY <1>3 DEF AccountsInv, AccountsShape
  <2>2. QED
    BY <1>3, <1>a, <2>1, RequestsKeep DEF AccountsInv
<1>6. NumbersInv'
  <2>1. Hires(ask) = 0 /\ Hires(req[r]) = 0
    BY <1>2, <1>3 DEF Hires
  <2>2. /\ account' \in [Numbers -> RowType] /\ \A m \in Numbers : account'[m].who = account[m].who
        /\ asks' \in Nat /\ asks \in Nat /\ retired \subseteq retired' /\ tokens' = tokens /\ hired' = hired
        /\ Hires(ask) + asks <= Hires(req[r]) + asks'
    BY <1>3, <2>1 DEF AccountsInv, AccountsShape
  <2>3. QED
    BY <1>1, <1>2, <1>b, <2>1, <2>2, NumbersStay
<1>7. ThrottleInv'
  <2> SUFFICES ASSUME NEW CONSTANT m \in Numbers PROVE ThrottleAt(m)'
    BY DEF ThrottleInv
  <2>1. /\ fails'[m] = fails[m] /\ tried'[m] = tried[m] /\ outages' = outages /\ asks' = asks + 1
        /\ fails[m] \in Nat /\ tried[m] \in Nat /\ outages \in Nat /\ asks \in Nat
        /\ ttl'[m] => fails'[m] > 0
    BY <1>3 DEF AccountsInv, AccountsShape, ThrottleInv, ThrottleAt
  <2>2. \A steps : Counts(req[r], m, steps) = 0
    BY <1>3 DEF Counts
  <2>3. /\ Counts(ask, m, {"wait", "verify", "count"}) <= 1 /\ Counts(ask, m, {"count"}) = 0
        /\ \A steps : Counts(ask, m, steps) \in 0..1
        /\ Counts(ask, m, {"verify"}) > 0 => m = n /\ pc = "verify"
    BY <1>1, <1>2 DEF Counts
  <2>4. CASE Counts(ask, m, {"verify"}) = 0
    <3>1. /\ fails'[m] + Counts(ask, m, {"wait", "verify", "count"}) + asks
               <= fails[m] + Counts(req[r], m, {"wait", "verify", "count"}) + asks'
          /\ tried'[m] + fails[m] + Counts(req[r], m, {"count"}) + outages
               <= tried[m] + fails'[m] + Counts(ask, m, {"count"}) + outages'
          /\ tried'[m] + Counts(ask, m, {"verify"}) + outages <= tried[m] + Counts(req[r], m, {"verify"}) + outages'
      BY <2>1, <2>2, <2>3, <2>4
    <3>2. /\ fails'[m] \in Nat /\ tried'[m] \in Nat /\ asks' \in Nat /\ outages' \in Nat
          /\ ttl'[m] => fails'[m] > 0
      BY <2>1
    <3>3. QED
      BY <1>2, <1>b, <3>1, <3>2, ThrottleStep
  <2>5. CASE Counts(ask, m, {"verify"}) > 0
    <3>1. m = n /\ fails[m] < MaxAttempts /\ MaxAttempts \in Nat
      BY <1>1, <2>1, <2>3, <2>5, AccountsAssumption
    <3>2. PICK a \in Nat, b \in Nat, c \in Nat, d \in Nat :
            /\ a = Cardinality(Attempts(req', m, {"verify"})) /\ b = Cardinality(Attempts(req', m, {"count"}))
            /\ c = Cardinality(Attempts(req, m, {"count"})) /\ d = Cardinality(Requests)
            /\ a + b <= d
      <4> DEFINE V == Attempts(req', m, {"verify"})
                 C == Attempts(req', m, {"count"})
      <4>1. V \subseteq Requests /\ C \subseteq Requests /\ V \cap C = {}
        BY DEF Attempts
      <4>2. IsFiniteSet(V) /\ IsFiniteSet(C) /\ Cardinality(V) \in Nat /\ Cardinality(C) \in Nat /\ Cardinality(Requests) \in Nat
        <5> HIDE DEF V, C
        <5> QED
          BY <4>1, SomeRequests
      <4>3. Cardinality(V \cup C) = Cardinality(V) + Cardinality(C) /\ Cardinality(V \cup C) <= Cardinality(Requests)
        <5> HIDE DEF V, C
        <5>1. Cardinality(V \cup C) <= Cardinality(Requests)
          BY <4>1, SomeRequests
        <5>2. Cardinality(V \cup C) = Cardinality(V) + Cardinality(C) - Cardinality(V \cap C)
          BY <4>2, FS_Union
        <5>3. Cardinality(V \cap C) = 0
          BY <4>1, FS_EmptySet
        <5>4. QED
          BY <4>2, <5>1, <5>2, <5>3
      <4>4. Cardinality(Attempts(req, m, {"count"})) \in Nat
        BY SomeRequests DEF Attempts
      <4>5. QED
        BY <4>2, <4>3, <4>4
    <3>3. c <= b
      <4>1. /\ Cardinality(Attempts(req, m, {"count"})) + Counts(ask, m, {"count"})
                 <= Cardinality(Attempts(req', m, {"count"})) + Counts(req[r], m, {"count"})
        BY <1>3, AttemptsChange DEF AccountsInv
      <4>2. QED
        BY <2>2, <2>3, <3>2, <4>1
    <3>4. tried[m] <= fails[m] + c + outages
      BY <3>2 DEF AccountsInv, ThrottleInv, ThrottleAt
    <3>5. tried'[m] + a <= MaxAttempts - 1 + d + outages'
      BY <2>1, <3>1, <3>2, <3>3, <3>4
    <3>6. tried'[m] <= fails'[m] + b + outages'
      BY <2>1, <3>2, <3>3, <3>4
    <3>7. fails'[m] + Cardinality(Attempts(req', m, {"wait", "verify", "count"})) <= asks'
      <4>1. /\ Cardinality(Attempts(req, m, {"wait", "verify", "count"})) \in Nat
            /\ Cardinality(Attempts(req', m, {"wait", "verify", "count"})) \in Nat
            /\ Cardinality(Attempts(req', m, {"wait", "verify", "count"})) + Counts(req[r], m, {"wait", "verify", "count"})
                 <= Cardinality(Attempts(req, m, {"wait", "verify", "count"})) + Counts(ask, m, {"wait", "verify", "count"})
        BY <1>3, AttemptsChange DEF AccountsInv
      <4>2. fails[m] + Cardinality(Attempts(req, m, {"wait", "verify", "count"})) <= asks
        BY DEF AccountsInv, ThrottleInv, ThrottleAt
      <4>3. QED
        BY <2>1, <2>2, <2>3, <4>1, <4>2
    <3>8. QED
      BY <2>1, <3>2, <3>5, <3>6, <3>7 DEF ThrottleAt
  <2>6. QED
    BY <2>3, <2>4, <2>5
<1>8. QED
  BY <1>4, <1>5, <1>6, <1>7 DEF AccountsInv

(* A login goes on, or ends, and nobody gets a token.                       *)
LoginMovesTo(r, to) == IF to = "rest" THEN End(r) ELSE Goto(r, to)

Holds(pc, steps) == IF pc \in steps THEN 1 ELSE 0

LEMMA LoginMoves ==
  ASSUME AccountsInv, NEW r \in Requests, req[r].do = "login",
         NEW to \in {"rest", "verify", "count", "expire"}, LoginMovesTo(r, to),
         NEW n \in Numbers, n = req[r].n,
         UNCHANGED << account, tokens, hired, asks, retired >>, refused' \subseteq Numbers,
         fails' \in [Numbers -> Nat], ttl' \in [Numbers -> BOOLEAN], tried' \in [Numbers -> Nat],
         outages' \in 0..MaxOutages, outages <= outages',
         \A m \in Numbers : ttl'[m] => fails'[m] > 0,
         \A m \in Numbers : m # n => fails'[m] <= fails[m] /\ fails[m] <= fails'[m] /\ tried'[m] <= tried[m],
         fails'[n] + Holds(to, {"wait", "verify", "count"}) <= fails[n] + Holds(req[r].pc, {"wait", "verify", "count"}),
         tried'[n] + fails[n] + Holds(req[r].pc, {"count"}) + outages
           <= tried[n] + fails'[n] + Holds(to, {"count"}) + outages',
         tried'[n] + Holds(to, {"verify"}) + outages <= tried[n] + Holds(req[r].pc, {"verify"}) + outages'
  PROVE  AccountsInv'
<1>1. AccountsShape /\ RequestsShape /\ ThrottleInv /\ NumbersInv
  BY DEF AccountsInv
<1>2. PICK ask \in RequestType :
        /\ req' = [req EXCEPT ![r] = ask] /\ Knows(ask, hired) /\ ask.pc = to
        /\ to = "rest" => ask.do = "rest"
        /\ to # "rest" => ask.do = "login" /\ ask.n = n
  <2>1. CASE to = "rest"
    <3>1. req' = [req EXCEPT ![r] = NoAsk]
      BY <2>1 DEF LoginMovesTo, End
    <3>2. NoAsk.do = "rest" /\ NoAsk.pc = "rest"
      BY DEF NoAsk
    <3>3. QED
      BY <2>1, <3>1, <3>2, RestIsKnown
  <2>2. CASE to # "rest"
    <3>1. PICK a \in RequestType : a = req[r] /\ Knows(a, hired)
      BY <1>1 DEF RequestsShape
    <3>2. PICK b \in RequestType : b = [a EXCEPT !.pc = to]
      BY <2>2 DEF RequestType, LoginSteps
    <3>3. b.do = "login" /\ b.pc = to /\ b.n = n
      BY <3>1, <3>2 DEF RequestType
    <3>4. Knows(b, hired)
      BY <2>2, <3>3 DEF Knows, LoginSteps, AdminAsks, BoardAsks
    <3>5. req' = [req EXCEPT ![r] = b]
      BY <2>2, <3>1, <3>2 DEF LoginMovesTo, Goto
    <3>6. QED
      BY <2>2, <3>3, <3>4, <3>5
  <2>3. QED
    BY <2>1, <2>2
<1>3. AccountsShape'
  BY <1>1 DEF AccountsShape
<1>4. RequestsShape'
  <2>1. hired' \in Nat /\ hired <= hired' /\ Knows(ask, hired')
    BY <1>1, <1>2 DEF AccountsShape
  <2>2. QED
    BY <1>1, <1>2, <2>1, RequestsKeep
<1>5. NumbersInv'
  <2>1. Hires(ask) = 0 /\ Hires(req[r]) = 0
    BY <1>2 DEF Hires
  <2>2. /\ account' \in [Numbers -> RowType] /\ \A m \in Numbers : account'[m].who = account[m].who
        /\ asks' \in Nat /\ Hires(ask) + asks <= Hires(req[r]) + asks' /\ retired \subseteq retired'
        /\ tokens' = tokens /\ hired' = hired
    BY <1>1, <2>1 DEF AccountsShape
  <2>3. ask.do # "issue" /\ ask.pc # "clear"
    BY <1>2
  <2>4. QED
    BY <1>1, <1>2, <2>2, <2>3, NumbersStay
<1>6. ThrottleInv'
  <2> SUFFICES ASSUME NEW CONSTANT m \in Numbers PROVE ThrottleAt(m)'
    BY DEF ThrottleInv
  <2>1. /\ fails'[m] \in Nat /\ tried'[m] \in Nat /\ asks' \in Nat /\ outages' \in Nat
        /\ fails[m] \in Nat /\ tried[m] \in Nat /\ asks' = asks /\ outages \in Nat
        /\ ttl'[m] => fails'[m] > 0
    BY <1>1 DEF AccountsShape
  <2>2. /\ fails'[m] + Counts(ask, m, {"wait", "verify", "count"}) + asks
             <= fails[m] + Counts(req[r], m, {"wait", "verify", "count"}) + asks'
        /\ tried'[m] + fails[m] + Counts(req[r], m, {"count"}) + outages
             <= tried[m] + fails'[m] + Counts(ask, m, {"count"}) + outages'
        /\ tried'[m] + Counts(ask, m, {"verify"}) + outages <= tried[m] + Counts(req[r], m, {"verify"}) + outages'
    <3>1. CASE m = n
      <4>1. /\ Counts(ask, m, {"wait", "verify", "count"}) = Holds(to, {"wait", "verify", "count"})
            /\ Counts(req[r], m, {"wait", "verify", "count"}) = Holds(req[r].pc, {"wait", "verify", "count"})
            /\ Counts(ask, m, {"count"}) = Holds(to, {"count"}) /\ Counts(req[r], m, {"count"}) = Holds(req[r].pc, {"count"})
            /\ Counts(ask, m, {"verify"}) = Holds(to, {"verify"}) /\ Counts(req[r], m, {"verify"}) = Holds(req[r].pc, {"verify"})
        BY <1>2, <3>1 DEF Counts, Holds
      <4>2. \A pc, steps : Holds(pc, steps) \in Nat
        BY DEF Holds
      <4>3. QED
        BY <2>1, <3>1, <4>1, <4>2, <1>1 DEF AccountsShape
    <3>2. CASE m # n
      <4>1. \A steps : Counts(ask, m, steps) = 0 /\ Counts(req[r], m, steps) = 0
        BY <1>2, <3>2 DEF Counts
      <4>2. QED
        BY <1>1, <2>1, <3>2, <4>1 DEF AccountsShape
    <3>3. QED
      BY <3>1, <3>2
  <2>3. QED
    BY <1>1, <1>2, <2>1, <2>2, ThrottleStep
<1>7. QED
  BY <1>3, <1>4, <1>5, <1>6 DEF AccountsInv

LEMMA LoginAt ==
  ASSUME AccountsInv, NEW r \in Requests, req[r].do = "login"
  PROVE  /\ req[r].n \in Numbers /\ req[r].pc \in LoginSteps
         /\ fails \in [Numbers -> Nat] /\ ttl \in [Numbers -> BOOLEAN] /\ tried \in [Numbers -> Nat]
         /\ refused \subseteq Numbers /\ outages \in 0..MaxOutages /\ \A m \in Numbers : ttl[m] => fails[m] > 0
  BY DEF AccountsInv, AccountsShape, RequestsShape, Knows, ThrottleInv, ThrottleAt

LEMMA RefuseKeeps ==
  ASSUME AccountsInv, NEW r \in Requests, Refuse(r)
  PROVE  AccountsInv'
<1>1. req[r].do = "login" /\ req[r].pc = "wait" /\ LoginMovesTo(r, "rest")
  BY DEF Refuse, At, LoginMovesTo
<1>2. PICK n \in Numbers : n = req[r].n
  BY <1>1, LoginAt
<1>3. /\ UNCHANGED << account, tokens, hired, asks, retired, fails, tried, outages >>
      /\ ttl' = [ttl EXCEPT ![n] = fails[n] > 0]
      /\ refused' \subseteq Numbers
  BY <1>1, <1>2, LoginAt DEF Refuse
<1>4. ttl' \in [Numbers -> BOOLEAN] /\ \A m \in Numbers : ttl'[m] => fails'[m] > 0
  <2>1. PICK b \in BOOLEAN : b = (fails[n] > 0)
    <3>1. (fails[n] > 0) \in BOOLEAN
      OBVIOUS
    <3>2. QED
      BY <3>1
  <2>2. ttl' = [ttl EXCEPT ![n] = b]
    BY <1>3, <2>1
  <2>3. QED
    BY <1>1, <1>2, <1>3, <2>1, <2>2, LoginAt
<1>5. /\ Holds("wait", {"wait", "verify", "count"}) = 1 /\ Holds("wait", {"count"}) = 0 /\ Holds("wait", {"verify"}) = 0
      /\ Holds("rest", {"wait", "verify", "count"}) = 0 /\ Holds("rest", {"count"}) = 0 /\ Holds("rest", {"verify"}) = 0
  BY DEF Holds
<1>6. QED
  <2>1. /\ fails \in [Numbers -> Nat] /\ tried \in [Numbers -> Nat] /\ outages \in 0..MaxOutages
    BY <1>1, LoginAt
  <2>2. /\ fails'[n] + Holds("rest", {"wait", "verify", "count"}) <= fails[n] + Holds(req[r].pc, {"wait", "verify", "count"})
        /\ tried'[n] + fails[n] + Holds(req[r].pc, {"count"}) + outages
             <= tried[n] + fails'[n] + Holds("rest", {"count"}) + outages'
        /\ tried'[n] + Holds("rest", {"verify"}) + outages <= tried[n] + Holds(req[r].pc, {"verify"}) + outages'
    BY <1>1, <1>2, <1>3, <1>5, <2>1
  <2>3. /\ fails' \in [Numbers -> Nat] /\ tried' \in [Numbers -> Nat] /\ outages' \in 0..MaxOutages /\ outages <= outages'
        /\ \A m \in Numbers : m # n => fails'[m] <= fails[m] /\ fails[m] <= fails'[m] /\ tried'[m] <= tried[m]
    BY <1>3, <2>1
  <2>4. QED
    BY <1>1, <1>2, <1>3, <1>4, <2>2, <2>3, LoginMoves

(* Wrong passwords are counted when they are judged.                        *)
LEMMA RefusedKeeps ==
  ASSUME AccountsInv, NEW r \in Requests, req[r].do = "login", req[r].pc = "verify",
         NEW n \in Numbers, n = req[r].n, Goto(r, "count"), tried' = [tried EXCEPT ![n] = @ + 1],
         UNCHANGED << account, fails, ttl, refused, tokens, hired, asks, outages, retired >>
  PROVE  AccountsInv'
<1>1. /\ fails \in [Numbers -> Nat] /\ tried \in [Numbers -> Nat] /\ outages \in 0..MaxOutages
      /\ ttl \in [Numbers -> BOOLEAN] /\ refused \subseteq Numbers /\ \A m \in Numbers : ttl[m] => fails[m] > 0
  BY LoginAt
<1>2. LoginMovesTo(r, "count")
  BY DEF LoginMovesTo
<1>3. /\ Holds("verify", {"wait", "verify", "count"}) = 1 /\ Holds("verify", {"count"}) = 0 /\ Holds("verify", {"verify"}) = 1
      /\ Holds("count", {"wait", "verify", "count"}) = 1 /\ Holds("count", {"count"}) = 1 /\ Holds("count", {"verify"}) = 0
  BY DEF Holds
<1>4. tried' \in [Numbers -> Nat] /\ tried'[n] = tried[n] + 1 /\ \A m \in Numbers : m # n => tried'[m] = tried[m]
  BY <1>1
<1>5. /\ fails'[n] + Holds("count", {"wait", "verify", "count"}) <= fails[n] + Holds(req[r].pc, {"wait", "verify", "count"})
      /\ tried'[n] + fails[n] + Holds(req[r].pc, {"count"}) + outages
           <= tried[n] + fails'[n] + Holds("count", {"count"}) + outages'
      /\ tried'[n] + Holds("count", {"verify"}) + outages <= tried[n] + Holds(req[r].pc, {"verify"}) + outages'
  BY <1>1, <1>3, <1>4
<1>6. /\ fails' \in [Numbers -> Nat] /\ outages' \in 0..MaxOutages /\ outages <= outages' /\ refused' \subseteq Numbers
      /\ ttl' \in [Numbers -> BOOLEAN] /\ \A m \in Numbers : ttl'[m] => fails'[m] > 0
      /\ \A m \in Numbers : m # n => fails'[m] <= fails[m] /\ fails[m] <= fails'[m] /\ tried'[m] <= tried[m]
  BY <1>1, <1>4
<1>7. QED
  BY <1>2, <1>4, <1>5, <1>6, LoginMoves

(* The login ends without a word to the throttle.                           *)
LEMMA LoginEnds ==
  ASSUME AccountsInv, NEW r \in Requests, req[r].do = "login", End(r), refused' \subseteq Numbers,
         UNCHANGED << account, fails, ttl, tried, tokens, hired, asks, retired >>,
         outages' \in 0..MaxOutages,
         (outages' = outages /\ req[r].pc # "count") \/ outages' = outages + 1
  PROVE  AccountsInv'
<1>1. /\ fails \in [Numbers -> Nat] /\ tried \in [Numbers -> Nat] /\ outages \in 0..MaxOutages
      /\ ttl \in [Numbers -> BOOLEAN] /\ \A m \in Numbers : ttl[m] => fails[m] > 0
  BY LoginAt
<1>2. PICK n \in Numbers : n = req[r].n
  BY LoginAt
<1>3. LoginMovesTo(r, "rest")
  BY DEF LoginMovesTo
<1>4. /\ \A steps : Holds(req[r].pc, steps) \in 0..1
      /\ req[r].pc # "count" => Holds(req[r].pc, {"count"}) = 0
      /\ Holds("rest", {"wait", "verify", "count"}) = 0 /\ Holds("rest", {"count"}) = 0 /\ Holds("rest", {"verify"}) = 0
  BY DEF Holds
<1>5. /\ Holds(req[r].pc, {"wait", "verify", "count"}) \in 0..1 /\ Holds(req[r].pc, {"count"}) \in 0..1
      /\ Holds(req[r].pc, {"verify"}) \in 0..1
  BY <1>4
<1>6. /\ fails'[n] + Holds("rest", {"wait", "verify", "count"}) <= fails[n] + Holds(req[r].pc, {"wait", "verify", "count"})
      /\ tried'[n] + fails[n] + Holds(req[r].pc, {"count"}) + outages
           <= tried[n] + fails'[n] + Holds("rest", {"count"}) + outages'
      /\ tried'[n] + Holds("rest", {"verify"}) + outages <= tried[n] + Holds(req[r].pc, {"verify"}) + outages'
  <2>1. CASE outages' = outages /\ req[r].pc # "count"
    BY <1>1, <1>4, <1>5, <2>1
  <2>2. CASE outages' = outages + 1
    BY <1>1, <1>4, <1>5, <2>2
  <2>3. QED
    BY <2>1, <2>2
<1>7. /\ fails' \in [Numbers -> Nat] /\ tried' \in [Numbers -> Nat] /\ outages <= outages'
      /\ ttl' \in [Numbers -> BOOLEAN] /\ \A m \in Numbers : ttl'[m] => fails'[m] > 0
      /\ \A m \in Numbers : m # n => fails'[m] <= fails[m] /\ fails[m] <= fails'[m] /\ tried'[m] <= tried[m]
  BY <1>1
<1>8. QED
  BY <1>2, <1>3, <1>6, <1>7, LoginMoves

LEMMA CountKeeps ==
  ASSUME AccountsInv, NEW r \in Requests, Count(r)
  PROVE  AccountsInv'
<1>1. req[r].do = "login" /\ req[r].pc = "count"
  BY DEF Count, At
<1>2. /\ fails \in [Numbers -> Nat] /\ tried \in [Numbers -> Nat] /\ outages \in 0..MaxOutages
      /\ ttl \in [Numbers -> BOOLEAN] /\ refused \subseteq Numbers /\ \A m \in Numbers : ttl[m] => fails[m] > 0
  BY <1>1, LoginAt
<1>3. PICK n \in Numbers : n = req[r].n
  BY <1>1, LoginAt
<1>4. /\ UNCHANGED << account, ttl, tried, refused, tokens, hired, asks, outages, retired >>
      /\ fails' = [fails EXCEPT ![n] = @ + 1]
  BY <1>3 DEF Count
<1>5. PICK to \in {"rest", "expire"} : LoginMovesTo(r, to)
  BY DEF Count, LoginMovesTo
<1>6. /\ Holds("count", {"wait", "verify", "count"}) = 1 /\ Holds("count", {"count"}) = 1 /\ Holds("count", {"verify"}) = 0
      /\ Holds(to, {"wait", "verify", "count"}) = 0 /\ Holds(to, {"count"}) = 0 /\ Holds(to, {"verify"}) = 0
  BY DEF Holds
<1>7. fails' \in [Numbers -> Nat] /\ fails'[n] = fails[n] + 1 /\ \A m \in Numbers : m # n => fails'[m] = fails[m]
  BY <1>2, <1>4
<1>8. /\ fails'[n] + Holds(to, {"wait", "verify", "count"}) <= fails[n] + Holds(req[r].pc, {"wait", "verify", "count"})
      /\ tried'[n] + fails[n] + Holds(req[r].pc, {"count"}) + outages
           <= tried[n] + fails'[n] + Holds(to, {"count"}) + outages'
      /\ tried'[n] + Holds(to, {"verify"}) + outages <= tried[n] + Holds(req[r].pc, {"verify"}) + outages'
  BY <1>1, <1>2, <1>4, <1>6, <1>7
<1>9. /\ tried' \in [Numbers -> Nat] /\ outages' \in 0..MaxOutages /\ outages <= outages' /\ refused' \subseteq Numbers
      /\ ttl' \in [Numbers -> BOOLEAN] /\ \A m \in Numbers : ttl'[m] => fails'[m] > 0
      /\ \A m \in Numbers : m # n => fails'[m] <= fails[m] /\ fails[m] <= fails'[m] /\ tried'[m] <= tried[m]
  <2>1. \A m \in Numbers : ttl'[m] => fails'[m] > 0
    BY <1>2, <1>4, <1>7
  <2>2. QED
    BY <1>2, <1>4, <1>7, <2>1
<1>10. UNCHANGED << account, tokens, hired, asks, retired >> /\ fails' \in [Numbers -> Nat]
  BY <1>4, <1>7
<1>11. QED
  BY <1>1, <1>3, <1>5, <1>8, <1>9, <1>10, LoginMoves

LEMMA SetExpiryKeeps ==
  ASSUME AccountsInv, NEW r \in Requests, SetExpiry(r)
  PROVE  AccountsInv'
<1>1. req[r].do = "login" /\ req[r].pc = "expire" /\ LoginMovesTo(r, "rest")
  BY DEF SetExpiry, At, LoginMovesTo
<1>2. PICK n \in Numbers : n = req[r].n
  BY <1>1, LoginAt
<1>3. /\ UNCHANGED << account, tokens, hired, asks, retired, fails, tried, refused, outages >>
      /\ ttl' = [ttl EXCEPT ![n] = fails[n] > 0]
  BY <1>2 DEF SetExpiry
<1>4. ttl' \in [Numbers -> BOOLEAN] /\ \A m \in Numbers : ttl'[m] => fails'[m] > 0
  <2>1. PICK b \in BOOLEAN : b = (fails[n] > 0)
    <3>1. (fails[n] > 0) \in BOOLEAN
      OBVIOUS
    <3>2. QED
      BY <3>1
  <2>2. ttl' = [ttl EXCEPT ![n] = b]
    BY <1>3, <2>1
  <2>3. QED
    BY <1>1, <1>2, <1>3, <2>1, <2>2, LoginAt
<1>5. /\ Holds("expire", {"wait", "verify", "count"}) = 0 /\ Holds("expire", {"count"}) = 0 /\ Holds("expire", {"verify"}) = 0
      /\ Holds("rest", {"wait", "verify", "count"}) = 0 /\ Holds("rest", {"count"}) = 0 /\ Holds("rest", {"verify"}) = 0
  BY DEF Holds
<1>6. QED
  <2>1. /\ fails \in [Numbers -> Nat] /\ tried \in [Numbers -> Nat] /\ outages \in 0..MaxOutages /\ refused \subseteq Numbers
    BY <1>1, LoginAt
  <2>2. /\ fails'[n] + Holds("rest", {"wait", "verify", "count"}) <= fails[n] + Holds(req[r].pc, {"wait", "verify", "count"})
        /\ tried'[n] + fails[n] + Holds(req[r].pc, {"count"}) + outages
             <= tried[n] + fails'[n] + Holds("rest", {"count"}) + outages'
        /\ tried'[n] + Holds("rest", {"verify"}) + outages <= tried[n] + Holds(req[r].pc, {"verify"}) + outages'
    BY <1>1, <1>2, <1>3, <1>5, <2>1
  <2>3. /\ fails' \in [Numbers -> Nat] /\ tried' \in [Numbers -> Nat] /\ outages' \in 0..MaxOutages /\ outages <= outages'
        /\ refused' \subseteq Numbers
        /\ \A m \in Numbers : m # n => fails'[m] <= fails[m] /\ fails[m] <= fails'[m] /\ tried'[m] <= tried[m]
    BY <1>3, <2>1
  <2>4. QED
    BY <1>1, <1>2, <1>3, <1>4, <2>2, <2>3, LoginMoves

(* Without Redis who should wait is let in.                                 *)
LEMMA LetInKeeps ==
  ASSUME AccountsInv, NEW r \in Requests, req[r].do = "login", req[r].pc = "wait", Goto(r, "verify"),
         UNCHANGED << account, fails, ttl, tried, refused, tokens, hired, asks, retired >>,
         outages' \in 0..MaxOutages, outages' = outages + 1
  PROVE  AccountsInv'
<1>1. /\ fails \in [Numbers -> Nat] /\ tried \in [Numbers -> Nat] /\ outages \in 0..MaxOutages
      /\ ttl \in [Numbers -> BOOLEAN] /\ refused \subseteq Numbers /\ \A m \in Numbers : ttl[m] => fails[m] > 0
  BY LoginAt
<1>2. PICK n \in Numbers : n = req[r].n
  BY LoginAt
<1>3. LoginMovesTo(r, "verify")
  BY DEF LoginMovesTo
<1>4. /\ Holds("verify", {"wait", "verify", "count"}) = 1 /\ Holds("verify", {"count"}) = 0 /\ Holds("verify", {"verify"}) = 1
      /\ Holds("wait", {"wait", "verify", "count"}) = 1 /\ Holds("wait", {"count"}) = 0 /\ Holds("wait", {"verify"}) = 0
  BY DEF Holds
<1>5. /\ fails'[n] + Holds("verify", {"wait", "verify", "count"}) <= fails[n] + Holds(req[r].pc, {"wait", "verify", "count"})
      /\ tried'[n] + fails[n] + Holds(req[r].pc, {"count"}) + outages
           <= tried[n] + fails'[n] + Holds("verify", {"count"}) + outages'
      /\ tried'[n] + Holds("verify", {"verify"}) + outages <= tried[n] + Holds(req[r].pc, {"verify"}) + outages'
  BY <1>1, <1>4
<1>6. /\ fails' \in [Numbers -> Nat] /\ tried' \in [Numbers -> Nat] /\ outages <= outages' /\ refused' \subseteq Numbers
      /\ ttl' \in [Numbers -> BOOLEAN] /\ \A m \in Numbers : ttl'[m] => fails'[m] > 0
      /\ \A m \in Numbers : m # n => fails'[m] <= fails[m] /\ fails[m] <= fails'[m] /\ tried'[m] <= tried[m]
  BY <1>1
<1>7. QED
  BY <1>2, <1>3, <1>5, <1>6, LoginMoves

(* The right password of an account that is in use.                         *)
LEMMA AdmittedKeeps ==
  ASSUME AccountsInv, NEW r \in Requests, req[r].do = "login", req[r].pc = "verify",
         NEW n \in Numbers, n = req[r].n, account[n] # NoRow,
         req' = [req EXCEPT ![r].pc = "clear", ![r].self = account[n]],
         UNCHANGED << account, fails, ttl, tried, refused, tokens, hired, asks, outages, retired >>
  PROVE  AccountsInv'
<1>1. AccountsShape /\ RequestsShape /\ ThrottleInv /\ NumbersInv
  BY DEF AccountsInv
<1>2. account[n] \in RowType /\ account[n].who <= hired
  BY <1>1 DEF AccountsShape
<1>3. PICK ask \in RequestType :
        /\ req' = [req EXCEPT ![r] = ask] /\ Knows(ask, hired)
        /\ ask.do = "login" /\ ask.pc = "clear" /\ ask.n = n /\ ask.self = account[n]
  <2>1. PICK a \in RequestType : a = req[r]
    BY <1>1 DEF RequestsShape
  <2>2. PICK row \in RowType : row = account[n]
    BY <1>2
  <2>3. PICK b \in RequestType : b = [a EXCEPT !.pc = "clear", !.self = row]
    BY DEF RequestType, LoginSteps
  <2>4. b.do = "login" /\ b.pc = "clear" /\ b.n = n /\ b.self = row
    BY <2>1, <2>3 DEF RequestType
  <2>5. Knows(b, hired)
    BY <2>2, <2>4 DEF Knows, LoginSteps, AdminAsks, BoardAsks
  <2>6. req' = [req EXCEPT ![r] = b]
    BY <1>1, <2>1, <2>2, <2>3 DEF RequestsShape
  <2>7. QED
    BY <2>2, <2>4, <2>5, <2>6
<1>4. AccountsShape'
  BY <1>1 DEF AccountsShape
<1>5. RequestsShape'
  <2>1. hired' \in Nat /\ hired <= hired' /\ Knows(ask, hired')
    BY <1>1, <1>3 DEF AccountsShape
  <2>2. QED
    BY <1>1, <1>3, <2>1, RequestsKeep
<1>6. NumbersInv'
  <2>1. Hires(ask) = 0 /\ Hires(req[r]) = 0
    BY <1>3 DEF Hires
  <2>2. /\ account' \in [Numbers -> RowType] /\ \A m \in Numbers : account'[m].who = account[m].who
        /\ asks' \in Nat /\ Hires(ask) + asks <= Hires(req[r]) + asks' /\ retired \subseteq retired'
        /\ tokens' = tokens /\ hired' = hired
    BY <1>1, <2>1 DEF AccountsShape
  <2>3. ask.do # "issue" /\ ask.self.who <= hired /\ account[ask.n].who = ask.self.who
    BY <1>2, <1>3
  <2>4. QED
    BY <1>1, <1>3, <2>2, <2>3, NumbersStay
<1>7. ThrottleInv'
  <2> SUFFICES ASSUME NEW CONSTANT m \in Numbers PROVE ThrottleAt(m)'
    BY DEF ThrottleInv
  <2>1. /\ fails'[m] \in Nat /\ tried'[m] \in Nat /\ asks' \in Nat /\ outages' \in Nat
        /\ fails[m] \in Nat /\ tried[m] \in Nat /\ asks' = asks /\ outages \in Nat
        /\ fails'[m] = fails[m] /\ tried'[m] = tried[m] /\ outages' = outages
        /\ ttl'[m] => fails'[m] > 0
    BY <1>1 DEF AccountsShape, ThrottleInv, ThrottleAt
  <2>2. /\ Counts(ask, m, {"wait", "verify", "count"}) = 0 /\ Counts(ask, m, {"count"}) = 0 /\ Counts(ask, m, {"verify"}) = 0
        /\ Counts(req[r], m, {"wait", "verify", "count"}) \in Nat /\ Counts(req[r], m, {"count"}) = 0
        /\ Counts(req[r], m, {"verify"}) \in Nat
    BY <1>3 DEF Counts
  <2>3. /\ fails'[m] + Counts(ask, m, {"wait", "verify", "count"}) + asks
             <= fails[m] + Counts(req[r], m, {"wait", "verify", "count"}) + asks'
        /\ tried'[m] + fails[m] + Counts(req[r], m, {"count"}) + outages
             <= tried[m] + fails'[m] + Counts(ask, m, {"count"}) + outages'
        /\ tried'[m] + Counts(ask, m, {"verify"}) + outages <= tried[m] + Counts(req[r], m, {"verify"}) + outages'
    BY <2>1, <2>2
  <2>4. QED
    BY <1>1, <1>3, <2>1, <2>3, ThrottleStep
<1>8. QED
  BY <1>4, <1>5, <1>6, <1>7 DEF AccountsInv

LEMMA VerifyKeeps ==
  ASSUME AccountsInv, NEW r \in Requests, Verify(r)
  PROVE  AccountsInv'
<1>1. req[r].do = "login" /\ req[r].pc = "verify"
  BY DEF Verify, At
<1>2. PICK n \in Numbers : n = req[r].n
  BY <1>1, LoginAt
<1>3. UNCHANGED << account, fails, ttl, refused, tokens, hired, asks, outages, retired >>
  BY DEF Verify
<1>4. CASE account[n] = NoRow \/ account[n].pw # req[r].pw
  <2>1. Goto(r, "count") /\ tried' = [tried EXCEPT ![n] = @ + 1]
    BY <1>2, <1>4 DEF Verify
  <2>2. QED
    BY <1>1, <1>2, <1>3, <2>1, RefusedKeeps
<1>5. CASE ~(account[n] = NoRow \/ account[n].pw # req[r].pw) /\ account[n].status # "ACTIVE"
  <2>1. End(r) /\ UNCHANGED tried
    BY <1>2, <1>5 DEF Verify
  <2>2. outages' \in 0..MaxOutages /\ outages' = outages /\ refused' \subseteq Numbers
    BY <1>1, <1>3, LoginAt
  <2>3. QED
    BY <1>1, <1>3, <2>1, <2>2, LoginEnds
<1>6. CASE ~(account[n] = NoRow \/ account[n].pw # req[r].pw) /\ account[n].status = "ACTIVE"
  <2>1. req' = [req EXCEPT ![r].pc = "clear", ![r].self = account[n]] /\ UNCHANGED tried
    BY <1>2, <1>6 DEF Verify
  <2>2. QED
    BY <1>1, <1>2, <1>3, <1>6, <2>1, AdmittedKeeps
<1>7. QED
  BY <1>4, <1>5, <1>6

(* A key that goes takes its count along.                                   *)
LEMMA KeyGoes ==
  ASSUME AccountsShape, ThrottleInv, NEW n \in Numbers, KeyGone(n),
         UNCHANGED << asks, outages >>,
         \A m \in Numbers : \A steps : Cardinality(Attempts(req', m, steps)) <= Cardinality(Attempts(req, m, steps)),
         \A m \in Numbers : Cardinality(Attempts(req, m, {"count"})) <= Cardinality(Attempts(req', m, {"count"}))
  PROVE  /\ ThrottleInv'
         /\ fails' \in [Numbers -> Nat] /\ ttl' \in [Numbers -> BOOLEAN] /\ tried' \in [Numbers -> Nat] /\ refused' \subseteq Numbers
<1>1. /\ fails \in [Numbers -> Nat] /\ ttl \in [Numbers -> BOOLEAN] /\ tried \in [Numbers -> Nat] /\ refused \subseteq Numbers
      /\ asks \in Nat /\ outages \in Nat
  BY DEF AccountsShape
<1>2. /\ fails' \in [Numbers -> Nat] /\ ttl' \in [Numbers -> BOOLEAN] /\ tried' \in [Numbers -> Nat] /\ refused' \subseteq Numbers
  BY <1>1 DEF KeyGone
<1>3. /\ fails'[n] = 0 /\ tried'[n] = 0
      /\ \A m \in Numbers : m # n => fails'[m] = fails[m] /\ tried'[m] = tried[m] /\ ttl'[m] = ttl[m]
  BY <1>1 DEF KeyGone
<1>4. ~ttl'[n]
  BY <1>1 DEF KeyGone
<1>5. \A m \in Numbers : \A steps : /\ Cardinality(Attempts(req, m, steps)) \in Nat /\ Cardinality(Attempts(req', m, steps)) \in Nat
                                  /\ Cardinality(Attempts(req', m, steps)) <= Cardinality(Requests)
                                  /\ Cardinality(Requests) \in Nat
  BY SomeRequests DEF Attempts
<1>6. ASSUME NEW CONSTANT m \in Numbers PROVE ThrottleAt(m)'
  <2>1. PICK a \in Nat, b \in Nat, c \in Nat, d \in Nat, e \in Nat, f \in Nat, all \in Nat :
          /\ a = Cardinality(Attempts(req, m, {"wait", "verify", "count"})) /\ b = Cardinality(Attempts(req', m, {"wait", "verify", "count"}))
          /\ c = Cardinality(Attempts(req, m, {"count"})) /\ d = Cardinality(Attempts(req', m, {"count"}))
          /\ e = Cardinality(Attempts(req, m, {"verify"})) /\ f = Cardinality(Attempts(req', m, {"verify"}))
          /\ all = Cardinality(Requests) /\ b <= a /\ d = c /\ f <= e /\ f <= all
    <3>1. Cardinality(Attempts(req', m, {"count"})) = Cardinality(Attempts(req, m, {"count"}))
      BY <1>5
    <3>2. QED
      BY <1>5, <3>1
  <2>2. /\ fails[m] + a <= asks /\ tried[m] <= fails[m] + c + outages /\ tried[m] + e <= MaxAttempts - 1 + all + outages
        /\ ttl[m] => fails[m] > 0
    BY <2>1 DEF ThrottleInv, ThrottleAt
  <2>3. MaxAttempts \in Nat \ {0} /\ fails[m] \in Nat /\ tried[m] \in Nat /\ asks' = asks /\ outages' = outages
    BY <1>1, AccountsAssumption
  <2>4. /\ fails'[m] + b <= asks' /\ tried'[m] <= fails'[m] + d + outages' /\ tried'[m] + f <= MaxAttempts - 1 + all + outages'
    <3>1. CASE m = n
      <4>1. fails'[m] = 0 /\ tried'[m] = 0
        BY <1>3, <3>1
      <4>2. asks \in Nat /\ outages \in Nat
        BY <1>1
      <4>3. QED
        BY <2>1, <2>2, <2>3, <4>1, <4>2
    <3>2. CASE m # n
      BY <1>1, <1>3, <2>1, <2>2, <2>3, <3>2
    <3>3. QED
      BY <3>1, <3>2
  <2>5. ttl'[m] => fails'[m] > 0
    BY <1>3, <1>4, <2>2
  <2>6. QED
    BY <2>1, <2>4, <2>5 DEF ThrottleAt
<1>7. QED
  BY <1>2, <1>6 DEF ThrottleInv

(* Who has passed gets his token; the key may go with it.                   *)
LEMMA TokenIsGiven ==
  ASSUME AccountsInv, NEW r \in Requests, At(r, "login", "clear"), End(r), GiveToken(r),
         UNCHANGED << account, hired, asks, retired >>, outages' \in 0..MaxOutages,
         fails' \in [Numbers -> Nat], ttl' \in [Numbers -> BOOLEAN], tried' \in [Numbers -> Nat], refused' \subseteq Numbers
  PROVE  AccountsShape' /\ RequestsShape' /\ NumbersInv'
<1>1. AccountsShape /\ RequestsShape /\ NumbersInv /\ req[r].do = "login" /\ req[r].pc = "clear"
  BY DEF AccountsInv, At
<1>2. PICK n \in Numbers : n = req[r].n
  BY <1>1 DEF RequestsShape, Knows
<1>3. req[r].self \in PersonType /\ req[r].self.who <= hired
  <2>1. req[r] \in RequestType /\ req[r].self # NoRow
    BY <1>1 DEF RequestsShape, Knows
  <2>2. req[r].self \in PersonType
    BY <2>1 DEF RequestType, RowType
  <2>3. QED
    BY <1>1, <2>2 DEF NumbersInv
<1>4. PICK who \in Nat \ {0}, role \in Roles : who = req[r].self.who /\ role = req[r].self.role
  BY <1>3 DEF PersonType
<1>5. PICK t \in TokenType : tokens' = tokens \cup {t} /\ t.n = n /\ t.who = who
  <2>1. [n |-> n, who |-> who, role |-> role] \in TokenType
    BY DEF TokenType
  <2>2. tokens' = tokens \cup {[n |-> n, who |-> who, role |-> role]}
    BY <1>2, <1>4 DEF GiveToken
  <2>3. QED
    BY <2>1, <2>2
<1>6. AccountsShape'
  <2>1. tokens' \subseteq TokenType' /\ TokenType' = TokenType
    BY <1>1, <1>5 DEF AccountsShape, TokenType
  <2>2. QED
    BY <1>1, <2>1 DEF AccountsShape
<1>7. req' = [req EXCEPT ![r] = NoAsk] /\ NoAsk \in RequestType /\ NoAsk.do = "rest" /\ NoAsk.pc = "rest"
  <2>1. NoAsk.do = "rest" /\ NoAsk.pc = "rest"
    BY DEF NoAsk
  <2>2. QED
    BY <2>1, RestIsKnown DEF End
<1>8. RequestsShape'
  <2>1. hired' \in Nat /\ hired <= hired' /\ Knows(NoAsk, hired')
    BY <1>1, RestIsKnown DEF AccountsShape
  <2>2. QED
    BY <1>1, <1>7, <2>1, RequestsKeep
<1>9. NumbersInv'
  <2>1. req'[r] = NoAsk /\ \A s \in Requests : s # r => req'[s] = req[s]
    BY <1>1, <1>7 DEF RequestsShape
  <2>2. hired' + Cardinality(Hiring(req')) <= asks' + 2
    <3>1. Hires(NoAsk) = 0 /\ Hires(req[r]) = 0
      BY <1>1, <1>7 DEF Hires
    <3>2. /\ Cardinality(Hiring(req)) \in Nat /\ Cardinality(Hiring(req')) \in Nat
          /\ Cardinality(Hiring(req')) + Hires(req[r]) <= Cardinality(Hiring(req)) + Hires(NoAsk)
      BY <1>1, <1>7, HiringChanges
    <3>3. hired + Cardinality(Hiring(req)) <= asks + 2 /\ hired \in Nat /\ asks \in Nat
      BY <1>1 DEF NumbersInv, AccountsShape
    <3>4. QED
      BY <3>1, <3>2, <3>3
  <2>3. ASSUME NEW m \in Numbers, NEW w \in Nat, Claims(m, w)', m \notin retired' PROVE Stands(m, w)'
    <3>1. Claims(m, w)
      BY <1>1, <1>2, <1>4, <1>5, <1>7, <2>1, <2>3 DEF Claims, At
    <3>2. Stands(m, w)
      BY <1>1, <2>3, <3>1 DEF NumbersInv
    <3>3. QED
      BY <1>7, <2>1, <3>2 DEF Stands, InUse, At
  <2>4. \A u \in tokens' : u.who <= hired'
    BY <1>1, <1>3, <1>4, <1>5 DEF NumbersInv
  <2>5. \A s \in Requests : At(s, "login", "clear")' => req'[s].self.who <= hired'
    BY <1>1, <1>7, <2>1 DEF NumbersInv, At
  <2>6. QED
    BY <2>2, <2>3, <2>4, <2>5 DEF NumbersInv
<1>10. QED
  BY <1>6, <1>8, <1>9

LEMMA ClearKeeps ==
  ASSUME AccountsInv, NEW r \in Requests, Clear(r)
  PROVE  AccountsInv'
<1>1. AccountsShape /\ RequestsShape /\ ThrottleInv /\ req[r].do = "login" /\ req[r].pc = "clear" /\ At(r, "login", "clear")
  BY DEF AccountsInv, Clear, At
<1>2. PICK n \in Numbers : n = req[r].n
  BY <1>1, LoginAt
<1>3. KeyGone(n) /\ GiveToken(r) /\ End(r) /\ UNCHANGED << account, hired, asks, outages, retired >>
  BY <1>2 DEF Clear
<1>4. req' = [req EXCEPT ![r] = NoAsk] /\ NoAsk.do = "rest"
  <2>1. NoAsk.do = "rest"
    BY DEF NoAsk
  <2>2. QED
    BY <1>3, <2>1 DEF End
<1>5. \A m \in Numbers : \A steps : Cardinality(Attempts(req', m, steps)) <= Cardinality(Attempts(req, m, steps))
  <2>1. \A m \in Numbers : \A steps :
          Attempts(req', m, steps) \subseteq Attempts(req, m, steps) /\ Attempts(req, m, steps) \subseteq Requests
    BY <1>1, <1>4 DEF Attempts, RequestsShape
  <2>2. QED
    BY <2>1, SomeRequests
<1>6. \A m \in Numbers : Cardinality(Attempts(req, m, {"count"})) <= Cardinality(Attempts(req', m, {"count"}))
  <2>1. \A m \in Numbers : Attempts(req, m, {"count"}) \subseteq Attempts(req', m, {"count"}) /\ Attempts(req', m, {"count"}) \subseteq Requests
    BY <1>1, <1>4 DEF Attempts, RequestsShape
  <2>2. QED
    BY <2>1, SomeRequests
<1>7. /\ ThrottleInv' /\ refused' \subseteq Numbers
      /\ fails' \in [Numbers -> Nat] /\ ttl' \in [Numbers -> BOOLEAN] /\ tried' \in [Numbers -> Nat]
  BY <1>1, <1>3, <1>5, <1>6, KeyGoes
<1>8. outages' \in 0..MaxOutages
  BY <1>1, <1>3 DEF AccountsShape
<1>9. AccountsShape' /\ RequestsShape' /\ NumbersInv'
  BY <1>1, <1>3, <1>7, <1>8, TokenIsGiven
<1>10. QED
  BY <1>7, <1>9 DEF AccountsInv

LEMMA ExpireKeeps ==
  ASSUME AccountsInv, NEW n \in Numbers, Expire(n)
  PROVE  AccountsInv'
<1>1. AccountsShape /\ RequestsShape /\ ThrottleInv /\ NumbersInv
  BY DEF AccountsInv
<1>2. KeyGone(n) /\ UNCHANGED << account, tokens, req, hired, asks, outages, retired >>
  BY DEF Expire
<1>3. \A m \in Numbers : \A steps : Cardinality(Attempts(req, m, steps)) \in Nat
  BY SomeRequests DEF Attempts
<1>4. /\ \A m \in Numbers : \A steps : Cardinality(Attempts(req', m, steps)) <= Cardinality(Attempts(req, m, steps))
      /\ \A m \in Numbers : Cardinality(Attempts(req, m, {"count"})) <= Cardinality(Attempts(req', m, {"count"}))
  BY <1>2, <1>3
<1>5. /\ ThrottleInv' /\ refused' \subseteq Numbers
      /\ fails' \in [Numbers -> Nat] /\ ttl' \in [Numbers -> BOOLEAN] /\ tried' \in [Numbers -> Nat]
  BY <1>1, <1>2, <1>4, KeyGoes
<1>6. AccountsShape'
  BY <1>1, <1>2, <1>5 DEF AccountsShape
<1>7. RequestsShape'
  BY <1>1, <1>2 DEF RequestsShape, Knows
<1>8. NumbersInv'
  BY <1>1, <1>2 DEF NumbersInv, Claims, Stands, InUse, At
<1>9. QED
  BY <1>5, <1>6, <1>7, <1>8 DEF AccountsInv

LEMMA RedisFailsKeeps ==
  ASSUME AccountsInv, NEW r \in Requests, RedisFails(r)
  PROVE  AccountsInv'
<1>1. /\ req[r].do = "login" /\ outages < MaxOutages /\ outages' = outages + 1
      /\ UNCHANGED << account, fails, ttl, tried, refused, hired, asks, retired >>
  BY DEF RedisFails, throttleVars
<1>2. /\ fails \in [Numbers -> Nat] /\ tried \in [Numbers -> Nat] /\ outages \in 0..MaxOutages
      /\ ttl \in [Numbers -> BOOLEAN] /\ refused \subseteq Numbers
  BY <1>1, LoginAt
<1>3. outages' \in 0..MaxOutages /\ MaxOutages \in Nat
  BY <1>1, <1>2, AccountsAssumption
<1>4. CASE req[r].pc = "wait" /\ Goto(r, "verify") /\ UNCHANGED tokens
  BY <1>1, <1>2, <1>3, <1>4, LetInKeeps
<1>5. CASE req[r].pc \in {"count", "expire"} /\ End(r) /\ UNCHANGED tokens
  BY <1>1, <1>2, <1>3, <1>5, LoginEnds
<1>6. CASE req[r].pc = "clear" /\ End(r) /\ GiveToken(r)
  <2>1. AccountsShape' /\ RequestsShape' /\ NumbersInv'
    BY <1>1, <1>2, <1>3, <1>6, TokenIsGiven DEF At
  <2>2. AccountsShape /\ RequestsShape /\ ThrottleInv
    BY DEF AccountsInv
  <2>3. req' = [req EXCEPT ![r] = NoAsk] /\ NoAsk.do = "rest"
    <3>1. NoAsk.do = "rest"
      BY DEF NoAsk
    <3>2. QED
      BY <1>6, <3>1 DEF End
  <2>4. ASSUME NEW CONSTANT m \in Numbers PROVE ThrottleAt(m)'
    <3>1. /\ fails'[m] \in Nat /\ tried'[m] \in Nat /\ asks' \in Nat /\ outages' \in Nat
          /\ fails[m] \in Nat /\ tried[m] \in Nat /\ asks' = asks /\ outages \in Nat
          /\ fails'[m] = fails[m] /\ tried'[m] = tried[m]
          /\ ttl'[m] => fails'[m] > 0
      BY <1>1, <1>3, <2>2 DEF AccountsShape, ThrottleInv, ThrottleAt
    <3>2. /\ Counts(NoAsk, m, {"wait", "verify", "count"}) = 0 /\ Counts(NoAsk, m, {"count"}) = 0 /\ Counts(NoAsk, m, {"verify"}) = 0
          /\ Counts(req[r], m, {"wait", "verify", "count"}) = 0 /\ Counts(req[r], m, {"count"}) = 0
          /\ Counts(req[r], m, {"verify"}) = 0
      BY <1>6, <2>3 DEF Counts
    <3>3. /\ fails'[m] + Counts(NoAsk, m, {"wait", "verify", "count"}) + asks
               <= fails[m] + Counts(req[r], m, {"wait", "verify", "count"}) + asks'
          /\ tried'[m] + fails[m] + Counts(req[r], m, {"count"}) + outages
               <= tried[m] + fails'[m] + Counts(NoAsk, m, {"count"}) + outages'
          /\ tried'[m] + Counts(NoAsk, m, {"verify"}) + outages <= tried[m] + Counts(req[r], m, {"verify"}) + outages'
      BY <1>1, <3>1, <3>2
    <3>4. QED
      BY <2>2, <2>3, <3>1, <3>3, ThrottleStep
  <2>5. QED
    BY <2>1, <2>4 DEF AccountsInv, ThrottleInv
<1>7. QED
  BY <1>4, <1>5, <1>6 DEF RedisFails

LEMMA CrashKeeps ==
  ASSUME AccountsInv, NEW r \in Requests, Crash(r)
  PROVE  AccountsInv'
<1>1. /\ req[r].do = "login" /\ End(r) /\ outages < MaxOutages /\ outages' = outages + 1
      /\ UNCHANGED << account, fails, ttl, tried, refused, tokens, hired, asks, retired >>
  BY DEF Crash, throttleVars
<1>2. outages \in 0..MaxOutages /\ refused \subseteq Numbers
  BY <1>1, LoginAt
<1>3. outages' \in 0..MaxOutages
  BY <1>1, <1>2, AccountsAssumption
<1>4. QED
  BY <1>1, <1>2, <1>3, LoginEnds

-----------------------------------------------------------------------------
(* Requests other than logins                                               *)

LEMMA OtherRequests ==
  ASSUME AccountsInv, NEW r \in Requests, NEW ask \in RequestType, req' = [req EXCEPT ![r] = ask],
         req[r].do # "login", ask.do # "login", Knows(ask, hired),
         UNCHANGED << fails, ttl, tried, refused, tokens, hired, outages >>,
         account' \in [Numbers -> RowType], \A n \in Numbers : account'[n].who = account[n].who,
         retired \subseteq retired', retired' \subseteq Numbers,
         asks' \in 0..MaxAsks, asks <= asks', Hires(ask) + asks <= Hires(req[r]) + asks',
         ask.do = "issue" => \A m \in InUse : m < ask.n
  PROVE  AccountsInv'
<1>1. AccountsShape /\ RequestsShape /\ ThrottleInv /\ NumbersInv
  BY DEF AccountsInv
<1>2. AccountsShape'
  <2>1. \A n \in Numbers : account'[n].who <= hired'
    BY <1>1 DEF AccountsShape
  <2>2. TokenType' = TokenType
    BY DEF TokenType
  <2>3. QED
    BY <1>1, <2>1, <2>2 DEF AccountsShape
<1>3. RequestsShape'
  <2>1. hired' \in Nat /\ hired <= hired' /\ Knows(ask, hired')
    BY <1>1 DEF AccountsShape
  <2>2. QED
    BY <1>1, <2>1, RequestsKeep
<1>4. ThrottleInv'
  <2>1. asks' \in Nat
    OBVIOUS
  <2>2. QED
    BY <1>1, <2>1, ThrottleStays
<1>5. NumbersInv'
  <2>1. asks' \in Nat
    OBVIOUS
  <2>2. QED
    BY <1>1, <2>1, NumbersStay
<1>6. QED
  BY <1>2, <1>3, <1>4, <1>5 DEF AccountsInv

LEMMA RequestBegins ==
  ASSUME AccountsInv, NEW r \in Requests, Ready(r), NEW ask \in RequestType, Begin(r, ask),
         ask.do # "login", Knows(ask, hired), Quiet,
         ask.do = "issue" => \A m \in InUse : m < ask.n
  PROVE  AccountsInv'
<1>1. AccountsShape
  BY DEF AccountsInv
<1>2. /\ req' = [req EXCEPT ![r] = ask] /\ req[r].do # "login" /\ asks' \in 0..MaxAsks /\ asks' = asks + 1
      /\ Hires(req[r]) = 0 /\ Hires(ask) <= 1 /\ asks \in Nat
  <2>1. NoAsk.do = "rest"
    BY DEF NoAsk
  <2>2. req' = [req EXCEPT ![r] = ask] /\ asks' = asks + 1 /\ asks < MaxAsks /\ req[r] = NoAsk
    BY DEF Begin, Ready
  <2>3. asks' \in 0..MaxAsks /\ asks \in Nat
    BY <1>1, <2>2, AccountsAssumption DEF AccountsShape
  <2>4. req[r].do = "rest"
    BY <2>1, <2>2
  <2>5. Hires(ask) <= 1 /\ Hires(req[r]) = 0
    BY <2>4 DEF Hires
  <2>6. QED
    BY <2>2, <2>3, <2>4, <2>5
<1>3. asks <= asks' /\ Hires(ask) + asks <= Hires(req[r]) + asks'
  <2>1. Hires(ask) \in Nat
    BY DEF Hires
  <2>2. QED
    BY <1>2, <2>1
<1>4. /\ UNCHANGED << fails, ttl, tried, refused, tokens, hired, outages >>
      /\ account' \in [Numbers -> RowType] /\ \A n \in Numbers : account'[n].who = account[n].who
      /\ retired \subseteq retired' /\ retired' \subseteq Numbers
  BY <1>1 DEF Quiet, throttleVars, AccountsShape
<1>5. QED
  BY <1>2, <1>3, <1>4, OtherRequests

(* What a request carries that is made in somebody's name.                  *)
LEMMA SubmitCarries ==
  ASSUME AccountsInv, NEW r, NEW t \in tokens, NEW do \in AdminAsks \cup BoardAsks,
         NEW n \in Numbers \cup Posts, NEW arg \in Words, Submit(r, t, do, n, arg)
  PROVE  \E ask \in RequestType :
           /\ Begin(r, ask)
           /\ ask.do = do /\ ask.pc = "write" /\ ask.self = account[t.n] /\ ask.n = n /\ ask.arg = arg
           /\ ask.self # NoRow /\ ask.self.who <= hired /\ ask.self.role \in Roles
           /\ n \in Numbers => ask.saw = account[n]
<1>1. t.n \in Numbers /\ account \in [Numbers -> RowType]
  BY DEF AccountsInv, AccountsShape, TokenType
<1>2. PICK self \in RowType, saw \in RowType : self = account[t.n] /\ saw = AccountOf(n)
  <2>1. AccountOf(n) \in RowType
    BY <1>1 DEF AccountOf, RowType
  <2>2. QED
    BY <1>1, <2>1
<1>3. PICK a \in RequestType : a = NoAsk
  BY RestIsKnown
<1>4. PICK ask \in RequestType : ask = [a EXCEPT !.do = do, !.pc = "write", !.self = self, !.n = n, !.saw = saw, !.arg = arg]
  BY DEF RequestType
<1>5. /\ ask.do = do /\ ask.pc = "write" /\ ask.self = self /\ ask.n = n /\ ask.arg = arg /\ ask.saw = saw
  BY <1>4 DEF RequestType
<1>6. self # NoRow /\ self.who <= hired /\ self.role \in Roles
  BY <1>1, <1>2 DEF Submit, Authenticated, AccountsInv, AccountsShape, RowType, PersonType
<1>7. n \in Numbers => saw = account[n]
  BY <1>2 DEF AccountOf
<1>8. Begin(r, ask)
  BY <1>2, <1>3, <1>4 DEF Submit
<1>9. QED
  BY <1>2, <1>5, <1>6, <1>7, <1>8

LEMMA AdminAskKeeps ==
  ASSUME AccountsInv, NEW r \in Requests, NEW t \in tokens, Ready(r), Authenticated(t), account[t.n].role \in Managers,
         NEW do \in AdminAsks, NEW n \in Numbers, NEW arg \in Words, Submit(r, t, do, n, arg), Quiet,
         do \in {"issue", "create", "role"} => arg \in Roles,
         do = "status" => arg \in {"ACTIVE", "INACTIVE"},
         do \in {"status", "role", "delete"} => account[n] # NoRow,
         do = "issue" => \A m \in InUse : m < n
  PROVE  AccountsInv'
<1>2. PICK ask \in RequestType :
        /\ Begin(r, ask)
        /\ ask.do = do /\ ask.pc = "write" /\ ask.self = account[t.n] /\ ask.n = n /\ ask.arg = arg
        /\ ask.self # NoRow /\ ask.self.who <= hired /\ ask.self.role \in Roles
        /\ n \in Numbers => ask.saw = account[n]
  BY SubmitCarries
<1>3. do \in {"status", "role", "delete", "issue", "create"}
  BY DEF AdminAsks
<1>4. Knows(ask, hired)
  BY <1>2, <1>3 DEF Knows, AdminAsks, BoardAsks
<1>5. ask.do # "login" /\ (ask.do = "issue" => \A m \in InUse : m < ask.n)
  BY <1>2, <1>3
<1>6. QED
  BY <1>2, <1>4, <1>5, RequestBegins

LEMMA HolderIsTyped ==
  ASSUME AccountsInv, NEW t \in tokens
  PROVE  t.n \in Numbers /\ account \in [Numbers -> RowType]
BY DEF AccountsInv, AccountsShape, TokenType

(* The last number in use, from which the next is computed.                 *)
LEMMA NextIsLast ==
  ASSUME AccountsInv, NEW t \in tokens, Authenticated(t)
  PROVE  \A m \in InUse : m < NextNumber
<1>1. t.n \in InUse
  BY HolderIsTyped DEF Authenticated, InUse
<1>2. InUse \subseteq 1..MaxNumber /\ InUse \subseteq Nat /\ IsFiniteSet(InUse)
  <2>1. InUse \subseteq 1..MaxNumber
    BY DEF InUse, Numbers
  <2>2. IsFiniteSet(1..MaxNumber)
    BY FS_Interval, AccountsAssumption
  <2>3. IsFiniteSet(InUse)
    BY <2>1, <2>2, FS_Subset
  <2>4. 1..MaxNumber \subseteq Nat
    OBVIOUS
  <2>5. QED
    BY <2>1, <2>3, <2>4
<1>3. Max(InUse) \in InUse /\ \A m \in InUse : m <= Max(InUse)
  BY <1>1, <1>2, MaxFacts
<1>4. NextNumber = Max(InUse) + 1
  BY <1>1 DEF NextNumber
<1>5. QED
  <2> SUFFICES ASSUME NEW m \in InUse PROVE m < NextNumber
    OBVIOUS
  <2>1. m \in Nat /\ Max(InUse) \in Nat /\ m <= Max(InUse)
    BY <1>2, <1>3
  <2>2. QED
    BY <1>4, <2>1

LEMMA AsksKeep ==
  ASSUME AccountsInv, NEW r \in Requests, NEW t \in tokens, Ready(r),
         \/ \E role \in GivenRoles : AskIssue(r, t, role)
         \/ \E n \in Numbers, role \in GivenRoles : AskRole(r, t, n, role) \/ AskCreate(r, t, n, role)
         \/ \E n \in Numbers, status \in {"ACTIVE", "INACTIVE"} : AskStatus(r, t, n, status)
         \/ \E n \in Numbers : AskDelete(r, t, n)
  PROVE  AccountsInv' /\ \E do \in AdminAsks, n \in Numbers, arg \in Words : Submit(r, t, do, n, arg)
<1>1. GivenRoles \subseteq Roles
  BY AccountsAssumption
<1>2. CASE \E role \in GivenRoles : AskIssue(r, t, role)
  <2>1. PICK role \in Roles : AskIssue(r, t, role)
    BY <1>1, <1>2
  <2>2. /\ NextNumber \in Numbers /\ Authenticated(t) /\ account[t.n].role \in Managers
        /\ Submit(r, t, "issue", NextNumber, role) /\ Quiet /\ role \in Words /\ "issue" \in AdminAsks
    BY <2>1 DEF AskIssue, RoleOf, Words, AdminAsks
  <2>3. \A m \in InUse : m < NextNumber
    BY <2>2, NextIsLast
  <2>4. QED
    BY <2>2, <2>3, AdminAskKeeps
<1>3. CASE \E n \in Numbers, role \in GivenRoles : AskRole(r, t, n, role)
  <2>1. PICK n \in Numbers, role \in Roles : AskRole(r, t, n, role)
    BY <1>1, <1>3
  <2>2. /\ Authenticated(t) /\ account[t.n].role \in Managers /\ account[n] # NoRow
        /\ Submit(r, t, "role", n, role) /\ Quiet /\ role \in Words /\ "role" \in AdminAsks
    BY <2>1 DEF AskRole, MayManage, RoleOf, Words, AdminAsks
  <2>3. QED
    BY <2>2, AdminAskKeeps
<1>4. CASE \E n \in Numbers, role \in GivenRoles : AskCreate(r, t, n, role)
  <2>1. PICK n \in Numbers, role \in Roles : AskCreate(r, t, n, role)
    BY <1>1, <1>4
  <2>2. /\ Authenticated(t) /\ account[t.n].role \in Managers
        /\ Submit(r, t, "create", n, role) /\ Quiet /\ role \in Words /\ "create" \in AdminAsks
    BY <2>1 DEF AskCreate, RoleOf, Words, AdminAsks
  <2>3. QED
    BY <2>2, AdminAskKeeps
<1>5. CASE \E n \in Numbers, status \in {"ACTIVE", "INACTIVE"} : AskStatus(r, t, n, status)
  <2>1. PICK n \in Numbers, status \in {"ACTIVE", "INACTIVE"} : AskStatus(r, t, n, status)
    BY <1>5
  <2>2. /\ Authenticated(t) /\ account[t.n].role \in Managers /\ account[n] # NoRow
        /\ Submit(r, t, "status", n, status) /\ Quiet /\ status \in Words /\ "status" \in AdminAsks
    BY <2>1 DEF AskStatus, MayManage, RoleOf, Words, AdminAsks
  <2>3. QED
    BY <2>2, AdminAskKeeps
<1>6. CASE \E n \in Numbers : AskDelete(r, t, n)
  <2>1. PICK n \in Numbers : AskDelete(r, t, n)
    BY <1>6
  <2>2. /\ Authenticated(t) /\ account[t.n].role \in Managers /\ account[n] # NoRow
        /\ Submit(r, t, "delete", n, "NONE") /\ Quiet /\ "NONE" \in Words /\ "delete" \in AdminAsks
    BY <2>1 DEF AskDelete, MayManage, RoleOf, Words, AdminAsks
  <2>3. QED
    BY <2>2, AdminAskKeeps
<1>7. QED
  BY <1>2, <1>3, <1>4, <1>5, <1>6

LEMMA AskPasswordKeeps ==
  ASSUME AccountsInv, NEW r \in Requests, NEW t \in tokens, Ready(r),
         NEW current, NEW new \in Chosen \cup {NoPassword}, AskPassword(r, t, current, new)
  PROVE  /\ AccountsInv'
         /\ \E ask \in RequestType : Begin(r, ask) /\ ask.do = "password"
<1>1. PICK a \in RequestType : a = NoAsk
  BY RestIsKnown
<1>2. PICK self \in RowType : self = account[t.n] /\ self # NoRow /\ self.who <= hired
  BY HolderIsTyped DEF AskPassword, Authenticated, AccountsInv, AccountsShape
<1>3. PICK knew \in BOOLEAN : knew = (current = account[t.n].pw)
  <2>1. (current = account[t.n].pw) \in BOOLEAN
    OBVIOUS
  <2>2. QED
    BY <2>1
<1>4. PICK ask \in RequestType :
        ask = [a EXCEPT !.do = "password", !.pc = "write", !.self = self, !.n = t.n, !.saw = self, !.pw = new, !.knew = knew]
  <2>1. t.n \in Numbers \cup Posts \cup {0} /\ new \in Passwords
    BY HolderIsTyped DEF Passwords
  <2>2. QED
    BY <2>1 DEF RequestType
<1>5. /\ ask.do = "password" /\ ask.pc = "write" /\ ask.self = self /\ ask.n = t.n /\ ask.saw = self /\ ask.knew = knew
  BY <1>4 DEF RequestType
<1>6. Begin(r, ask) /\ Quiet
  BY <1>1, <1>2, <1>3, <1>4 DEF AskPassword
<1>7. knew \/ self.must
  BY <1>2, <1>3 DEF AskPassword, MayChange
<1>8. Knows(ask, hired)
  BY <1>2, <1>5, <1>7, HolderIsTyped DEF Knows, AdminAsks, BoardAsks
<1>9. QED
  BY <1>5, <1>6, <1>8, RequestBegins

(* Administration writes to the row that was read.                          *)
LEMMA WriteKeeps ==
  ASSUME AccountsInv, NEW r \in Requests, End(r), req[r].do \notin {"rest", "login"},
         account' \in [Numbers -> RowType], \A n \in Numbers : account'[n].who = account[n].who,
         UNCHANGED << throttleVars, tokens, hired, asks, outages >>,
         retired \subseteq retired', retired' \subseteq Numbers
  PROVE  AccountsInv'
<1>1. req' = [req EXCEPT ![r] = NoAsk] /\ NoAsk \in RequestType /\ NoAsk.do = "rest" /\ Knows(NoAsk, hired)
  <2>1. NoAsk.do = "rest"
    BY DEF NoAsk
  <2>2. QED
    BY <2>1, RestIsKnown DEF End
<1>2. asks' \in 0..MaxAsks /\ asks' = asks /\ asks \in Nat
  BY DEF AccountsInv, AccountsShape
<1>3. Hires(NoAsk) + asks <= Hires(req[r]) + asks' /\ asks <= asks'
  BY <1>1, <1>2 DEF Hires
<1>4. UNCHANGED << fails, ttl, tried, refused, tokens, hired, outages >>
  BY DEF throttleVars
<1>5. QED
  BY <1>1, <1>2, <1>3, <1>4, OtherRequests

LEMMA StillThereIsThere ==
  ASSUME AccountsInv, NEW r \in Requests, req[r].do \in {"status", "role", "delete", "password"}, StillThere(r)
  PROVE  account[req[r].n] \in PersonType /\ req[r].n \in Numbers
<1>1. /\ req[r].n \in Numbers /\ req[r].saw # NoRow /\ req[r] \in RequestType
      /\ account \in [Numbers -> RowType] /\ account[req[r].n].who = req[r].saw.who
  BY DEF AccountsInv, AccountsShape, RequestsShape, Knows, AdminAsks, StillThere
<1>2. req[r].saw \in RowType
  BY <1>1 DEF RequestType
<1>3. account[req[r].n] # NoRow
  BY <1>1, <1>2, NobodyIsZero
<1>4. QED
  BY <1>1, <1>3 DEF RowType

LEMMA SetStatusKeeps ==
  ASSUME AccountsInv, NEW r \in Requests, SetStatus(r)
  PROVE  AccountsInv'
<1>1. req[r].do = "status" /\ End(r) /\ UNCHANGED << throttleVars, tokens, hired, asks, outages, retired >>
  BY DEF SetStatus, At
<1>2. account \in [Numbers -> RowType] /\ retired \subseteq Numbers
  BY DEF AccountsInv, AccountsShape
<1>3. account' \in [Numbers -> RowType] /\ \A n \in Numbers : account'[n].who = account[n].who
  <2>1. CASE StillThere(r) /\ req[r].arg # req[r].saw.status
    <3>1. account[req[r].n] \in PersonType /\ req[r].n \in Numbers
      BY <1>1, <2>1, StillThereIsThere
    <3>2. PICK n \in Numbers, row \in PersonType : n = req[r].n /\ row = account[n]
      BY <3>1
    <3>3. PICK status \in {"ACTIVE", "INACTIVE"} : status = req[r].arg
      BY <1>1 DEF AccountsInv, RequestsShape, Knows
    <3>4. PICK new \in PersonType : new = [row EXCEPT !.status = status]
      BY DEF PersonType
    <3>5. new.who = row.who
      BY <3>4 DEF PersonType
    <3>6. account' = [account EXCEPT ![n] = new]
      BY <1>2, <2>1, <3>2, <3>3, <3>4 DEF SetStatus
    <3>7. QED
      BY <1>2, <3>2, <3>5, <3>6 DEF RowType
  <2>2. CASE ~(StillThere(r) /\ req[r].arg # req[r].saw.status)
    <3>1. account' = account
      BY <2>2 DEF SetStatus
    <3>2. QED
      BY <1>2, <3>1
  <2>3. QED
    BY <2>1, <2>2
<1>4. QED
  BY <1>1, <1>2, <1>3, WriteKeeps

LEMMA SetRoleKeeps ==
  ASSUME AccountsInv, NEW r \in Requests, SetRole(r)
  PROVE  AccountsInv'
<1>1. req[r].do = "role" /\ End(r) /\ UNCHANGED << throttleVars, tokens, hired, asks, outages, retired >>
  BY DEF SetRole, At
<1>2. account \in [Numbers -> RowType] /\ retired \subseteq Numbers
  BY DEF AccountsInv, AccountsShape
<1>3. account' \in [Numbers -> RowType] /\ \A n \in Numbers : account'[n].who = account[n].who
  <2>1. CASE StillThere(r) /\ req[r].arg # req[r].saw.role
    <3>1. account[req[r].n] \in PersonType /\ req[r].n \in Numbers
      BY <1>1, <2>1, StillThereIsThere
    <3>2. PICK n \in Numbers, row \in PersonType : n = req[r].n /\ row = account[n]
      BY <3>1
    <3>3. PICK role \in Roles : role = req[r].arg
      BY <1>1 DEF AccountsInv, RequestsShape, Knows
    <3>4. PICK new \in PersonType : new = [row EXCEPT !.role = role]
      BY DEF PersonType
    <3>5. new.who = row.who
      BY <3>4 DEF PersonType
    <3>6. account' = [account EXCEPT ![n] = new]
      BY <1>2, <2>1, <3>2, <3>3, <3>4 DEF SetRole
    <3>7. QED
      BY <1>2, <3>2, <3>5, <3>6 DEF RowType
  <2>2. CASE ~(StillThere(r) /\ req[r].arg # req[r].saw.role)
    <3>1. account' = account
      BY <2>2 DEF SetRole
    <3>2. QED
      BY <1>2, <3>1
  <2>3. QED
    BY <2>1, <2>2
<1>4. QED
  BY <1>1, <1>2, <1>3, WriteKeeps

LEMMA SetPasswordKeeps ==
  ASSUME AccountsInv, NEW r \in Requests, SetPassword(r)
  PROVE  AccountsInv'
<1>1. req[r].do = "password" /\ End(r) /\ UNCHANGED << throttleVars, tokens, hired, asks, outages, retired >>
  BY DEF SetPassword, At
<1>2. account \in [Numbers -> RowType] /\ retired \subseteq Numbers
  BY DEF AccountsInv, AccountsShape
<1>3. account' \in [Numbers -> RowType] /\ \A n \in Numbers : account'[n].who = account[n].who
  <2>1. CASE StillThere(r)
    <3>1. account[req[r].n] \in PersonType /\ req[r].n \in Numbers
      BY <1>1, <2>1, StillThereIsThere
    <3>2. PICK n \in Numbers, row \in PersonType : n = req[r].n /\ row = account[n]
      BY <3>1
    <3>3. PICK pw \in Passwords : pw = req[r].pw
      BY DEF AccountsInv, RequestsShape, RequestType
    <3>4. PICK must \in BOOLEAN : must = (row.must /\ ~req[r].saw.must)
      <4>1. (row.must /\ ~req[r].saw.must) \in BOOLEAN
        OBVIOUS
      <4>2. QED
        BY <4>1
    <3>5. PICK new \in PersonType : new = [row EXCEPT !.pw = pw, !.must = must]
      BY DEF PersonType
    <3>6. new.who = row.who
      BY <3>5 DEF PersonType
    <3>7. account' = [account EXCEPT ![n] = new]
      <4>1. account' = [account EXCEPT ![n].pw = req[r].pw, ![n].must = @ /\ ~req[r].saw.must]
        BY <2>1, <3>2 DEF SetPassword
      <4>2. account' = [account EXCEPT ![n] = [account[n] EXCEPT !.pw = req[r].pw, !.must = @ /\ ~req[r].saw.must]]
        BY <1>2, <4>1
      <4>3. QED
        BY <3>2, <3>3, <3>4, <3>5, <4>2 DEF PersonType
    <3>8. QED
      BY <1>2, <3>2, <3>6, <3>7 DEF RowType
  <2>2. CASE ~StillThere(r)
    <3>1. account' = account
      BY <2>2 DEF SetPassword
    <3>2. QED
      BY <1>2, <3>1
  <2>3. QED
    BY <2>1, <2>2
<1>4. QED
  BY <1>1, <1>2, <1>3, WriteKeeps

(* Somebody who claims a number is somebody.                                *)
LEMMA ClaimantIsSomebody ==
  ASSUME AccountsInv, NEW n \in Numbers, NEW who, Claims(n, who)
  PROVE  who # 0
<1>1. CASE \E t \in tokens : t.n = n /\ t.who = who
  BY <1>1 DEF AccountsInv, AccountsShape, TokenType
<1>2. CASE \E r \in Requests : At(r, "login", "clear") /\ req[r].n = n /\ req[r].self.who = who
  <2>1. PICK r \in Requests : At(r, "login", "clear") /\ req[r].self.who = who
    BY <1>2
  <2>2. req[r] \in RequestType /\ req[r].self # NoRow
    BY <2>1 DEF AccountsInv, RequestsShape, Knows, At
  <2>3. req[r].self \in PersonType
    BY <2>2 DEF RequestType, RowType
  <2>4. QED
    BY <2>1, <2>3 DEF PersonType
<1>3. QED
  BY <1>1, <1>2 DEF Claims

(* A request other than a login ends, and with it no claim arises.          *)
LEMMA RequestEnds ==
  ASSUME AccountsInv, NEW r \in Requests, End(r), req[r].do \notin {"rest", "login"},
         UNCHANGED << throttleVars, tokens, asks, outages >>, hired' \in Nat, hired <= hired',
         hired' + Hires(NoAsk) <= hired + Hires(req[r])
  PROVE  /\ RequestsShape' /\ ThrottleInv'
         /\ hired' + Cardinality(Hiring(req')) <= asks' + 2
         /\ \A t \in tokens' : t.who <= hired'
         /\ \A s \in Requests : At(s, "login", "clear")' => req'[s].self.who <= hired'
         /\ \A n \in Numbers, who \in Nat : Claims(n, who)' => Claims(n, who)
         /\ \A s \in Requests, n \in Numbers :
              At(s, "issue", "write")' /\ req'[s].n = n => At(s, "issue", "write") /\ req[s].n = n
<1>1. /\ req' = [req EXCEPT ![r] = NoAsk] /\ NoAsk \in RequestType /\ NoAsk.do = "rest" /\ Knows(NoAsk, hired')
  <2>1. NoAsk.do = "rest"
    BY DEF NoAsk
  <2>2. QED
    BY <2>1, RestIsKnown DEF End
<1>2. AccountsShape /\ RequestsShape /\ ThrottleInv /\ NumbersInv
  BY DEF AccountsInv
<1>3. req'[r] = NoAsk /\ \A s \in Requests : s # r => req'[s] = req[s]
  BY <1>1, <1>2 DEF RequestsShape
<1>4. RequestsShape'
  BY <1>1, <1>2, RequestsKeep
<1>5. ThrottleInv'
  <2>1. asks' \in Nat /\ asks <= asks' /\ UNCHANGED << fails, ttl, tried, outages >>
    BY <1>2 DEF AccountsShape, throttleVars
  <2>2. QED
    BY <1>1, <1>2, <2>1, ThrottleStays
<1>6. hired' + Cardinality(Hiring(req')) <= asks' + 2
  <2>1. /\ Cardinality(Hiring(req)) \in Nat /\ Cardinality(Hiring(req')) \in Nat
        /\ Cardinality(Hiring(req')) + Hires(req[r]) <= Cardinality(Hiring(req)) + Hires(NoAsk)
    BY <1>1, <1>2, HiringChanges
  <2>2. /\ hired + Cardinality(Hiring(req)) <= asks + 2 /\ hired \in Nat /\ asks \in Nat /\ asks' = asks
        /\ Hires(req[r]) \in Nat /\ Hires(NoAsk) \in Nat
    BY <1>2 DEF NumbersInv, AccountsShape, Hires
  <2>3. QED
    BY <2>1, <2>2
<1>7. \A t \in tokens' : t.who <= hired'
  BY <1>2 DEF NumbersInv, AccountsShape, TokenType
<1>8. \A s \in Requests : At(s, "login", "clear")' => req'[s].self.who <= hired'
  <2> SUFFICES ASSUME NEW s \in Requests, At(s, "login", "clear")' PROVE req'[s].self.who <= hired'
    OBVIOUS
  <2>1. req'[s] = req[s] /\ req[s].self.who <= hired /\ At(s, "login", "clear")
    BY <1>1, <1>2, <1>3 DEF NumbersInv, At
  <2>2. req[s].self.who \in Nat
    BY <1>2, NobodyIsZero DEF RequestsShape, RequestType
  <2>3. QED
    BY <1>2, <2>1, <2>2 DEF AccountsShape
<1>9. \A n \in Numbers, who \in Nat : Claims(n, who)' => Claims(n, who)
  BY <1>1, <1>3 DEF Claims, At
<1>10. \A s \in Requests, n \in Numbers :
         At(s, "issue", "write")' /\ req'[s].n = n => At(s, "issue", "write") /\ req[s].n = n
  BY <1>1, <1>3 DEF At
<1>11. QED
  BY <1>4, <1>5, <1>6, <1>7, <1>8, <1>9, <1>10

LEMMA DeleteKeeps ==
  ASSUME AccountsInv, NEW r \in Requests, Delete(r)
  PROVE  AccountsInv'
<1>1. req[r].do = "delete" /\ End(r) /\ UNCHANGED << throttleVars, tokens, hired, asks, outages >>
  BY DEF Delete, At
<1>2. AccountsShape /\ RequestsShape /\ NumbersInv /\ account \in [Numbers -> RowType] /\ retired \subseteq Numbers
  BY DEF AccountsInv, AccountsShape
<1>3. CASE ~StillThere(r)
  <2>1. account' = account /\ retired' = retired
    BY <1>3 DEF Delete
  <2>2. QED
    BY <1>1, <1>2, <2>1, WriteKeeps
<1>4. CASE StillThere(r)
  <2>1. PICK n \in Numbers : n = req[r].n
    BY <1>1, <1>4, StillThereIsThere
  <2>2. account' = [account EXCEPT ![n] = NoRow] /\ retired' = retired \cup Released(n)
    BY <1>4, <2>1 DEF Delete
  <2>3. account' \in [Numbers -> RowType] /\ account'[n] = NoRow /\ \A m \in Numbers \ {n} : account'[m] = account[m]
    BY <1>2, <2>2 DEF RowType
  <2>4. AccountsShape'
    <3>1. \A m \in Numbers : account'[m].who <= hired'
      <4>1. NoRow.who = 0 /\ hired' \in Nat
        BY <1>1, <1>2 DEF NoRow, AccountsShape
      <4>2. QED
        BY <1>1, <1>2, <2>3, <4>1 DEF AccountsShape
    <3>2. retired' \subseteq Numbers
      <4>1. Released(n) \subseteq 1..n
        BY DEF Released
      <4>2. 1..n \subseteq Numbers
        BY AccountsAssumption DEF Numbers
      <4>3. QED
        BY <1>2, <2>2, <4>1, <4>2
    <3>3. TokenType' = TokenType
      BY DEF TokenType
    <3>4. UNCHANGED << fails, ttl, tried, refused, tokens, hired, asks, outages >>
      BY <1>1 DEF throttleVars
    <3>5. QED
      BY <1>2, <2>3, <3>1, <3>2, <3>3, <3>4 DEF AccountsShape
  <2>5. /\ RequestsShape' /\ ThrottleInv'
        /\ hired' + Cardinality(Hiring(req')) <= asks' + 2
        /\ \A t \in tokens' : t.who <= hired'
        /\ \A s \in Requests : At(s, "login", "clear")' => req'[s].self.who <= hired'
        /\ \A m \in Numbers, who \in Nat : Claims(m, who)' => Claims(m, who)
        /\ \A s \in Requests, m \in Numbers :
             At(s, "issue", "write")' /\ req'[s].n = m => At(s, "issue", "write") /\ req[s].n = m
    <3>1. /\ hired' \in Nat /\ hired <= hired' /\ hired' + Hires(NoAsk) <= hired + Hires(req[r])
      <4>1. NoAsk.do = "rest"
        BY DEF NoAsk
      <4>2. Hires(NoAsk) = 0 /\ Hires(req[r]) = 0
        BY <1>1, <4>1 DEF Hires
      <4>3. QED
        BY <1>1, <1>2, <4>2 DEF AccountsShape
    <3>2. req[r].do \notin {"rest", "login"}
      BY <1>1
    <3>3. QED
      BY <1>1, <3>1, <3>2, RequestEnds
  <2>6. InUse' = InUse \ {n}
    BY <2>3 DEF InUse
  <2>7. InUse \subseteq Nat /\ n \in Nat
    BY DEF InUse, Numbers
  <2>8. ASSUME NEW m \in Numbers, NEW who \in Nat, Claims(m, who)', m \notin retired'
        PROVE  Stands(m, who)'
    <3>1. m \notin Released(n) /\ Stands(m, who) /\ m \in Nat
      BY <1>2, <2>2, <2>5, <2>8 DEF NumbersInv, Numbers
    <3>2. CASE account[m].who = who /\ m # n
      BY <2>3, <3>2 DEF Stands
    <3>3. CASE account[m].who = who /\ m = n
      <4>1. n \in 1..n
        BY DEF Numbers
      <4>2. PICK k \in InUse \ {n} : ~(k < n)
        BY <3>1, <3>3, <4>1 DEF Released
      <4>3. \A s \in Requests : ~(At(s, "issue", "write") /\ req[s].n = n)
        BY <3>1, <3>3, <4>1 DEF Released
      <4>4. k \in InUse' /\ n < k
        BY <2>6, <2>7, <4>2
      <4>5. \A s \in Requests : ~(At(s, "issue", "write")' /\ req'[s].n = n)
        BY <2>5, <4>3
      <4>6. QED
        BY <2>3, <3>3, <4>4, <4>5 DEF Stands
    <3>4. CASE account[m].who # who
      <4>1. account[m] = NoRow /\ \A s \in Requests : ~(At(s, "issue", "write") /\ req[s].n = m)
        BY <3>1, <3>4 DEF Stands
      <4>2. PICK l \in InUse : m < l
        BY <3>1, <3>4 DEF Stands
      <4>3. \E k \in InUse \ {n} : m < k
        <5>1. CASE l # n
          BY <4>2, <5>1
        <5>2. CASE l = n
          <6>1. m \in 1..n
            BY <2>7, <3>1, <4>2, <5>2 DEF Numbers
          <6>2. PICK k \in InUse \ {n} : ~(k < m)
            BY <3>1, <6>1 DEF Released
          <6>3. k # m
            BY <4>1, <6>2 DEF InUse
          <6>4. QED
            BY <2>7, <3>1, <6>2, <6>3
        <5>3. QED
          BY <5>1, <5>2
      <4>4. \E k \in InUse' : m < k
        BY <2>6, <4>3
      <4>5. account'[m] = NoRow
        BY <2>3, <4>1
      <4>6. \A s \in Requests : ~(At(s, "issue", "write")' /\ req'[s].n = m)
        BY <2>5, <4>1
      <4>7. QED
        BY <4>4, <4>5, <4>6 DEF Stands
    <3>5. QED
      BY <3>2, <3>3, <3>4
  <2>9. QED
    BY <2>4, <2>5, <2>8 DEF AccountsInv, NumbersInv
<1>5. QED
  BY <1>3, <1>4

LEMMA InsertKeeps ==
  ASSUME AccountsInv, NEW r \in Requests, NEW pw \in Passwords, Insert(r, pw), req[r].do \in {"issue", "create"},
         UNCHANGED << throttleVars, tokens, asks, outages >>,
         req[r].do = "issue" \/ req[r].n \in retired', retired \subseteq retired', retired' \subseteq Numbers
  PROVE  AccountsInv'
<1>1. AccountsShape /\ RequestsShape /\ NumbersInv /\ account \in [Numbers -> RowType]
  BY DEF AccountsInv, AccountsShape
<1>2. PICK n \in Numbers, role \in Roles : n = req[r].n /\ role = req[r].arg
  BY <1>1 DEF RequestsShape, Knows, AdminAsks
<1>3. End(r) /\ req[r].do \notin {"rest", "login"}
  BY DEF Insert
<1>4. CASE account[n] # NoRow
  <2>1. account' = account /\ hired' = hired
    BY <1>2, <1>4 DEF Insert
  <2>2. QED
    BY <1>1, <1>3, <2>1, WriteKeeps
<1>5. CASE account[n] = NoRow
  <2>1. hired' = hired + 1 /\ account' = [account EXCEPT ![n] = Row(hired + 1, role, pw)]
    BY <1>2, <1>5 DEF Insert
  <2>2. hired \in Nat \ {0, 1} /\ hired' \in Nat \ {0, 1} /\ hired <= hired'
    BY <1>1, <2>1 DEF AccountsShape
  <2>3. PICK row \in PersonType : row = Row(hired + 1, role, pw) /\ row.who = hired'
    <3>1. PICK who \in Nat \ {0} : who = hired + 1
      BY <2>2
    <3>2. PICK must \in BOOLEAN : must
      OBVIOUS
    <3>3. [who |-> who, role |-> role, status |-> "ACTIVE", pw |-> pw, must |-> must] \in PersonType
      BY DEF PersonType
    <3>4. Row(hired + 1, role, pw) = [who |-> who, role |-> role, status |-> "ACTIVE", pw |-> pw, must |-> must]
      BY <3>1, <3>2, Zenon DEF Row
    <3>5. QED
      BY <2>1, <3>1, <3>3, <3>4
  <2>4. account' \in [Numbers -> RowType] /\ account'[n] = row /\ \A m \in Numbers \ {n} : account'[m] = account[m]
    BY <1>1, <2>1, <2>3 DEF RowType
  <2>5. AccountsShape'
    <3>1. \A m \in Numbers : account'[m].who <= hired'
      <4>1. ASSUME NEW m \in Numbers \ {n} PROVE account'[m].who <= hired'
        <5>1. account'[m].who \in Nat /\ account'[m].who <= hired
          BY <1>1, <2>4, NobodyIsZero DEF AccountsShape
        <5>2. QED
          BY <2>2, <5>1
      <4>2. account'[n].who <= hired'
        BY <2>2, <2>3, <2>4
      <4>3. QED
        BY <4>1, <4>2
    <3>2. TokenType' = TokenType
      BY DEF TokenType
    <3>3. UNCHANGED << fails, ttl, tried, refused, tokens, asks, outages >>
      BY DEF throttleVars
    <3>4. QED
      BY <1>1, <2>2, <2>4, <3>1, <3>2, <3>3 DEF AccountsShape
  <2>6. /\ RequestsShape' /\ ThrottleInv'
        /\ hired' + Cardinality(Hiring(req')) <= asks' + 2
        /\ \A t \in tokens' : t.who <= hired'
        /\ \A s \in Requests : At(s, "login", "clear")' => req'[s].self.who <= hired'
        /\ \A m \in Numbers, who \in Nat : Claims(m, who)' => Claims(m, who)
        /\ \A s \in Requests, m \in Numbers :
             At(s, "issue", "write")' /\ req'[s].n = m => At(s, "issue", "write") /\ req[s].n = m
    <3>1. hired' + Hires(NoAsk) <= hired + Hires(req[r])
      <4>1. NoAsk.do = "rest"
        BY DEF NoAsk
      <4>2. Hires(NoAsk) = 0 /\ Hires(req[r]) = 1
        BY <4>1 DEF Hires
      <4>3. QED
        BY <2>1, <2>2, <4>2
    <3>2. hired' \in Nat
      BY <2>2
    <3>3. QED
      BY <1>3, <2>2, <3>1, <3>2, RequestEnds
  <2>7. \A m \in InUse : m \in InUse'
    <3>1. row # NoRow
      BY <2>2, <2>3 DEF NoRow
    <3>2. QED
      BY <2>4, <3>1 DEF InUse
  <2>8. ASSUME NEW m \in Numbers, NEW who \in Nat, Claims(m, who)', m \notin retired'
        PROVE  Stands(m, who)'
    <3>1. Claims(m, who) /\ Stands(m, who) /\ who # 0
      BY <1>1, <2>6, <2>8, ClaimantIsSomebody DEF NumbersInv
    <3>2. m # n
      <4>1. SUFFICES ASSUME m = n PROVE FALSE
        OBVIOUS
      <4>2. req[r].do = "issue"
        BY <1>2, <2>8, <4>1
      <4>3. account[n].who = 0
        BY <1>5 DEF NoRow
      <4>4. At(r, "issue", "write")
        BY <1>1, <4>2 DEF At, RequestsShape, Knows
      <4>5. QED
        BY <1>2, <3>1, <4>1, <4>3, <4>4 DEF Stands
    <3>3. CASE account[m].who = who
      BY <2>4, <3>2, <3>3 DEF Stands
    <3>4. CASE account[m].who # who
      BY <2>4, <2>6, <2>7, <3>1, <3>2, <3>4 DEF Stands
    <3>5. QED
      BY <3>3, <3>4
  <2>9. QED
    BY <2>5, <2>6, <2>8 DEF AccountsInv, NumbersInv
<1>6. QED
  BY <1>4, <1>5

LEMMA HireKeeps ==
  ASSUME AccountsInv, NEW r \in Requests, Issue(r) \/ Create(r)
  PROVE  AccountsInv'
<1>1. AccountsShape /\ RequestsShape /\ retired \subseteq Numbers
  BY DEF AccountsInv, AccountsShape
<1>2. CASE Issue(r)
  <2>1. /\ req[r].do = "issue" /\ Insert(r, Drawn) /\ Drawn \in Passwords
        /\ UNCHANGED << throttleVars, tokens, asks, outages, retired >>
    BY <1>2 DEF Issue, At, Passwords
  <2>2. QED
    BY <1>1, <2>1, InsertKeeps
<1>3. CASE Create(r)
  <2>1. PICK pw \in Chosen : Insert(r, pw)
    BY <1>3 DEF Create
  <2>2. /\ req[r].do = "create" /\ pw \in Passwords /\ retired' = retired \cup {req[r].n}
        /\ UNCHANGED << throttleVars, tokens, asks, outages >>
    BY <1>3 DEF Create, At, Passwords
  <2>3. req[r].n \in Numbers
    BY <1>1, <2>2 DEF RequestsShape, Knows, AdminAsks
  <2>4. retired' \subseteq Numbers /\ req[r].n \in retired' /\ retired \subseteq retired'
    BY <1>1, <2>2, <2>3
  <2>5. QED
    BY <2>1, <2>2, <2>4, InsertKeeps
<1>4. QED
  BY <1>2, <1>3

-----------------------------------------------------------------------------
(* A step of the accounts, seen from the board                              *)

BoardAsksStay == \A s \in Requests : req'[s].do \in BoardAsks => req'[s] = req[s]

LEMMA NewAskKeepsBoardAsks ==
  ASSUME AccountsInv, NEW r \in Requests, NEW ask, ask.do \notin BoardAsks, req' = [req EXCEPT ![r] = ask]
  PROVE  BoardAsksStay
<1>1. req'[r] = ask /\ \A s \in Requests : s # r => req'[s] = req[s]
  BY DEF AccountsInv, RequestsShape
<1>2. QED
  BY <1>1 DEF BoardAsksStay

LEMMA EndKeepsBoardAsks ==
  ASSUME AccountsInv, NEW r \in Requests, End(r)
  PROVE  BoardAsksStay
<1>1. NoAsk.do \notin BoardAsks
  BY DEF NoAsk, BoardAsks
<1>2. QED
  BY <1>1, NewAskKeepsBoardAsks DEF End

LEMMA GotoKeepsBoardAsks ==
  ASSUME AccountsInv, NEW r \in Requests, NEW pc, req[r].do = "login", Goto(r, pc)
  PROVE  BoardAsksStay
<1>1. PICK a \in RequestType : a = req[r] /\ a.do = "login"
  BY DEF AccountsInv, RequestsShape
<1>2. [a EXCEPT !.pc = pc].do = "login"
  BY <1>1 DEF RequestType
<1>3. req' = [req EXCEPT ![r] = [a EXCEPT !.pc = pc]]
  BY <1>1 DEF Goto
<1>4. QED
  BY <1>2, <1>3, NewAskKeepsBoardAsks DEF BoardAsks

LEMMA LoginsKeepBoardAsks ==
  ASSUME AccountsInv, NEW r \in Requests,
         Refuse(r) \/ Verify(r) \/ Count(r) \/ SetExpiry(r) \/ Clear(r) \/ RedisFails(r) \/ Crash(r)
  PROVE  BoardAsksStay /\ hired' = hired
<1>1. CASE Refuse(r) \/ SetExpiry(r) \/ Clear(r) \/ Crash(r)
  BY <1>1, EndKeepsBoardAsks DEF Refuse, SetExpiry, Clear, Crash
<1>2. CASE Count(r)
  <2>1. req[r].do = "login" /\ (End(r) \/ Goto(r, "expire")) /\ hired' = hired
    BY <1>2 DEF Count, At
  <2>2. QED
    BY <2>1, EndKeepsBoardAsks, GotoKeepsBoardAsks
<1>3. CASE RedisFails(r)
  <2>1. req[r].do = "login" /\ (End(r) \/ Goto(r, "verify")) /\ hired' = hired
    BY <1>3 DEF RedisFails
  <2>2. QED
    BY <2>1, EndKeepsBoardAsks, GotoKeepsBoardAsks
<1>4. CASE Verify(r)
  <2>1. req[r].do = "login" /\ hired' = hired
    BY <1>4 DEF Verify, At
  <2>2. \/ End(r) \/ Goto(r, "count")
        \/ req' = [req EXCEPT ![r].pc = "clear", ![r].self = account[req[r].n]]
    BY <1>4, Zenon DEF Verify
  <2>3. CASE req' = [req EXCEPT ![r].pc = "clear", ![r].self = account[req[r].n]]
    <3>1. PICK a \in RequestType : a = req[r] /\ a.do = "login"
      BY <2>1 DEF AccountsInv, RequestsShape
    <3>2. [a EXCEPT !.pc = "clear", !.self = account[req[r].n]].do = "login"
      BY <3>1 DEF RequestType
    <3>3. req' = [req EXCEPT ![r] = [req[r] EXCEPT !.pc = "clear", !.self = account[req[r].n]]]
      BY <2>3 DEF AccountsInv, RequestsShape
    <3>4. QED
      BY <2>1, <3>1, <3>2, <3>3, NewAskKeepsBoardAsks DEF BoardAsks
  <2>4. QED
    BY <2>1, <2>2, <2>3, EndKeepsBoardAsks, GotoKeepsBoardAsks
<1>5. QED
  BY <1>1, <1>2, <1>3, <1>4

LEMMA LoginStepsKeep ==
  ASSUME AccountsInv, NEW r \in Requests,
         Refuse(r) \/ Verify(r) \/ Count(r) \/ SetExpiry(r) \/ Clear(r) \/ RedisFails(r) \/ Crash(r)
  PROVE  AccountsInv'
BY RefuseKeeps, VerifyKeeps, CountKeeps, SetExpiryKeeps, ClearKeeps, RedisFailsKeeps, CrashKeeps

LEMMA WritesKeep ==
  ASSUME AccountsInv, NEW r \in Requests,
         SetStatus(r) \/ SetRole(r) \/ Delete(r) \/ Issue(r) \/ Create(r) \/ SetPassword(r)
  PROVE  AccountsInv' /\ BoardAsksStay /\ hired' \in Nat /\ hired <= hired'
<1>1. AccountsInv'
  BY SetStatusKeeps, SetRoleKeeps, DeleteKeeps, HireKeeps, SetPasswordKeeps
<1>2. End(r)
  BY DEF SetStatus, SetRole, Delete, Issue, Create, Insert, SetPassword
<1>3. hired' = hired \/ hired' = hired + 1
  BY DEF SetStatus, SetRole, Delete, Issue, Create, Insert, SetPassword
<1>4. hired \in Nat
  BY DEF AccountsInv, AccountsShape
<1>5. QED
  BY <1>1, <1>2, <1>3, <1>4, EndKeepsBoardAsks

LEMMA AccountsNextKeeps ==
  ASSUME AccountsInv, AccountsNext
  PROVE  AccountsInv' /\ BoardAsksStay /\ hired' \in Nat /\ hired <= hired'
<1>1. hired \in Nat
  BY DEF AccountsInv, AccountsShape
<1>2. CASE \E n \in Numbers : Expire(n)
  <2>1. PICK n \in Numbers : Expire(n)
    BY <1>2
  <2>2. BoardAsksStay /\ hired' = hired
    BY <2>1 DEF Expire, BoardAsksStay
  <2>3. QED
    BY <1>1, <2>1, <2>2, ExpireKeeps
<1>3. ASSUME NEW r \in Requests,
             Refuse(r) \/ Verify(r) \/ Count(r) \/ SetExpiry(r) \/ Clear(r) \/ RedisFails(r) \/ Crash(r)
      PROVE  AccountsInv' /\ BoardAsksStay /\ hired' \in Nat /\ hired <= hired'
  BY <1>1, <1>3, LoginStepsKeep, LoginsKeepBoardAsks
<1>4. ASSUME NEW r \in Requests,
             SetStatus(r) \/ SetRole(r) \/ Delete(r) \/ Issue(r) \/ Create(r) \/ SetPassword(r)
      PROVE  AccountsInv' /\ BoardAsksStay /\ hired' \in Nat /\ hired <= hired'
  BY <1>4, WritesKeep
<1>5. ASSUME NEW r \in Requests, Ready(r), NEW n \in Numbers, NEW guess \in KnownTo(n) \cup {NoPassword},
             CheckThrottle(r, n, guess)
      PROVE  AccountsInv' /\ BoardAsksStay /\ hired' = hired
  <2>1. guess \in Passwords
    BY DEF KnownTo, Passwords
  <2>2. PICK pc \in {"wait", "verify"} :
          /\ Begin(r, [NoAsk EXCEPT !.do = "login", !.pc = pc, !.n = n, !.pw = guess])
          /\ hired' = hired
    BY <1>5 DEF CheckThrottle, Login
  <2>3. [NoAsk EXCEPT !.do = "login", !.pc = pc, !.n = n, !.pw = guess].do \notin BoardAsks
    BY DEF NoAsk, BoardAsks
  <2>4. BoardAsksStay
    BY <2>2, <2>3, NewAskKeepsBoardAsks DEF Begin
  <2>5. QED
    BY <1>5, <2>1, <2>2, <2>4, LoginKeeps
<1>6. ASSUME NEW r \in Requests, Ready(r), NEW t \in tokens, NEW current, NEW new \in Chosen \cup {NoPassword},
             AskPassword(r, t, current, new)
      PROVE  AccountsInv' /\ BoardAsksStay /\ hired' = hired
  <2>1. PICK ask \in RequestType : Begin(r, ask) /\ ask.do = "password"
    BY <1>6, AskPasswordKeeps
  <2>2. BoardAsksStay
    BY <2>1, NewAskKeepsBoardAsks DEF Begin, BoardAsks
  <2>3. hired' = hired
    BY <1>6 DEF AskPassword, Quiet
  <2>4. QED
    BY <1>6, <2>2, <2>3, AskPasswordKeeps
<1>7. ASSUME NEW r \in Requests, Ready(r), NEW t \in tokens,
             \/ \E role \in GivenRoles : AskIssue(r, t, role)
             \/ \E n \in Numbers, role \in GivenRoles : AskRole(r, t, n, role) \/ AskCreate(r, t, n, role)
             \/ \E n \in Numbers, status \in {"ACTIVE", "INACTIVE"} : AskStatus(r, t, n, status)
             \/ \E n \in Numbers : AskDelete(r, t, n)
      PROVE  AccountsInv' /\ BoardAsksStay /\ hired' = hired
  <2>1. PICK do \in AdminAsks, n \in Numbers, arg \in Words : Submit(r, t, do, n, arg)
    BY <1>7, AsksKeep
  <2>2. PICK ask \in RequestType : Begin(r, ask) /\ ask.do = do
    BY <2>1, SubmitCarries
  <2>3. BoardAsksStay
    BY <2>2, NewAskKeepsBoardAsks DEF Begin, BoardAsks, AdminAsks
  <2>4. hired' = hired
    BY <1>7 DEF AskIssue, AskRole, AskCreate, AskStatus, AskDelete, Quiet
  <2>5. QED
    BY <1>7, <2>3, <2>4, AsksKeep
<1>8. QED
  BY <1>1, <1>2, <1>3, <1>4, <1>5, <1>6, <1>7 DEF AccountsNext

-----------------------------------------------------------------------------
(* The board                                                                *)

LEMMA BoardAskKeeps ==
  ASSUME BoardInv, NEW r \in Requests, NEW t \in tokens, Ready(r), NEW do \in BoardAsks, NEW p \in Posts,
         NEW arg \in PostKinds \cup {"NONE"}, Submit(r, t, do, p, arg), Same, UNCHANGED << post, moved >>,
         do \in {"post", "update"} /\ arg = "NOTICE" => account[t.n].role \in Managers,
         do = "post" => arg \in PostKinds /\ post[p] = NoPost,
         do = "post" => \A s \in Requests : ~(At(s, "post", "write") /\ req[s].n = p),
         do \in {"update", "remove", "comment"} => There(p),
         do = "comment" => MayComment(account[t.n].role, p)
  PROVE  BoardInv'
<1>1. AccountsInv /\ PostsInv /\ RequestsShape
  BY DEF BoardInv, AccountsInv
<1>2. PICK ask \in RequestType :
        /\ Begin(r, ask)
        /\ ask.do = do /\ ask.pc = "write" /\ ask.self = account[t.n] /\ ask.n = p /\ ask.arg = arg
        /\ ask.self # NoRow /\ ask.self.who <= hired /\ ask.self.role \in Roles
  <2>1. arg \in Words /\ do \in AdminAsks \cup BoardAsks /\ p \in Numbers \cup Posts
    BY DEF Words
  <2>2. QED
    BY <1>1, <2>1, SubmitCarries
<1>3. Knows(ask, hired)
  BY <1>2 DEF Knows, AdminAsks, BoardAsks
<1>4. AccountsInv'
  <2>1. Quiet /\ ask.do # "login" /\ ask.do # "issue"
    BY <1>2 DEF Same, Quiet, BoardAsks
  <2>2. QED
    BY <1>1, <1>2, <1>3, <2>1, RequestBegins
<1>5. req'[r] = ask /\ \A s \in Requests : s # r => req'[s] = req[s]
  BY <1>1, <1>2 DEF Begin, RequestsShape
<1>6. PostsArePlanned'
  <2> SUFFICES ASSUME NEW s \in Requests, NEW q \in Posts, req'[s].n = q
               PROVE  /\ req'[s].do = "post" =>
                           post[q] = NoPost /\ \A u \in Requests : req'[u].do = "post" /\ req'[u].n = q => u = s
                      /\ req'[s].do \in {"update", "remove", "comment"} => post[q] # NoPost
                      /\ req'[s].do = "comment" /\ There(q) /\ q \notin moved =>
                           post[q].category # "NOTICE" /\ (post[q].category = "MANUAL" => req'[s].self.role \in Managers)
    BY DEF PostsArePlanned, There
  <2>1. do = "post" => \A u \in Requests : ~(req[u].do = "post" /\ req[u].n = p)
    BY <1>1 DEF At, RequestsShape, Knows
  <2>2. There(p) => post[p] # NoPost
    BY DEF There, NoPost, PostKinds
  <2>3. CASE s = r
    <3>1. do = "post" =>
            post[q] = NoPost /\ \A u \in Requests : req'[u].do = "post" /\ req'[u].n = q => u = s
      BY <1>2, <1>5, <2>1, <2>3
    <3>2. do \in {"update", "remove", "comment"} => post[q] # NoPost
      BY <1>2, <1>5, <2>2, <2>3
    <3>3. do = "comment" =>
            post[q].category # "NOTICE" /\ (post[q].category = "MANUAL" => req'[s].self.role \in Managers)
      BY <1>2, <1>5, <2>3 DEF MayComment
    <3>4. QED
      BY <1>2, <1>5, <2>3, <3>1, <3>2, <3>3
  <2>4. CASE s # r
    BY <1>1, <1>2, <1>5, <2>1, <2>4 DEF PostsInv, PostsArePlanned
  <2>5. QED
    BY <2>3, <2>4
<1>7. PostsShape' /\ NoticeByAdmin' /\ CommentsAreAdmitted'
  <2>1. PostType' = PostType /\ hired' = hired
    BY DEF PostType, CommentType, Same
  <2>2. QED
    BY <1>1, <2>1 DEF PostsInv, PostsShape, NoticeByAdmin, CommentsAreAdmitted, There
<1>8. QED
  BY <1>4, <1>6, <1>7 DEF BoardInv, PostsInv

LEMMA AskPostKeeps ==
  ASSUME BoardInv, NEW r \in Requests, NEW t \in tokens, Ready(r), NEW p \in Posts, BoardAsk(r, t, p)
  PROVE  BoardInv'
<1>1. Same /\ UNCHANGED << post, moved >>
  BY DEF BoardAsk
<1>2. CASE \E c \in PostKinds : AskPost(r, t, p, c)
  <2>1. PICK c \in PostKinds : AskPost(r, t, p, c)
    BY <1>2
  <2>2. /\ "post" \in BoardAsks /\ c \in PostKinds \cup {"NONE"} /\ Submit(r, t, "post", p, c) /\ post[p] = NoPost
        /\ \A s \in Requests : ~(At(s, "post", "write") /\ req[s].n = p)
        /\ c = "NOTICE" => account[t.n].role \in Managers
    BY <2>1 DEF AskPost, BoardAsks, MayWrite, RoleOf
  <2>3. QED
    BY <1>1, <2>2, BoardAskKeeps
<1>3. CASE \E c \in PostKinds \cup {"NONE"} : AskUpdate(r, t, p, c)
  <2>1. PICK c \in PostKinds \cup {"NONE"} : AskUpdate(r, t, p, c)
    BY <1>3
  <2>2. /\ "update" \in BoardAsks /\ Submit(r, t, "update", p, Change(p, c)) /\ There(p)
        /\ c = "NOTICE" => account[t.n].role \in Managers
    BY <2>1 DEF AskUpdate, BoardAsks, MayWrite, RoleOf
  <2>3. Change(p, c) \in PostKinds \cup {"NONE"} /\ (Change(p, c) = "NOTICE" => c = "NOTICE")
    BY DEF Change
  <2>4. QED
    BY <1>1, <2>2, <2>3, BoardAskKeeps
<1>4. CASE AskRemove(r, t, p)
  <2>1. "remove" \in BoardAsks /\ Submit(r, t, "remove", p, "NONE") /\ There(p)
    BY <1>4 DEF AskRemove, BoardAsks
  <2>2. QED
    BY <1>1, <2>1, BoardAskKeeps
<1>5. CASE AskComment(r, t, p)
  <2>1. /\ "comment" \in BoardAsks /\ Submit(r, t, "comment", p, "NONE") /\ There(p) /\ MayComment(account[t.n].role, p)
    BY <1>5 DEF AskComment, BoardAsks, RoleOf
  <2>2. QED
    BY <1>1, <2>1, BoardAskKeeps
<1>6. QED
  BY <1>2, <1>3, <1>4, <1>5 DEF BoardAsk

(* What is written to a post comes from one request, which ends.            *)
LEMMA BoardWriteKeeps ==
  ASSUME BoardInv, NEW r \in Requests, End(r), req[r].do \in BoardAsks, Same, asks' = asks
  PROVE  /\ AccountsInv' /\ hired' = hired
         /\ req'[r].do = "rest" /\ \A s \in Requests : s # r => req'[s] = req[s]
<1>1. AccountsInv /\ RequestsShape /\ AccountsShape
  BY DEF BoardInv, AccountsInv
<1>2. AccountsInv'
  <2>1. req[r].do \notin {"rest", "login"}
    BY DEF BoardAsks
  <2>2. /\ account' \in [Numbers -> RowType] /\ \A n \in Numbers : account'[n].who = account[n].who
        /\ UNCHANGED << throttleVars, tokens, hired, asks, outages >>
        /\ retired \subseteq retired' /\ retired' \subseteq Numbers
    BY <1>1 DEF Same, AccountsShape
  <2>3. QED
    BY <1>1, <2>1, <2>2, WriteKeeps
<1>3. req'[r].do = "rest" /\ \A s \in Requests : s # r => req'[s] = req[s]
  <2>1. NoAsk.do = "rest"
    BY DEF NoAsk
  <2>2. QED
    BY <1>1, <2>1 DEF End, RequestsShape
<1>4. QED
  BY <1>2, <1>3 DEF Same

(* What r may make of post p, with what the others are about to do.         *)
Fits(r, p, new) ==
  /\ new.category \notin PostKinds => new = GonePost
  /\ new.category \in PostKinds => new.author \in 1..hired
  /\ new.category = "NOTICE" => new.made \in Managers
  /\ \A c \in new.comments : c.author <= hired
  /\ \A c \in new.comments : p \in moved' \/ (c.under # "NOTICE" /\ (c.under = "MANUAL" => c.rank \in Managers))
  /\ \A s \in Requests : s # r /\ req[s].n = p => req[s].do # "post"
  /\ \A s \in Requests : s # r /\ req[s].n = p /\ req[s].do = "comment" /\ p \notin moved' =>
       new.category # "NOTICE" /\ (new.category = "MANUAL" => req[s].self.role \in Managers)

LEMMA PostChanges ==
  ASSUME BoardInv, NEW r \in Requests, End(r), req[r].do \in BoardAsks, Same, asks' = asks,
         NEW p \in Posts, NEW new \in PostType, post' = [post EXCEPT ![p] = new],
         moved \subseteq moved', moved' \subseteq Posts, Fits(r, p, new)
  PROVE  BoardInv'
<1>f. /\ new.category \notin PostKinds => new = GonePost
      /\ new.category \in PostKinds => new.author \in 1..hired
      /\ new.category = "NOTICE" => new.made \in Managers
      /\ \A c \in new.comments : c.author <= hired
      /\ \A c \in new.comments : p \in moved' \/ (c.under # "NOTICE" /\ (c.under = "MANUAL" => c.rank \in Managers))
      /\ \A s \in Requests : s # r /\ req[s].n = p => req[s].do # "post"
      /\ \A s \in Requests : s # r /\ req[s].n = p /\ req[s].do = "comment" /\ p \notin moved' =>
           new.category # "NOTICE" /\ (new.category = "MANUAL" => req[s].self.role \in Managers)
  BY DEF Fits
<1>1. PostsShape /\ PostsArePlanned /\ NoticeByAdmin /\ CommentsAreAdmitted /\ post \in [Posts -> PostType]
  BY DEF BoardInv, PostsInv, PostsShape
<1>2. /\ AccountsInv' /\ hired' = hired
      /\ req'[r].do = "rest" /\ \A s \in Requests : s # r => req'[s] = req[s]
  BY BoardWriteKeeps
<1>3. post' \in [Posts -> PostType] /\ post'[p] = new /\ \A q \in Posts : q # p => post'[q] = post[q]
  BY <1>1
<1>4. new # NoPost
  BY <1>f DEF GonePost, NoPost, PostKinds
<1>5. PostsShape'
  <2>1. ASSUME NEW q \in Posts
        PROVE  /\ ~There(q)' => post'[q] \in {NoPost, GonePost}
               /\ There(q)' => post'[q].author \in 1..hired'
               /\ \A c \in post'[q].comments : c.author <= hired'
    <3>1. CASE q = p
      BY <1>f, <1>2, <1>3, <3>1 DEF There
    <3>2. CASE q # p
      BY <1>1, <1>2, <1>3, <3>2 DEF There, PostsShape
    <3>3. QED
      BY <3>1, <3>2
  <2>2. PostType' = PostType
    BY DEF PostType, CommentType
  <2>3. QED
    BY <1>3, <2>1, <2>2 DEF PostsShape
<1>6. PostsArePlanned'
  <2> SUFFICES ASSUME NEW s \in Requests, NEW q \in Posts, req'[s].n = q
               PROVE  /\ req'[s].do = "post" =>
                           post'[q] = NoPost /\ \A u \in Requests : req'[u].do = "post" /\ req'[u].n = q => u = s
                      /\ req'[s].do \in {"update", "remove", "comment"} => post'[q] # NoPost
                      /\ req'[s].do = "comment" /\ There(q)' /\ q \notin moved' =>
                           post'[q].category # "NOTICE" /\ (post'[q].category = "MANUAL" => req'[s].self.role \in Managers)
    BY DEF PostsArePlanned
  <2>1. CASE s = r
    BY <1>2, <2>1
  <2>2. CASE s # r /\ q = p
    <3>1. req'[s] = req[s] /\ req[s].do # "post" /\ post'[q] # NoPost
      BY <1>f, <1>2, <1>3, <1>4, <2>2
    <3>2. req[s].do = "comment" /\ q \notin moved' =>
            post'[q].category # "NOTICE" /\ (post'[q].category = "MANUAL" => req[s].self.role \in Managers)
      BY <1>f, <1>3, <2>2, <3>1
    <3>3. QED
      BY <3>1, <3>2
  <2>3. CASE s # r /\ q # p
    <3>1. req'[s] = req[s] /\ post'[q] = post[q] /\ (There(q)' <=> There(q)) /\ (q \in moved => q \in moved')
      BY <1>2, <1>3, <2>3 DEF There
    <3>2. /\ req[s].do = "post" => post[q] = NoPost /\ \A u \in Requests : req[u].do = "post" /\ req[u].n = q => u = s
          /\ req[s].do \in {"update", "remove", "comment"} => post[q] # NoPost
          /\ req[s].do = "comment" /\ There(q) /\ q \notin moved =>
               post[q].category # "NOTICE" /\ (post[q].category = "MANUAL" => req[s].self.role \in Managers)
      BY <1>1, <3>1 DEF PostsArePlanned
    <3>3. \A u \in Requests : req'[u].do = "post" => req'[u] = req[u]
      BY <1>2
    <3>4. QED
      BY <3>1, <3>2, <3>3
  <2>4. QED
    BY <2>1, <2>2, <2>3
<1>7. NoticeByAdmin'
  BY <1>f, <1>1, <1>3 DEF NoticeByAdmin
<1>8. CommentsAreAdmitted'
  BY <1>f, <1>1, <1>3 DEF CommentsAreAdmitted
<1>9. QED
  BY <1>2, <1>5, <1>6, <1>7, <1>8 DEF BoardInv, PostsInv

LEMMA PostsRest ==
  ASSUME BoardInv, NEW r \in Requests, End(r), req[r].do \in BoardAsks, Same, asks' = asks,
         post' = post, moved \subseteq moved', moved' \subseteq Posts
  PROVE  BoardInv'
<1>1. PostsShape /\ PostsArePlanned /\ NoticeByAdmin /\ CommentsAreAdmitted
  BY DEF BoardInv, PostsInv
<1>2. /\ AccountsInv' /\ hired' = hired
      /\ req'[r].do = "rest" /\ \A s \in Requests : s # r => req'[s] = req[s]
  BY BoardWriteKeeps
<1>3. PostsShape'
  <2>1. PostType' = PostType
    BY DEF PostType, CommentType
  <2>2. QED
    BY <1>1, <1>2, <2>1 DEF PostsShape, There
<1>4. PostsArePlanned'
  <2> SUFFICES ASSUME NEW s \in Requests, NEW q \in Posts, req'[s].n = q, s # r
               PROVE  /\ req'[s].do = "post" =>
                           post[q] = NoPost /\ \A u \in Requests : req'[u].do = "post" /\ req'[u].n = q => u = s
                      /\ req'[s].do \in {"update", "remove", "comment"} => post[q] # NoPost
                      /\ req'[s].do = "comment" /\ There(q) /\ q \notin moved' =>
                           post[q].category # "NOTICE" /\ (post[q].category = "MANUAL" => req'[s].self.role \in Managers)
    BY <1>2 DEF PostsArePlanned, There
  <2>1. \A u \in Requests : req'[u].do = "post" => req'[u] = req[u]
    BY <1>2
  <2>2. req'[s] = req[s] /\ (q \in moved => q \in moved')
    BY <1>2
  <2>3. QED
    BY <1>1, <2>1, <2>2 DEF PostsArePlanned
<1>5. NoticeByAdmin' /\ CommentsAreAdmitted'
  BY <1>1 DEF NoticeByAdmin, CommentsAreAdmitted
<1>6. QED
  BY <1>2, <1>3, <1>4, <1>5 DEF BoardInv, PostsInv

(* Who asks for something on the board is somebody.                         *)
LEMMA AskerIsSomebody ==
  ASSUME BoardInv, NEW r \in Requests, req[r].do \in BoardAsks
  PROVE  /\ req[r].n \in Posts /\ req[r].self.who \in 1..hired /\ req[r].self.who \in Nat \ {0} /\ req[r].self.role \in Roles
         /\ req[r] \in RequestType /\ Knows(req[r], hired)
<1>1. req[r] \in RequestType /\ Knows(req[r], hired) /\ hired \in Nat
  BY DEF BoardInv, AccountsInv, RequestsShape, AccountsShape
<1>2. req[r].self # NoRow /\ req[r].self.who <= hired /\ req[r].n \in Posts
  BY <1>1 DEF Knows, BoardAsks
<1>3. req[r].self \in PersonType
  BY <1>1, <1>2 DEF RequestType, RowType
<1>4. QED
  BY <1>1, <1>2, <1>3 DEF PersonType

LEMMA CreatePostKeeps ==
  ASSUME BoardInv, NEW r \in Requests, CreatePost(r)
  PROVE  BoardInv'
<1>1. req[r].do = "post" /\ req[r].do \in BoardAsks /\ End(r) /\ Same /\ asks' = asks /\ moved' = moved
  BY DEF CreatePost, At, BoardAsks
<1>2. PICK p \in Posts, kind \in PostKinds, author \in 1..hired, role \in Roles :
        /\ p = req[r].n /\ kind = req[r].arg /\ author = req[r].self.who /\ role = req[r].self.role /\ author \in Nat
        /\ kind = "NOTICE" => role \in Managers
  <2>1. req[r].arg \in PostKinds /\ (req[r].arg = "NOTICE" => req[r].self.role \in Managers)
    BY <1>1, AskerIsSomebody DEF Knows
  <2>2. QED
    BY <1>1, <2>1, AskerIsSomebody
<1>3. moved \subseteq moved' /\ moved' \subseteq Posts
  BY <1>1 DEF BoardInv, PostsInv, PostsShape
<1>4. CASE ~Alive(author)
  <2>1. post' = post
    BY <1>2, <1>4 DEF CreatePost
  <2>2. QED
    BY <1>1, <1>3, <2>1, PostsRest
<1>5. CASE Alive(author)
  <2>1. PICK new \in PostType : new = [category |-> kind, author |-> author, comments |-> {}, made |-> role]
    <3>1. author \in Nat /\ {} \in SUBSET CommentType
      BY <1>2
    <3>2. [category |-> kind, author |-> author, comments |-> {}, made |-> role] \in PostType
      BY <3>1 DEF PostType
    <3>3. QED
      BY <3>2
  <2>2. post' = [post EXCEPT ![p] = new]
    BY <1>2, <1>5, <2>1 DEF CreatePost
  <2>3. /\ new.category \in PostKinds /\ new.author \in 1..hired /\ (new.category = "NOTICE" => new.made \in Managers)
        /\ new.comments = {}
    BY <1>2, <2>1
  <2>4. \A s \in Requests : s # r /\ req[s].n = p => req[s].do # "post" /\ req[s].do # "comment"
    BY <1>1, <1>2 DEF BoardInv, PostsInv, PostsArePlanned
  <2>5. Fits(r, p, new)
    BY <2>3, <2>4 DEF Fits
  <2>6. QED
    BY <1>1, <1>3, <2>2, <2>5, PostChanges
<1>6. QED
  BY <1>4, <1>5

LEMMA UpdatePostKeeps ==
  ASSUME BoardInv, NEW r \in Requests, UpdatePost(r)
  PROVE  BoardInv'
<1>1. req[r].do = "update" /\ req[r].do \in BoardAsks /\ End(r) /\ Same /\ asks' = asks
  BY DEF UpdatePost, At, BoardAsks
<1>2. PICK p \in Posts, arg \in PostKinds \cup {"NONE"}, role \in Roles :
        /\ p = req[r].n /\ arg = req[r].arg /\ role = req[r].self.role
        /\ arg = "NOTICE" => role \in Managers
  <2>1. req[r].arg \in PostKinds \cup {"NONE"} /\ (req[r].arg = "NOTICE" => req[r].self.role \in Managers)
    BY <1>1, AskerIsSomebody DEF Knows
  <2>2. QED
    BY <1>1, <2>1, AskerIsSomebody
<1>3. PICK category : category = IF arg = "NONE" THEN post[p].category ELSE arg
  OBVIOUS
<1>4. moved' = IF category # post[p].category /\ Busy(r, p) THEN moved \cup {p} ELSE moved
  BY <1>2, <1>3 DEF UpdatePost
<1>5. moved \subseteq moved' /\ moved' \subseteq Posts
  BY <1>4 DEF BoardInv, PostsInv, PostsShape
<1>6. CASE ~There(p)
  <2>1. post' = post
    BY <1>2, <1>6 DEF UpdatePost
  <2>2. QED
    BY <1>1, <1>5, <2>1, PostsRest
<1>7. CASE There(p)
  <2>1. PICK old \in PostType : old = post[p] /\ old.category \in PostKinds
    BY <1>7 DEF There, BoardInv, PostsInv, PostsShape
  <2>2. PICK made \in Roles \cup {"NONE"} : made = IF category = old.category THEN old.made ELSE role
    BY <2>1 DEF PostType
  <2>3. category \in PostKinds
    BY <1>3, <2>1
  <2>4. PICK new \in PostType : new = [old EXCEPT !.category = category, !.made = made]
    BY <2>3 DEF PostType
  <2>5. new.category = category /\ new.made = made /\ new.author = old.author /\ new.comments = old.comments
    BY <2>4 DEF PostType
  <2>6. post' = [post EXCEPT ![p] = new]
    <3>1. post' = [post EXCEPT ![p].category = category, ![p].made = IF category = post[p].category THEN @ ELSE role]
      BY <1>2, <1>3, <1>7 DEF UpdatePost
    <3>2. post' = [post EXCEPT ![p] = [post[p] EXCEPT !.category = category, !.made = IF category = post[p].category THEN @ ELSE role]]
      BY <3>1 DEF BoardInv, PostsInv, PostsShape
    <3>3. QED
      BY <2>1, <2>2, <2>4, <3>2 DEF PostType
  <2>7. /\ new.author \in 1..hired /\ \A c \in new.comments : c.author <= hired
        /\ \A c \in new.comments : p \in moved' \/ (c.under # "NOTICE" /\ (c.under = "MANUAL" => c.rank \in Managers))
    BY <1>5, <1>7, <2>1, <2>5 DEF BoardInv, PostsInv, PostsShape, CommentsAreAdmitted
  <2>8. new.category = "NOTICE" => new.made \in Managers
    BY <1>2, <1>3, <2>1, <2>2, <2>5 DEF BoardInv, PostsInv, NoticeByAdmin
  <2>9. \A s \in Requests : s # r /\ req[s].n = p => req[s].do # "post"
    BY <1>1, <1>2 DEF BoardInv, PostsInv, PostsArePlanned
  <2>10. ASSUME NEW s \in Requests, s # r, req[s].n = p, req[s].do = "comment", p \notin moved'
         PROVE  new.category # "NOTICE" /\ (new.category = "MANUAL" => req[s].self.role \in Managers)
    <3>1. Busy(r, p)
      BY <2>10 DEF Busy
    <3>2. category = old.category /\ p \notin moved
      BY <1>4, <1>5, <2>1, <2>10, <3>1
    <3>3. QED
      BY <1>7, <2>1, <2>5, <2>10, <3>2 DEF BoardInv, PostsInv, PostsArePlanned
  <2>11. Fits(r, p, new)
    BY <2>3, <2>5, <2>7, <2>8, <2>9, <2>10 DEF Fits
  <2>12. QED
    BY <1>1, <1>5, <2>6, <2>11, PostChanges
<1>8. QED
  BY <1>6, <1>7

LEMMA RemovePostKeeps ==
  ASSUME BoardInv, NEW r \in Requests, RemovePost(r)
  PROVE  BoardInv'
<1>1. req[r].do = "remove" /\ req[r].do \in BoardAsks /\ End(r) /\ Same /\ asks' = asks /\ moved' = moved
  BY DEF RemovePost, At, BoardAsks
<1>2. PICK p \in Posts : p = req[r].n
  BY <1>1, AskerIsSomebody
<1>3. PICK new \in PostType : new = GonePost /\ new.category = "GONE" /\ new.comments = {}
  <2>1. GonePost \in PostType
    BY DEF GonePost, NoPost, PostType
  <2>2. GonePost.category = "GONE" /\ GonePost.comments = {}
    BY DEF GonePost, NoPost
  <2>3. QED
    BY <2>1, <2>2
<1>4. post' = [post EXCEPT ![p] = new]
  BY <1>2, <1>3 DEF RemovePost
<1>5. new.category \notin PostKinds
  BY <1>3 DEF PostKinds
<1>6. \A s \in Requests : s # r /\ req[s].n = p => req[s].do # "post"
  BY <1>1, <1>2 DEF BoardInv, PostsInv, PostsArePlanned
<1>7. moved \subseteq moved' /\ moved' \subseteq Posts
  BY <1>1 DEF BoardInv, PostsInv, PostsShape
<1>8. Fits(r, p, new)
  BY <1>3, <1>5, <1>6 DEF Fits
<1>9. QED
  BY <1>1, <1>4, <1>7, <1>8, PostChanges

LEMMA CreateCommentKeeps ==
  ASSUME BoardInv, NEW r \in Requests, CreateComment(r)
  PROVE  BoardInv'
<1>1. req[r].do = "comment" /\ req[r].do \in BoardAsks /\ End(r) /\ Same /\ asks' = asks /\ moved' = moved
  BY DEF CreateComment, At, BoardAsks
<1>2. PICK p \in Posts, author \in 1..hired, role \in Roles :
        p = req[r].n /\ author = req[r].self.who /\ role = req[r].self.role /\ author \in Nat \ {0}
  BY <1>1, AskerIsSomebody
<1>3. moved \subseteq moved' /\ moved' \subseteq Posts
  BY <1>1 DEF BoardInv, PostsInv, PostsShape
<1>4. CASE ~There(p) \/ ~Alive(author)
  <2>1. post' = post
    BY <1>2, <1>4 DEF CreateComment
  <2>2. QED
    BY <1>1, <1>3, <2>1, PostsRest
<1>5. CASE There(p) /\ Alive(author)
  <2>1. PICK old \in PostType : old = post[p] /\ old.category \in PostKinds
    BY <1>5 DEF There, BoardInv, PostsInv, PostsShape
  <2>2. PICK c \in CommentType : c = [author |-> author, rank |-> role, under |-> old.category]
    BY <1>2, <2>1 DEF CommentType
  <2>3. c.author = author /\ c.rank = role /\ c.under = old.category
    BY <2>2
  <2>4. PICK new \in PostType : new = [old EXCEPT !.comments = old.comments \cup {c}]
    BY DEF PostType
  <2>5. /\ new.category = old.category /\ new.made = old.made /\ new.author = old.author
        /\ new.comments = old.comments \cup {c}
    BY <2>4 DEF PostType
  <2>6. post' = [post EXCEPT ![p] = new]
    <3>1. post' = [post EXCEPT ![p].comments = @ \cup {c}]
      BY <1>2, <1>5, <2>1, <2>2 DEF CreateComment
    <3>2. QED
      BY <2>1, <2>4, <3>1
  <2>7. new.author \in 1..hired /\ \A d \in new.comments : d.author <= hired
    BY <1>2, <1>5, <2>1, <2>3, <2>5 DEF BoardInv, PostsInv, PostsShape
  <2>8. \A d \in new.comments : p \in moved' \/ (d.under # "NOTICE" /\ (d.under = "MANUAL" => d.rank \in Managers))
    <3>1. p \in moved \/ (c.under # "NOTICE" /\ (c.under = "MANUAL" => c.rank \in Managers))
      BY <1>1, <1>2, <1>5, <2>1, <2>3 DEF BoardInv, PostsInv, PostsArePlanned
    <3>2. \A d \in old.comments : p \in moved \/ (d.under # "NOTICE" /\ (d.under = "MANUAL" => d.rank \in Managers))
      BY <2>1 DEF BoardInv, PostsInv, CommentsAreAdmitted
    <3>3. QED
      BY <1>1, <2>5, <3>1, <3>2
  <2>9. new.category = "NOTICE" => new.made \in Managers
    BY <2>1, <2>5 DEF BoardInv, PostsInv, NoticeByAdmin
  <2>10. \A s \in Requests : s # r /\ req[s].n = p => req[s].do # "post"
    BY <1>1, <1>2 DEF BoardInv, PostsInv, PostsArePlanned
  <2>11. \A s \in Requests : s # r /\ req[s].n = p /\ req[s].do = "comment" /\ p \notin moved' =>
           new.category # "NOTICE" /\ (new.category = "MANUAL" => req[s].self.role \in Managers)
    BY <1>1, <1>5, <2>1, <2>5 DEF BoardInv, PostsInv, PostsArePlanned
  <2>12. Fits(r, p, new)
    BY <2>1, <2>5, <2>7, <2>8, <2>9, <2>10, <2>11 DEF Fits
  <2>13. QED
    BY <1>1, <1>3, <2>6, <2>12, PostChanges
<1>6. QED
  BY <1>4, <1>5

LEMMA BoardNextKeeps ==
  ASSUME BoardInv, [BoardNext]_boardVars
  PROVE  BoardInv'
<1>1. CASE AccountsNext /\ Cascade /\ UNCHANGED moved
  <2>1. AccountsInv /\ PostsInv
    BY DEF BoardInv
  <2>2. AccountsInv' /\ BoardAsksStay /\ hired' \in Nat /\ hired <= hired'
    BY <1>1, <2>1, AccountsNextKeeps
  <2>3. PostsInv'
    <3>1. AccountsShape /\ RequestsShape
      BY <2>1 DEF AccountsInv
    <3>2. QED
      BY <1>1, <2>1, <2>2, <3>1, PostsStay DEF BoardAsksStay
  <2>4. QED
    BY <2>2, <2>3 DEF BoardInv
<1>2. ASSUME NEW r \in Requests, CreatePost(r) \/ UpdatePost(r) \/ RemovePost(r) \/ CreateComment(r) PROVE BoardInv'
  BY <1>2, CreatePostKeeps, UpdatePostKeeps, RemovePostKeeps, CreateCommentKeeps
<1>3. ASSUME NEW r \in Requests, Ready(r), NEW t \in tokens, NEW p \in Posts, BoardAsk(r, t, p) PROVE BoardInv'
  BY <1>3, AskPostKeeps
<1>4. CASE UNCHANGED boardVars
  <2>1. UNCHANGED << account, fails, ttl, tokens, req, hired, asks, outages, tried, refused, retired, post, moved >>
    BY <1>4 DEF boardVars, accountVars
  <2>2. AccountsShape' /\ RequestsShape' /\ NumbersInv'
    <3>1. AccountsShape /\ RequestsShape /\ NumbersInv
      BY DEF BoardInv, AccountsInv
    <3>2. QED
      BY <2>1, <3>1 DEF AccountsShape, RequestsShape, Knows, NumbersInv, Claims, Stands, InUse, At
  <2>3. ThrottleInv'
    BY <2>1 DEF BoardInv, AccountsInv, ThrottleInv, ThrottleAt
  <2>4. PostsInv'
    BY <2>1 DEF BoardInv, PostsInv, PostsShape, PostsArePlanned, NoticeByAdmin, CommentsAreAdmitted, There
  <2>5. QED
    BY <2>2, <2>3, <2>4 DEF BoardInv, AccountsInv
<1>5. QED
  BY <1>1, <1>2, <1>3, <1>4 DEF BoardNext

-----------------------------------------------------------------------------
(* In the beginning                                                         *)

LEMMA FirstPeople ==
  ASSUME AccountsInit
  PROVE  /\ account \in [Numbers -> RowType] /\ tokens \subseteq TokenType
         /\ \A t \in tokens : t.who <= 2 /\ account[t.n].who = t.who
         /\ \A n \in Numbers : account[n].who <= 2
<1>1. PICK role \in Roles :
        /\ account = [n \in Numbers |-> CASE n = 1   -> [Row(1, "MASTER", CHOOSE pw \in Chosen : Acceptable(pw)) EXCEPT !.must = FALSE]
                                          [] n = 2   -> Row(2, role, Drawn)
                                          [] n \notin 1..2 -> NoRow]
        /\ tokens = { [n |-> 1, who |-> 1, role |-> "MASTER"], [n |-> 2, who |-> 2, role |-> role] }
  BY AccountsAssumption DEF AccountsInit
<1>2. PICK pw \in Passwords : pw = CHOOSE q \in Chosen : Acceptable(q)
  BY AccountsAssumption DEF Passwords
<1>3. PICK yes \in BOOLEAN, no \in BOOLEAN : yes = TRUE /\ no = FALSE
  BY Zenon
<1>4. Drawn \in Passwords
  BY DEF Passwords
<1>5. /\ [who |-> 1, role |-> "MASTER", status |-> "ACTIVE", pw |-> pw, must |-> yes] \in PersonType
      /\ [who |-> 2, role |-> role, status |-> "ACTIVE", pw |-> Drawn, must |-> yes] \in PersonType
  BY <1>4 DEF PersonType, Roles
<1>6. PICK a \in PersonType : a = Row(1, "MASTER", pw) /\ a.who = 1
  <2>1. Row(1, "MASTER", pw) = [who |-> 1, role |-> "MASTER", status |-> "ACTIVE", pw |-> pw, must |-> yes]
    BY <1>3, Zenon DEF Row
  <2>2. QED
    BY <1>5, <2>1
<1>7. PICK b \in PersonType : b = Row(2, role, Drawn) /\ b.who = 2
  <2>1. Row(2, role, Drawn) = [who |-> 2, role |-> role, status |-> "ACTIVE", pw |-> Drawn, must |-> yes]
    BY <1>3, Zenon DEF Row
  <2>2. QED
    BY <1>5, <2>1
<1>8. PICK c \in PersonType : c = [a EXCEPT !.must = no] /\ c.who = 1
  <2>1. PICK c \in PersonType : c = [a EXCEPT !.must = no]
    BY DEF PersonType
  <2>2. c.who = 1
    BY <1>6, <2>1 DEF PersonType
  <2>3. QED
    BY <2>1, <2>2
<1>9. [Row(1, "MASTER", CHOOSE q \in Chosen : Acceptable(q)) EXCEPT !.must = FALSE] = c
  <2>1. [Row(1, "MASTER", pw) EXCEPT !.must = FALSE] = c
    BY <1>3, <1>6, <1>8, Zenon
  <2>2. QED
    BY <1>2, <2>1, Zenon
<1>10. 1 \in Numbers /\ 2 \in Numbers /\ Numbers \subseteq Nat
  BY AccountsAssumption DEF Numbers
<1> DEFINE first  == [Row(1, "MASTER", CHOOSE pw2 \in Chosen : Acceptable(pw2)) EXCEPT !.must = FALSE]
           second == Row(2, role, Drawn)
<1>11. /\ account = [n \in Numbers |-> CASE n = 1 -> first [] n = 2 -> second [] n \notin 1..2 -> NoRow]
       /\ first = c /\ second = b
  BY <1>1, <1>7, <1>9
<1> HIDE DEF first, second
<1>a. first = c /\ second = b /\ c.who = 1 /\ b.who = 2 /\ c \in RowType /\ b \in RowType
  <2>1. c \in RowType /\ b \in RowType
    BY DEF RowType
  <2>2. c.who = 1 /\ b.who = 2
    BY <1>7, <1>8
  <2>3. QED
    BY <1>11, <2>1, <2>2
<1>12. NoRow.who = 0
  BY DEF NoRow
<1>13. /\ account \in [Numbers -> RowType] /\ account[1] = c /\ account[2] = b
       /\ \A n \in Numbers : account[n].who <= 2
  <2>1. \A n \in Numbers : account[n] \in RowType /\ account[n].who <= 2
    <3> SUFFICES ASSUME NEW n \in Numbers PROVE account[n] \in RowType /\ account[n].who <= 2
      OBVIOUS
    <3>1. CASE n = 1
      <4>1. account[n] = first
        BY <1>11, <3>1
      <4>2. QED
        BY <1>a, <4>1
    <3>2. CASE n = 2
      <4>1. account[n] = second
        BY <1>11, <3>2
      <4>2. QED
        BY <1>a, <4>1
    <3>3. CASE n # 1 /\ n # 2
      <4>1. n \notin 1..2
        BY <1>10, <3>3
      <4>2. QED
        BY <1>11, <1>12, <3>3, <4>1 DEF RowType
    <3>4. QED
      BY <3>1, <3>2, <3>3
  <2>2. account[1] = c /\ account[2] = b
    BY <1>10, <1>11
  <2>3. account \in [Numbers -> RowType]
    <3>1. account = [n \in Numbers |-> account[n]]
      BY <1>11
    <3>2. QED
      BY <2>1, <3>1
  <2>4. QED
    BY <2>1, <2>2, <2>3
<1>14. tokens \subseteq TokenType
  BY <1>1, <1>10 DEF TokenType, Roles
<1>15. \A t \in tokens : t.who <= 2 /\ account[t.n].who = t.who
  <2>1. tokens = { [n |-> 1, who |-> 1, role |-> "MASTER"], [n |-> 2, who |-> 2, role |-> role] }
    BY <1>1
  <2>2. \A t \in tokens : (t.n = 1 /\ t.who = 1) \/ (t.n = 2 /\ t.who = 2)
    BY <2>1
  <2>3. QED
    BY <1>a, <1>13, <2>2
<1>16. QED
  BY <1>13, <1>14, <1>15

LEMMA InitGivesBoardInv ==
  ASSUME BoardInit
  PROVE  BoardInv
<1>1. /\ fails = [n \in Numbers |-> 0] /\ ttl = [n \in Numbers |-> FALSE] /\ tried = fails
      /\ req = [r \in Requests |-> NoAsk] /\ hired = 2
      /\ asks = 0 /\ outages = 0 /\ refused = {} /\ retired = {}
      /\ post = [p \in Posts |-> NoPost] /\ moved = {}
  BY DEF BoardInit, AccountsInit
<1>2. NoAsk.do = "rest" /\ NoAsk.pc = "rest"
  BY DEF NoAsk
<1>3. /\ account \in [Numbers -> RowType] /\ tokens \subseteq TokenType
      /\ \A t \in tokens : t.who <= 2 /\ account[t.n].who = t.who
      /\ \A n \in Numbers : account[n].who <= 2
  BY FirstPeople DEF BoardInit
<1>4. AccountsShape
  BY <1>1, <1>3, AccountsAssumption DEF AccountsShape
<1>5. RequestsShape
  BY <1>1, RestIsKnown DEF RequestsShape
<1>6. ThrottleInv
  <2> SUFFICES ASSUME NEW CONSTANT n \in Numbers PROVE ThrottleAt(n)
    BY DEF ThrottleInv
  <2>1. \A steps : Attempts(req, n, steps) = {}
    BY <1>1, <1>2 DEF Attempts
  <2>2. \A steps : Cardinality(Attempts(req, n, steps)) = 0
    BY <2>1, FS_EmptySet
  <2>3. fails[n] = 0 /\ tried[n] = 0 /\ ~ttl[n]
    BY <1>1
  <2>4. MaxAttempts \in Nat \ {0} /\ Cardinality(Requests) \in Nat
    BY AccountsAssumption, FS_CardinalityType
  <2>5. QED
    BY <1>1, <2>2, <2>3, <2>4 DEF ThrottleAt
<1>7. NumbersInv
  <2>1. Hiring(req) = {} /\ \A r \in Requests : ~At(r, "login", "clear")
    BY <1>1, <1>2 DEF Hiring, At
  <2>2. Cardinality(Hiring(req)) = 0
    BY <2>1, FS_EmptySet
  <2>3. \A n \in Numbers : \A who \in Nat : Claims(n, who) => Stands(n, who)
    BY <1>3, <2>1 DEF Claims, Stands
  <2>4. QED
    BY <1>1, <1>3, <2>1, <2>2, <2>3 DEF NumbersInv
<1>8. PostsInv
  <2>1. NoPost \in PostType /\ NoPost.category = "NONE" /\ NoPost.comments = {}
    BY DEF NoPost, PostType
  <2>2. PostsShape
    BY <1>1, <2>1 DEF PostsShape, There, PostKinds
  <2>3. PostsArePlanned
    BY <1>1, <1>2 DEF PostsArePlanned
  <2>4. NoticeByAdmin /\ CommentsAreAdmitted
    BY <1>1, <2>1 DEF NoticeByAdmin, CommentsAreAdmitted
  <2>5. QED
    BY <2>2, <2>3, <2>4 DEF PostsInv
<1>9. QED
  BY <1>4, <1>5, <1>6, <1>7, <1>8 DEF BoardInv, AccountsInv

-----------------------------------------------------------------------------
(* What follows                                                             *)

(* Accounts, requests, throttle, numbers and posts are related at all times *)
(* as BoardInv says.                                                        *)
THEOREM BoardInvariant == BoardSpec => []BoardInv
<1>1. BoardInit => BoardInv
  BY InitGivesBoardInv
<1>2. BoardInv /\ [BoardNext]_boardVars => BoardInv'
  BY BoardNextKeeps
<1>3. QED
  BY <1>1, <1>2, PTL DEF BoardSpec

LEMMA BoardInvIsTyped ==
  ASSUME BoardInv
  PROVE  BoardTypeOK
<1>1. AccountsShape /\ ThrottleInv /\ NumbersInv /\ PostsShape
  BY DEF BoardInv, AccountsInv, PostsInv
<1>2. AccountsTypeOK
  <2>1. ASSUME NEW CONSTANT n \in Numbers
        PROVE  /\ account[n] = NoRow \/ (account[n].role \in Roles /\ account[n].status \in {"ACTIVE", "INACTIVE"})
               /\ fails[n] \in 0..MaxAsks /\ ttl[n] \in BOOLEAN /\ (ttl[n] => fails[n] > 0)
    <3>1. account[n] = NoRow \/ (account[n].role \in Roles /\ account[n].status \in {"ACTIVE", "INACTIVE"})
      BY <1>1 DEF AccountsShape, RowType, PersonType
    <3>2. Cardinality(Attempts(req, n, {"wait", "verify", "count"})) \in Nat
      BY SomeRequests DEF Attempts
    <3>3. fails[n] \in 0..MaxAsks
      BY <1>1, <3>2, AccountsAssumption DEF AccountsShape, ThrottleInv, ThrottleAt
    <3>4. ttl[n] \in BOOLEAN /\ (ttl[n] => fails[n] > 0)
      BY <1>1 DEF AccountsShape, ThrottleInv, ThrottleAt
    <3>5. QED
      BY <3>1, <3>3, <3>4
  <2>2. hired \in 2..(MaxAsks + 2)
    <3>1. Cardinality(Hiring(req)) \in Nat
      BY SomeRequests DEF Hiring
    <3>2. QED
      BY <1>1, <3>1, AccountsAssumption DEF AccountsShape, NumbersInv
  <2>3. \A t \in tokens : t.n \in Numbers /\ t.role \in Roles
    BY <1>1 DEF AccountsShape, TokenType
  <2>4. {refused, retired} \subseteq SUBSET Numbers
    BY <1>1 DEF AccountsShape
  <2>5. QED
    BY <2>1, <2>2, <2>3, <2>4 DEF AccountsTypeOK
<1>3. ASSUME NEW p \in Posts
      PROVE  /\ post[p] \in {NoPost, GonePost} \/ (There(p) /\ post[p].author \in 1..hired)
             /\ \A c \in post[p].comments : c.author \in 1..hired
  <2>1. post[p] \in {NoPost, GonePost} \/ (There(p) /\ post[p].author \in 1..hired)
    BY <1>1 DEF PostsShape
  <2>2. ASSUME NEW c \in post[p].comments PROVE c.author \in 1..hired
    <3>1. c \in CommentType /\ c.author <= hired /\ hired \in Nat
      BY <1>1 DEF PostsShape, PostType, AccountsShape
    <3>2. QED
      BY <3>1 DEF CommentType
  <2>3. QED
    BY <2>1, <2>2
<1>4. QED
  BY <1>1, <1>2, <1>3 DEF BoardTypeOK, PostsShape

(* Nobody acts for another or beyond the role he had when asking: logins    *)
(* are throttled, tokens name their holders, rights are read fresh, and     *)
(* notices and comments come from those who may write them.                 *)
THEOREM RightsAreHeld == BoardSpec => []RightsHold
<1>1. BoardInv => RightsHold
  <2> SUFFICES ASSUME BoardInv PROVE RightsHold
    OBVIOUS
  <2>1. AccountsShape /\ RequestsShape /\ ThrottleInv /\ NumbersInv /\ NoticeByAdmin /\ CommentsAreAdmitted
    BY DEF BoardInv, AccountsInv, PostsInv
  <2>2. GuessesAreBounded
    <3> SUFFICES ASSUME NEW CONSTANT n \in Numbers
                 PROVE  tried[n] <= MaxAttempts - 1 + Cardinality(Requests) + outages
      BY DEF GuessesAreBounded
    <3>1. Cardinality(Attempts(req, n, {"verify"})) \in Nat
      BY SomeRequests DEF Attempts
    <3>2. /\ tried[n] + Cardinality(Attempts(req, n, {"verify"})) <= MaxAttempts - 1 + Cardinality(Requests) + outages
          /\ tried[n] \in Nat /\ outages \in Nat
      BY <2>1 DEF ThrottleInv, ThrottleAt, AccountsShape
    <3>3. MaxAttempts \in Nat /\ Cardinality(Requests) \in Nat
      BY AccountsAssumption, FS_CardinalityType
    <3>4. QED
      BY <3>1, <3>2, <3>3
  <2>3. TokenNamesItsHolder
    <3> SUFFICES ASSUME NEW t \in tokens, t.n \notin retired
                 PROVE  account[t.n] = NoRow \/ account[t.n].who = t.who
      BY DEF TokenNamesItsHolder
    <3>1. t.n \in Numbers /\ t.who \in Nat /\ Claims(t.n, t.who)
      BY <2>1 DEF AccountsShape, TokenType, Claims
    <3>2. Stands(t.n, t.who)
      BY <2>1, <3>1 DEF NumbersInv
    <3>3. QED
      BY <3>2 DEF Stands
  <2>4. RightsAreFresh
    BY <2>1 DEF RightsAreFresh, RequestsShape, Knows, AdminAsks
  <2>5. QED
    BY <2>1, <2>2, <2>3, <2>4, BoardInvIsTyped DEF RightsHold
<1>2. QED
  BY <1>1, BoardInvariant, PTL

(* What becomes of the password of somebody who stays.                      *)
LEMMA PasswordsGiveWay ==
  ASSUME BoardInv, AccountsNext, NEW n \in InUse,
         account'[n].who = account[n].who, ~account[n].must, account'[n].pw # account[n].pw
  PROVE  \E r \in Requests : /\ At(r, "password", "write") /\ req[r].n = n
                             /\ req[r].knew \/ req[r].self # account[n]
<1>1. n \in Numbers /\ account[n] # NoRow /\ account \in [Numbers -> RowType] /\ account[n] \in PersonType
  BY DEF InUse, BoardInv, AccountsInv, AccountsShape, RowType
<1>2. account' # account
  OBVIOUS
<1>3. PICK r \in Requests : SetStatus(r) \/ SetRole(r) \/ Delete(r) \/ Issue(r) \/ Create(r) \/ SetPassword(r)
  <2>1. \A m \in Numbers : ~Expire(m)
    BY <1>2 DEF Expire
  <2>2. \A r \in Requests : ~(Refuse(r) \/ Verify(r) \/ Count(r) \/ SetExpiry(r) \/ Clear(r) \/ RedisFails(r) \/ Crash(r))
    BY <1>2 DEF Refuse, Verify, Count, SetExpiry, Clear, RedisFails, Crash
  <2>3. \A r, m, guess : ~CheckThrottle(r, m, guess)
    BY <1>2 DEF CheckThrottle, Login
  <2>4. \A r, t, m, x, y : ~(AskPassword(r, t, x, y) \/ AskIssue(r, t, x) \/ AskRole(r, t, m, x) \/ AskCreate(r, t, m, x)
                             \/ AskStatus(r, t, m, x) \/ AskDelete(r, t, m))
    BY <1>2 DEF AskPassword, AskIssue, AskRole, AskCreate, AskStatus, AskDelete, Quiet
  <2>5. QED
    BY <2>1, <2>2, <2>3, <2>4 DEF AccountsNext
<1>4. PICK m : m = req[r].n
  OBVIOUS
<1>5. ~SetStatus(r)
  <2> SUFFICES ASSUME SetStatus(r) PROVE FALSE
    OBVIOUS
  <2>1. account' = [account EXCEPT ![m].status = req[r].arg]
    BY <1>2, <1>4 DEF SetStatus
  <2>2. account'[n].pw = account[n].pw
    BY <1>1, <2>1 DEF PersonType
  <2>3. QED
    BY <2>2
<1>6. ~SetRole(r)
  <2> SUFFICES ASSUME SetRole(r) PROVE FALSE
    OBVIOUS
  <2>1. account' = [account EXCEPT ![m].role = req[r].arg]
    BY <1>2, <1>4 DEF SetRole
  <2>2. account'[n].pw = account[n].pw
    BY <1>1, <2>1 DEF PersonType
  <2>3. QED
    BY <2>2
<1>7. ~Delete(r)
  <2> SUFFICES ASSUME Delete(r) PROVE FALSE
    OBVIOUS
  <2>1. account' = [account EXCEPT ![m] = NoRow]
    BY <1>2, <1>4 DEF Delete
  <2>2. account'[n] = account[n] \/ account'[n] = NoRow
    BY <1>1, <2>1
  <2>3. account[n].who # 0 /\ NoRow.who = 0
    BY <1>1 DEF PersonType, NoRow
  <2>4. QED
    BY <2>2, <2>3
<1>8. ~(Issue(r) \/ Create(r))
  <2> SUFFICES ASSUME Issue(r) \/ Create(r) PROVE FALSE
    OBVIOUS
  <2>1. PICK pw : Insert(r, pw)
    BY DEF Issue, Create
  <2>2. account[m] = NoRow /\ account' = [account EXCEPT ![m] = Row(hired + 1, req[r].arg, pw)]
    BY <1>2, <1>4, <2>1 DEF Insert
  <2>3. account'[n] = account[n]
    BY <1>1, <2>2
  <2>4. QED
    BY <2>3
<1>9. SetPassword(r)
  BY <1>3, <1>5, <1>6, <1>7, <1>8
<1>10. req[r].do = "password" /\ At(r, "password", "write")
  BY <1>9 DEF SetPassword, At
<1>11. m = n
  <2>1. account' = [account EXCEPT ![m].pw = req[r].pw, ![m].must = @ /\ ~req[r].saw.must]
    BY <1>2, <1>4, <1>9 DEF SetPassword
  <2>2. m # n => account'[n] = account[n]
    BY <1>1, <2>1
  <2>3. QED
    BY <2>2
<1>12. req[r].knew \/ req[r].self.must
  BY <1>10 DEF BoardInv, AccountsInv, RequestsShape, Knows
<1>13. QED
  BY <1>4, <1>10, <1>11, <1>12

(* A chosen password gives way only to a request that repeated it, or that  *)
(* had read the row before it last changed.                                 *)
THEOREM ChosenPasswordsStand == BoardSpec => ChosenStands
<1> DEFINE Kept == \A n \in InUse :
             account'[n].who = account[n].who /\ ~account[n].must /\ account'[n].pw # account[n].pw =>
               \E r \in Requests : /\ At(r, "password", "write") /\ req[r].n = n
                                   /\ req[r].knew \/ req[r].self # account[n]
<1>1. BoardInv /\ [BoardNext]_boardVars => [Kept]_accountVars
  <2> SUFFICES ASSUME BoardInv, [BoardNext]_boardVars PROVE Kept
    OBVIOUS
  <2>1. CASE AccountsNext
    BY <2>1, PasswordsGiveWay
  <2>2. CASE ~AccountsNext
    <3>1. account' = account
      <4>1. CASE UNCHANGED boardVars
        BY <4>1 DEF boardVars, accountVars
      <4>2. CASE BoardNext
        BY <2>2, <4>2 DEF BoardNext, CreatePost, UpdatePost, RemovePost, CreateComment, BoardAsk, Same
      <4>3. QED
        BY <4>1, <4>2
    <3>2. QED
      BY <3>1
  <2>3. QED
    BY <2>1, <2>2
<1> HIDE DEF Kept
<1>2. BoardSpec => [][Kept]_accountVars
  BY <1>1, BoardInvariant, PTL DEF BoardSpec
<1>3. QED
  BY <1>2 DEF Kept, ChosenStands

=============================================================================
