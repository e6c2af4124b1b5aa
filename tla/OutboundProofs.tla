--------------------------- MODULE OutboundProofs ---------------------------
(* Proofs about Outbound: the sums of a slip, types, the inductive          *)
(* invariant, and the safety properties that follow from it.                *)
EXTENDS Outbound, FiniteSetTheorems, WellFoundedInduction, TLAPS

-----------------------------------------------------------------------------
(* Sums over the lines of a slip *)

(* Sets of naturals have a smallest element: what induction rests on.       *)
LEMMA SmallerIsWellFounded == IsWellFoundedOn({ p \in Nat \X Nat : p[1] < p[2] }, Nat)
BY NatLessThanWellFounded DEF OpToRel

LEMMA LeastExists ==
  ASSUME NEW S, S \subseteq Nat, S # {}
  PROVE  \E j \in S : \A i \in S : j <= i
<1> DEFINE Less == { p \in Nat \X Nat : p[1] < p[2] }
<1>1. PICK j \in S : \A i \in S : << i, j >> \notin Less
  <2>1. IsWellFoundedOn(Less, Nat)
    BY SmallerIsWellFounded
  <2> HIDE DEF Less
  <2>2. QED
    BY <2>1, WFMin
<1>2. \A i \in S : j <= i
  <2> TAKE i \in S
  <2>1. i \in Nat /\ j \in Nat /\ << i, j >> \notin Less
    BY <1>1
  <2>2. QED
    BY <2>1
<1>3. QED
  BY <1>2

First(s) == CHOOSE x \in s : TRUE
Rest(s)  == s \ {First(s)}

(* The recursion by which a sum of f over a set is computed.                *)
Summed(g, f, s) == IF s = {} THEN 0 ELSE f[First(s)] + g[Rest(s)]
IsSum(g, f, S)  == g = [s \in SUBSET S |-> Summed(g, f, s)]
SumOf(f, S) == (CHOOSE g : IsSum(g, f, S))[S]

LEMMA RestIsSmaller ==
  ASSUME NEW S, IsFiniteSet(S), NEW s \in SUBSET S, s # {}
  PROVE  /\ First(s) \in s /\ Rest(s) \in SUBSET S
         /\ Cardinality(s) \in Nat /\ Cardinality(Rest(s)) = Cardinality(s) - 1
<1>1. First(s) \in s
  BY DEF First
<1>2. IsFiniteSet(s)
  BY FS_Subset
<1>3. QED
  BY <1>1, <1>2, FS_CardinalityType, FS_RemoveElement DEF Rest

(* That recursion is well founded. *)
LEMMA SumExists ==
  ASSUME NEW S, IsFiniteSet(S), NEW f
  PROVE  \E g : IsSum(g, f, S)
<1> DEFINE Below(n) == { s \in SUBSET S : Cardinality(s) < n }
           Solves(g, n) == g = [s \in Below(n) |-> Summed(g, f, s)]
           Unsolved == { n \in Nat : ~ \E g : Solves(g, n) }
<1>0. \A s \in SUBSET S : Cardinality(s) \in Nat
  BY FS_Subset, FS_CardinalityType
<1>1. ASSUME Unsolved # {} PROVE FALSE
  <2>1. PICK n \in Unsolved : \A i \in Unsolved : n <= i
    BY <1>1, LeastExists
  <2>2. CASE n = 0
    <3>1. Below(0) = {}
      BY <1>0
    <3>2. [s \in {} |-> Summed(<< >>, f, s)] = << >>
      OBVIOUS
    <3>3. Solves(<< >>, 0)
      BY <3>1, <3>2
    <3>4. QED
      BY <2>1, <2>2, <3>3
  <2>3. CASE n # 0
    <3>1. n - 1 \in Nat /\ n - 1 \notin Unsolved
      <4>1. n \in Nat /\ ~(n <= n - 1)
        BY <2>1
      <4> HIDE DEF Unsolved
      <4>2. n - 1 \notin Unsolved
        BY <2>1, <4>1
      <4> QED
        BY <2>3, <4>1, <4>2
    <3>2. PICK g : Solves(g, n - 1)
      BY <3>1
    <3> DEFINE h == [s \in Below(n) |-> Summed(g, f, s)]
    <3>3. ASSUME NEW s \in Below(n) PROVE Summed(h, f, s) = Summed(g, f, s)
      <4>1. CASE s # {}
        <5>1. Rest(s) \in Below(n - 1) /\ Rest(s) \in Below(n)
          BY <1>0, <3>1, <4>1, RestIsSmaller
        <5>2. h[Rest(s)] = Summed(g, f, Rest(s)) /\ g[Rest(s)] = Summed(g, f, Rest(s))
          BY <3>2, <5>1
        <5>3. QED
          BY <5>2 DEF Summed
      <4>2. QED
        BY <4>1 DEF Summed
    <3>4. Solves(h, n)
      <4> HIDE DEF Below
      <4>1. [s \in Below(n) |-> Summed(h, f, s)] = h
        BY <3>3
      <4> QED
        BY <4>1
    <3>5. QED
      BY <2>1, <3>4
  <2>4. QED
    BY <2>2, <2>3
<1>2. Cardinality(S) + 1 \in Nat /\ Below(Cardinality(S) + 1) = SUBSET S
  <2>1. Cardinality(S) \in Nat /\ \A s \in SUBSET S : Cardinality(s) <= Cardinality(S)
    BY FS_CardinalityType, FS_Subset
  <2>2. QED
    BY <1>0, <2>1
<1>3. PICK g : Solves(g, Cardinality(S) + 1)
  BY <1>1, <1>2
<1>4. QED
  BY <1>2, <1>3 DEF IsSum

LEMMA SumSolves ==
  ASSUME NEW S, IsFiniteSet(S), NEW f
  PROVE  \E g : IsSum(g, f, S) /\ SumOf(f, S) = g[S]
BY SumExists DEF SumOf

(* Naturals add up to a natural.                                            *)
LEMMA SumIsNatural ==
  ASSUME NEW S, IsFiniteSet(S), NEW f, \A x \in S : f[x] \in Nat, NEW g, IsSum(g, f, S)
  PROVE  \A s \in SUBSET S : g[s] \in Nat
<1> DEFINE Bad == { n \in Nat : \E s \in SUBSET S : Cardinality(s) = n /\ g[s] \notin Nat }
<1>1. \A s \in SUBSET S : g[s] = Summed(g, f, s)
  BY DEF IsSum
<1>2. ASSUME Bad # {} PROVE FALSE
  <2>1. PICK n \in Bad : \A i \in Bad : n <= i
    BY <1>2, LeastExists
  <2>2. PICK s \in SUBSET S : Cardinality(s) = n /\ g[s] \notin Nat
    BY <2>1
  <2>3. s # {}
    BY <1>1, <2>2 DEF Summed
  <2>4. /\ Rest(s) \in SUBSET S /\ First(s) \in S
        /\ n \in Nat /\ n - 1 \in Nat /\ Cardinality(Rest(s)) = n - 1
    BY <2>2, <2>3, RestIsSmaller, FS_Subset, FS_CardinalityType
  <2>5. g[Rest(s)] \in Nat
    <3>1. n - 1 \notin Bad
      <4> HIDE DEF Bad
      <4> QED
        BY <2>1, <2>4
    <3> QED
      BY <2>4, <3>1
  <2>6. g[s] = f[First(s)] + g[Rest(s)]
    BY <1>1, <2>3 DEF Summed
  <2>7. QED
    BY <2>2, <2>4, <2>5, <2>6
<1>3. \A s \in SUBSET S : Cardinality(s) \in Nat
  BY FS_Subset, FS_CardinalityType
<1>4. QED
  BY <1>2, <1>3

(* Two sums differ by what one of their terms differs by.                   *)
LEMMA SumsDiffer ==
  ASSUME NEW S, IsFiniteSet(S), NEW f, NEW h, NEW l, NEW d \in Nat,
         \A x \in S : f[x] \in Nat /\ h[x] = IF x = l THEN f[x] + d ELSE f[x],
         NEW g, IsSum(g, f, S), NEW k, IsSum(k, h, S)
  PROVE  \A s \in SUBSET S : k[s] = IF l \in s THEN g[s] + d ELSE g[s]
<1> DEFINE Right(s) == k[s] = IF l \in s THEN g[s] + d ELSE g[s]
           Bad == { n \in Nat : \E s \in SUBSET S : Cardinality(s) = n /\ ~Right(s) }
<1>1. \A s \in SUBSET S : g[s] = Summed(g, f, s) /\ k[s] = Summed(k, h, s)
  BY DEF IsSum
<1>2. ASSUME Bad # {} PROVE FALSE
  <2>1. PICK n \in Bad : \A i \in Bad : n <= i
    BY <1>2, LeastExists
  <2>2. PICK s \in SUBSET S : Cardinality(s) = n /\ ~Right(s)
    BY <2>1
  <2>3. s # {}
    BY <1>1, <2>2 DEF Summed
  <2>4. /\ Rest(s) \in SUBSET S /\ First(s) \in s
        /\ n \in Nat /\ n - 1 \in Nat /\ Cardinality(Rest(s)) = n - 1
    BY <2>2, <2>3, RestIsSmaller, FS_Subset, FS_CardinalityType
  <2>5. Right(Rest(s))
    <3>1. n - 1 \notin Bad
      <4> HIDE DEF Bad
      <4> QED
        BY <2>1, <2>4
    <3> QED
      BY <2>4, <3>1
  <2>6. g[s] = f[First(s)] + g[Rest(s)] /\ k[s] = h[First(s)] + k[Rest(s)]
    BY <1>1, <2>3 DEF Summed
  <2>7. g[Rest(s)] \in Nat /\ f[First(s)] \in Nat
    BY <2>4, SumIsNatural
  <2>8. h[First(s)] = IF First(s) = l THEN f[First(s)] + d ELSE f[First(s)]
    BY <2>4
  <2>9. CASE First(s) = l
    BY <2>2, <2>4, <2>5, <2>6, <2>7, <2>8, <2>9 DEF Rest
  <2>10. CASE First(s) # l
    BY <2>2, <2>4, <2>5, <2>6, <2>7, <2>8, <2>10 DEF Rest
  <2>11. QED
    BY <2>9, <2>10
<1>3. \A s \in SUBSET S : Cardinality(s) \in Nat
  BY FS_Subset, FS_CardinalityType
<1>4. QED
  BY <1>2, <1>3

(* What the sums of the model compute.                                      *)
LEMMA SumIsUnique ==
  ASSUME NEW S, IsFiniteSet(S), NEW f, \A x \in S : f[x] \in Nat, NEW g, IsSum(g, f, S)
  PROVE  SumOf(f, S) = g[S]
<1>1. PICK k : IsSum(k, f, S) /\ SumOf(f, S) = k[S]
  BY SumSolves
<1>2. S \in SUBSET S /\ \A x \in S : f[x] = IF x = S THEN f[x] + 0 ELSE f[x]
  OBVIOUS
<1>3. g[S] \in Nat /\ k[S] \in Nat
  BY <1>1, <1>2, SumIsNatural
<1>4. k[S] = IF S \in S THEN g[S] + 0 ELSE g[S]
  BY <1>1, <1>2, SumsDiffer
<1>5. QED
  BY <1>1, <1>3, <1>4

LEMMA SumType ==
  ASSUME NEW S, IsFiniteSet(S), NEW f, \A x \in S : f[x] \in Nat
  PROVE  SumOf(f, S) \in Nat
<1>1. PICK g : IsSum(g, f, S) /\ SumOf(f, S) = g[S]
  BY SumSolves
<1>2. QED
  BY <1>1, SumIsNatural

LEMMA SumGrows ==
  ASSUME NEW S, IsFiniteSet(S), NEW f, NEW h, NEW l \in S, NEW d \in Nat,
         \A x \in S : f[x] \in Nat /\ h[x] = IF x = l THEN f[x] + d ELSE f[x]
  PROVE  SumOf(h, S) = SumOf(f, S) + d
<1>1. PICK g : IsSum(g, f, S) /\ SumOf(f, S) = g[S]
  BY SumSolves
<1>2. PICK k : IsSum(k, h, S) /\ SumOf(h, S) = k[S]
  BY SumSolves
<1>3. k[S] = IF l \in S THEN g[S] + d ELSE g[S]
  BY <1>1, <1>2, SumsDiffer
<1>4. QED
  BY <1>1, <1>2, <1>3

LEMMA SumIsPositive ==
  ASSUME NEW S, IsFiniteSet(S), S # {}, NEW f, \A x \in S : f[x] \in Nat \ {0}
  PROVE  SumOf(f, S) > 0
<1>1. PICK g : IsSum(g, f, S) /\ SumOf(f, S) = g[S]
  BY SumSolves
<1>2. g[S] = f[First(S)] + g[Rest(S)]
  BY <1>1 DEF IsSum, Summed
<1>3. First(S) \in S /\ g[Rest(S)] \in Nat
  BY <1>1, RestIsSmaller, SumIsNatural
<1>4. QED
  BY <1>1, <1>2, <1>3

Quantities(S) == [l \in S |-> l.qty]

LEMMA QuantitySum ==
  ASSUME NEW S, IsFiniteSet(S), \A l \in S : l.qty \in Nat
  PROVE  MapThenSumSet(LAMBDA l : l.qty, S) = SumOf(Quantities(S), S)
<1> DEFINE f == Quantities(S)
           Solves(g) == g = [s \in SUBSET S |-> IF s = {} THEN 0 ELSE First(s).qty + g[s \ {First(s)}]]
<1>1. MapThenSumSet(LAMBDA l : l.qty, S) = (CHOOSE g : Solves(g))[S]
  BY DEF MapThenSumSet, MapThenFoldSet, First
<1>2. ASSUME NEW g PROVE Solves(g) <=> IsSum(g, f, S)
  <2>1. \A s \in SUBSET S : (IF s = {} THEN 0 ELSE First(s).qty + g[s \ {First(s)}]) = Summed(g, f, s)
    BY RestIsSmaller DEF Quantities, Summed, Rest
  <2> DEFINE Left == [s \in SUBSET S |-> IF s = {} THEN 0 ELSE First(s).qty + g[s \ {First(s)}]]
             Right == [s \in SUBSET S |-> Summed(g, f, s)]
  <2>2. Left = Right
    BY <2>1
  <2>3. QED
    BY <2>2 DEF IsSum
<1>3. \E g : Solves(g)
  BY <1>2, SumExists
<1>4. PICK k : Solves(k) /\ (CHOOSE g : Solves(g)) = k
  BY <1>3
<1>5. IsSum(k, f, S)
  <2> HIDE DEF Solves
  <2> QED
    BY <1>2, <1>4
<1>6. \A x \in S : f[x] \in Nat
  BY DEF Quantities
<1>7. SumOf(f, S) = k[S]
  BY <1>5, <1>6, SumIsUnique
<1>8. QED
  BY <1>1, <1>4, <1>7

LEMMA LineFacts ==
  ASSUME NEW ls, IsLines(ls)
  PROVE  /\ IsFiniteSet(DOMAIN ls)
         /\ \A l \in DOMAIN ls : l.qty \in Nat \ {0} /\ ls[l] \in SlipLine
<1>1. PICK o \in Orders : DOMAIN ls \subseteq Basket[o]
  BY DEF IsLines
<1>2. IsFiniteSet(Basket[o]) /\ Basket[o] \in SUBSET Lines
  BY OutboundAssumption
<1>3. QED
  BY <1>1, <1>2, FS_Subset DEF IsLines, Lines

LEMMA QuantityType ==
  ASSUME NEW r, IsLines(r.lines)
  PROVE  NewQty(r) \in Nat /\ Total(r) \in Nat
<1>1. \A S \in SUBSET DOMAIN r.lines : MapThenSumSet(LAMBDA l : l.qty, S) \in Nat
  <2> TAKE S \in SUBSET DOMAIN r.lines
  <2>1. IsFiniteSet(S) /\ \A l \in S : l.qty \in Nat
    BY LineFacts, FS_Subset
  <2>2. \A l \in S : Quantities(S)[l] \in Nat
    BY <2>1 DEF Quantities
  <2>3. QED
    BY <2>1, <2>2, QuantitySum, SumType
<1>2. QED
  BY <1>1 DEF NewQty, Total

LEMMA UsedType == ASSUME NEW r, IsLines(r.lines) PROVE Used(r) \subseteq Items
BY LineFacts DEF Used, SlipLine

-----------------------------------------------------------------------------
(* Types *)

RequestIs(r) == r = Idle \/ IsIssuing(r) \/ IsServing(r) \/ IsReceiving(r)
SlipsOK == DOMAIN slip = Slips /\ \A s \in Slips : IsSlip(slip[s])
RequestsOK == DOMAIN req = Clerks /\ \A c \in Clerks : RequestIs(req[c])
ColumnsOK == order \in [Orders -> OrderStatus] /\ item \in [Items -> ItemStatus]
             /\ stock \in Nat /\ ledger \in Int /\ requests \in Nat
HistoryOK == itemEvents \in [Items -> SUBSET ItemEvents] /\ raced \subseteq Slips /\ events \subseteq Events

LEMMA TypeParts == TypeOK <=> SlipsOK /\ RequestsOK /\ ColumnsOK /\ HistoryOK
BY DEF TypeOK, SlipsOK, RequestsOK, RequestIs, ColumnsOK, HistoryOK

LEMMA RequestKinds ==
  ASSUME TypeOK, NEW c \in Clerks
  PROVE  /\ req[c].op = "issue" => IsIssuing(req[c])
         /\ req[c].op \in Handlers \ {"receive"} => IsServing(req[c])
         /\ req[c].op = "receive" => IsReceiving(req[c])
BY DEF TypeOK, Idle, IsIssuing, IsServing, IsReceiving, Handlers

LEMMA RequestType ==
  ASSUME TypeOK, NEW c \in Clerks, NEW r, RequestIs(r), req' = [req EXCEPT ![c] = r]
  PROVE  RequestsOK'
BY DEF TypeOK, RequestIs, RequestsOK

LEMMA AnswerType == ASSUME TypeOK, NEW c \in Clerks, Answer(c) PROVE RequestsOK' /\ requests' \in Nat
<1>1. RequestIs(Idle) /\ req' = [req EXCEPT ![c] = Idle] /\ requests' = requests
  BY DEF RequestIs, Answer
<1>2. RequestsOK'
  BY <1>1, RequestType
<1>3. QED
  BY <1>1, <1>2 DEF TypeOK

LEMMA SlipType ==
  ASSUME TypeOK, NEW s \in Slips, NEW r, IsSlip(r), slip' = [slip EXCEPT ![s] = r]
  PROVE  SlipsOK'
BY DEF TypeOK, SlipsOK

LEMMA BlankType == \A st \in SlipStatus : IsSlip(Blank(st))
<1>1. (CHOOSE o \in Orders : TRUE) \in Orders
  BY OutboundAssumption
<1> QED
  BY <1>1 DEF Blank, IsSlip, IsLines

LEMMA TypeInit == Init => TypeOK
<1> SUFFICES ASSUME Init PROVE TypeOK
  OBVIOUS
<1>1. SlipsOK
  BY BlankType DEF Init, SlipsOK, SlipStatus
<1>2. RequestsOK
  BY DEF Init, RequestsOK, RequestIs
<1>3. ColumnsOK /\ HistoryOK
  BY OutboundAssumption DEF Init, ColumnsOK, HistoryOK, OrderStatus, ItemStatus
<1>4. QED
  BY <1>1, <1>2, <1>3, TypeParts

(* A status or another column of a slip is rewritten.                       *)
LEMMA StatusType ==
  ASSUME NEW r, IsSlip(r), NEW st \in SlipStatus
  PROVE  IsSlip([r EXCEPT !.status = st])
BY DEF IsSlip

LEMMA WaybillType ==
  ASSUME NEW r, IsSlip(r), NEW st \in SlipStatus, NEW n \in Nat
  PROVE  IsSlip([r EXCEPT !.status = st, !.waybill = n])
BY DEF IsSlip

LEMMA PickedType ==
  ASSUME NEW r, IsSlip(r), NEW l, NEW st \in SlipStatus, NEW n \in Nat, NEW m \in Nat
  PROVE  IsSlip([r EXCEPT !.lines[l].picked = m, !.picked = n, !.status = st])
<1> DEFINE line == [r.lines[l] EXCEPT !.picked = m]
           ls == [r.lines EXCEPT ![l] = line]
           new == [r EXCEPT !.lines[l].picked = m, !.picked = n, !.status = st]
<1>1. l \in DOMAIN r.lines => line \in SlipLine
  BY LineFacts DEF IsSlip, SlipLine
<1>2. IsLines(ls)
  BY <1>1 DEF IsSlip, IsLines
<1>3. new.lines = ls /\ DOMAIN new = DOMAIN r
  BY DEF IsSlip
<1>4. new.status = st /\ new.order = r.order /\ new.picked = n /\ new.waybill = r.waybill
  BY DEF IsSlip
<1>5. QED
  BY <1>2, <1>3, <1>4 DEF IsSlip

LEMMA IssuedType == Issued \in Nat
BY OutboundAssumption, FS_Subset, FS_CardinalityType DEF Issued

(* A draft gets one more line, and its request may keep LPNs.               *)
LEMMA DraftFacts ==
  ASSUME TypeOK, NEW c \in Clerks, NEW l, Issues(c, l), NEW line, NEW r, r = Draft(c, l, line)
  PROVE  /\ DOMAIN r = { "op", "order", "todo", "draft", "kept" }
         /\ r.op = "issue" /\ r.order = req[c].order /\ r.kept = req[c].kept
         /\ r.todo = req[c].todo \ {l}
         /\ r.draft = [k \in DOMAIN req[c].draft \cup {l} |-> IF k = l THEN line ELSE req[c].draft[k]]
<1>1. IsIssuing(req[c])
  BY RequestKinds DEF Issues
<1>2. QED
  BY <1>1 DEF IsIssuing, Draft

LEMMA DraftType ==
  ASSUME TypeOK, NEW c \in Clerks, NEW l, Issues(c, l), NEW line \in SlipLine
  PROVE  IsIssuing(Draft(c, l, line))
<1>1. IsIssuing(req[c]) /\ l \in req[c].todo
  BY RequestKinds DEF Issues
<1>2. DOMAIN req[c].draft \cup {l} \subseteq Basket[req[c].order]
  BY <1>1 DEF IsIssuing
<1> DEFINE ls == [k \in DOMAIN req[c].draft \cup {l} |-> IF k = l THEN line ELSE req[c].draft[k]]
<1>3. ls \in [DOMAIN ls -> SlipLine]
  BY <1>1 DEF IsIssuing, IsLines
<1>4. IsLines(ls) /\ DOMAIN ls \subseteq Basket[req[c].order]
  BY <1>1, <1>2, <1>3 DEF IsIssuing, IsLines
<1>5. PICK r : r = Draft(c, l, line)
  OBVIOUS
<1>6. /\ DOMAIN r = { "op", "order", "todo", "draft", "kept" }
      /\ r.op = "issue" /\ r.order = req[c].order /\ r.kept = req[c].kept
      /\ r.todo = req[c].todo \ {l} /\ r.draft = ls
  BY <1>5, DraftFacts
<1> HIDE DEF ls
<1>7. QED
  BY <1>1, <1>4, <1>5, <1>6 DEF IsIssuing

LEMMA DraftedType ==
  ASSUME TypeOK, NEW c \in Clerks, req[c].op = "issue"
  PROVE  Drafted(c) \subseteq Items
BY RequestKinds, UsedType DEF Drafted, IsIssuing

LEMMA KeptFacts ==
  ASSUME TypeOK, NEW c \in Clerks, NEW l, Issues(c, l), NEW line, NEW marked,
         NEW r, r = [Draft(c, l, line) EXCEPT !.kept = @ \cup marked]
  PROVE  /\ DOMAIN r = { "op", "order", "todo", "draft", "kept" }
         /\ r.op = "issue" /\ r.order = req[c].order /\ r.kept = req[c].kept \cup marked
         /\ r.todo = req[c].todo \ {l}
         /\ r.draft = [k \in DOMAIN req[c].draft \cup {l} |-> IF k = l THEN line ELSE req[c].draft[k]]
<1>1. PICK d : d = Draft(c, l, line)
  OBVIOUS
<1>2. /\ DOMAIN d = { "op", "order", "todo", "draft", "kept" }
      /\ d.op = "issue" /\ d.order = req[c].order /\ d.kept = req[c].kept /\ d.todo = req[c].todo \ {l}
      /\ d.draft = [k \in DOMAIN req[c].draft \cup {l} |-> IF k = l THEN line ELSE req[c].draft[k]]
  BY <1>1, DraftFacts
<1>3. r = [d EXCEPT !.kept = @ \cup marked]
  BY <1>1
<1>4. QED
  BY <1>2, <1>3

LEMMA ReadsType ==
  ASSUME TypeOK, NEW s \in Slips, NEW op
  PROVE  IsSeen(Reads(op, s))
<1> DEFINE on == IF op \in {"confirm", "revert", "delete"} THEN Used(slip[s]) ELSE {}
<1>1. IsSlip(slip[s]) /\ order[slip[s].order] \in OrderStatus
  BY DEF TypeOK, IsSlip
<1>2. on \subseteq Items
  BY <1>1, UsedType DEF IsSlip
<1>3. Restrict(item, on) \in [on -> ItemStatus]
  BY <1>2 DEF Restrict, TypeOK
<1>4. stock \in Nat /\ Issued \in Nat
  BY IssuedType DEF TypeOK
<1>5. QED
  BY <1>1, <1>2, <1>3, <1>4 DEF Reads, IsSeen

LEMMA BeginType ==
  ASSUME TypeOK, NEW c \in Clerks, NEW op \in DOMAIN Admits, NEW s \in Slips, Begin(c, op, s)
  PROVE  \E ls \in SUBSET DOMAIN slip[s].lines :
           /\ req' = [req EXCEPT ![c] = [op |-> op, slip |-> s, lines |-> ls, seen |-> Reads(op, s)]]
           /\ IsServing([op |-> op, slip |-> s, lines |-> ls, seen |-> Reads(op, s)])
           /\ op = "scan" => \E l \in DOMAIN slip[s].lines : ls = {l} /\ Scannable(l, slip[s].lines[l])
<1>1. op \in Handlers \ {"receive"}
  BY DEF Admits, Handlers
<1>2. PICK ls : /\ req' = [req EXCEPT ![c] = [op |-> op, slip |-> s, lines |-> ls, seen |-> Reads(op, s)]]
                /\ op # "scan" => ls = {}
                /\ op = "scan" => \E l \in DOMAIN slip[s].lines : ls = {l} /\ Scannable(l, slip[s].lines[l])
  BY DEF Begin
<1>3. ls \in SUBSET DOMAIN slip[s].lines /\ Reads(op, s).slip = slip[s]
  BY <1>2 DEF Reads
<1>4. QED
  BY <1>1, <1>2, <1>3, ReadsType DEF IsServing

LEMMA BegunRequest ==
  ASSUME TypeOK, NEW c \in Clerks, NEW op \in DOMAIN Admits, NEW s \in Slips, Begin(c, op, s)
  PROVE  req'[c].op = op /\ req'[c].slip = s /\ req'[c].seen = Reads(op, s)
<1>1. PICK ls : req' = [req EXCEPT ![c] = [op |-> op, slip |-> s, lines |-> ls, seen |-> Reads(op, s)]]
  BY BeginType
<1>2. req'[c] = [op |-> op, slip |-> s, lines |-> ls, seen |-> Reads(op, s)]
  BY <1>1 DEF TypeOK
<1>3. QED
  BY <1>2

LEMMA WrittenSlip ==
  ASSUME TypeOK, NEW c \in Clerks, NEW s \in Slips, NEW new, WriteSlip(c, s, new)
  PROVE  /\ slip[s].status # "DELETED" /\ slip' = [slip EXCEPT ![s] = new]
         /\ raced' = IF slip[s] # req[c].seen.slip THEN raced \cup {s} ELSE raced
         /\ raced' \subseteq Slips
BY DEF WriteSlip, TypeOK

LEMMA NoteType ==
  ASSUME TypeOK, NEW is, NEW e \in ItemEvents, Note(is, e)
  PROVE  itemEvents' \in [Items -> SUBSET ItemEvents]
BY DEF Note, TypeOK

LEMMA MarkedType ==
  ASSUME TypeOK, NEW is
  PROVE  Marked(is) \in [Items -> ItemStatus]
BY DEF Marked, TypeOK, ItemStatus

LEMMA WriteItemsType ==
  ASSUME TypeOK, NEW c \in Clerks, NEW is, NEW to \in ItemStatus, WriteItems(c, is, to)
  PROVE  item' \in [Items -> ItemStatus] /\ itemEvents' \in [Items -> SUBSET ItemEvents]
<1>1. item' \in [Items -> ItemStatus]
  BY DEF WriteItems, Written, TypeOK
<1>2. \A i \in Items : itemEvents[i] \subseteq ItemEvents /\ {"overlap", "reverted"} \subseteq ItemEvents
  BY DEF TypeOK, ItemEvents
<1>3. itemEvents' \in [Items -> SUBSET ItemEvents]
  BY <1>2 DEF WriteItems
<1>4. QED
  BY <1>1, <1>3

LEMMA ServedSlip ==
  ASSUME TypeOK, NEW c \in Clerks, NEW op \in Handlers \ {"receive"}, NEW s, Serves(c, op, s)
  PROVE  /\ IsServing(req[c]) /\ s \in Slips /\ IsSlip(req[c].seen.slip) /\ IsSlip(slip[s])
         /\ NewQty(req[c].seen.slip) \in Nat /\ Total(req[c].seen.slip) \in Nat
         /\ Used(req[c].seen.slip) \subseteq Items
         /\ req[c].seen.stock \in Nat /\ req[c].seen.issued \in Nat
<1>1. IsServing(req[c])
  BY RequestKinds DEF Serves
<1>2. IsSlip(req[c].seen.slip) /\ s \in Slips
  BY <1>1 DEF IsServing, IsSeen, Serves
<1>3. QED
  BY <1>1, <1>2, QuantityType, UsedType DEF TypeOK, IsServing, IsSeen, IsSlip

(* The new copies that are left are counted from what was read.             *)
LEMMA StockType ==
  ASSUME TypeOK, NEW c \in Clerks, NEW n \in Nat, WriteStock(c, n)
  PROVE  stock' \in Nat
BY DEF WriteStock, Written, TypeOK

LEMMA DeductedType ==
  \A n, m \in Nat : Deducted(n, m) \in Nat /\ n - Deducted(n, m) \in Nat
BY DEF Deducted

(* One more copy of a line, and of the slip, is picked.                     *)
LEMMA ScanFacts ==
  ASSUME TypeOK, NEW c \in Clerks, NEW s \in Slips, Scan(c, s)
  PROVE  \E l \in req[c].lines, st \in SlipStatus :
           LET seen == req[c].seen.slip IN
           /\ st = Written(seen.status,
                           IF seen.picked + 1 >= Total(seen) THEN "PICKED" ELSE "IN_PROGRESS", slip[s].status)
           /\ WriteSlip(c, s, [slip[s] EXCEPT !.lines[l].picked = seen.lines[l].picked + 1,
                                              !.picked = seen.picked + 1, !.status = st])
<1> DEFINE seen == req[c].seen.slip
           st == Written(seen.status, IF seen.picked + 1 >= Total(seen) THEN "PICKED" ELSE "IN_PROGRESS",
                         slip[s].status)
<1>1. IsSlip(slip[s])
  BY DEF TypeOK
<1>2. st \in SlipStatus
  BY <1>1 DEF IsSlip, Written, SlipStatus, Live, Open, Picking
<1>3. PICK l \in req[c].lines :
        WriteSlip(c, s, [slip[s] EXCEPT !.lines[l].picked = seen.lines[l].picked + 1,
                                        !.picked = seen.picked + 1, !.status = st])
  BY <1>1 DEF Scan, IsSlip
<1>4. QED
  BY <1>2, <1>3

LEMMA ScanType ==
  ASSUME TypeOK, NEW c \in Clerks, NEW s \in Slips, Scan(c, s)
  PROVE  SlipsOK' /\ raced' \subseteq Slips
<1> DEFINE seen == req[c].seen.slip
<1>1. IsSlip(slip[s]) /\ IsSlip(seen) /\ IsServing(req[c])
  BY ServedSlip DEF Scan, Handlers
<1>2. PICK l \in req[c].lines, st \in SlipStatus :
        WriteSlip(c, s, [slip[s] EXCEPT !.lines[l].picked = seen.lines[l].picked + 1,
                                        !.picked = seen.picked + 1, !.status = st])
  BY ScanFacts
<1>3. seen.lines[l].picked + 1 \in Nat /\ seen.picked + 1 \in Nat
  BY <1>1, LineFacts DEF IsServing, IsSlip, SlipLine
<1>4. IsSlip([slip[s] EXCEPT !.lines[l].picked = seen.lines[l].picked + 1,
                             !.picked = seen.picked + 1, !.status = st])
  BY <1>1, <1>3, PickedType
<1>5. PICK new : WriteSlip(c, s, new) /\ IsSlip(new)
  BY <1>2, <1>4
<1>6. QED
  BY <1>5, SlipType, WrittenSlip

LEMMA TypeStep == TypeOK /\ [Next]_vars => TypeOK'
<1> SUFFICES ASSUME TypeOK, [Next]_vars PROVE TypeOK'
  OBVIOUS
<1>t. TypeOK' <=> SlipsOK' /\ RequestsOK' /\ ColumnsOK' /\ HistoryOK'
  BY TypeParts, PTL
<1>k. SlipsOK /\ RequestsOK /\ ColumnsOK /\ HistoryOK
  BY TypeParts
<1>e. {"overlap", "reverted", "recalled", "scannedOut", "stranded"} = ItemEvents
  BY DEF ItemEvents
<1>a. ASSUME NEW c \in Clerks, Arrive(c) PROVE requests' \in Nat
  BY <1>a, <1>k DEF Arrive, Count, ColumnsOK
<1>1. ASSUME NEW o \in Orders, PlaceOrder(o) PROVE TypeOK'
  <2>1. order' \in [Orders -> OrderStatus]
    BY <1>1, <1>k DEF PlaceOrder, ColumnsOK, OrderStatus
  <2>2. QED
    BY <1>1, <1>k, <1>t, <2>1 DEF PlaceOrder, history, SlipsOK, RequestsOK, ColumnsOK, HistoryOK
<1>2. ASSUME NEW c \in Clerks, NEW o \in Orders, BeginIssue(c, o) PROVE TypeOK'
  <2> DEFINE r == [op |-> "issue", order |-> o, todo |-> Basket[o], draft |-> << >>, kept |-> {}]
  <2>1. RequestIs(r)
    BY OutboundAssumption DEF RequestIs, IsIssuing, IsLines
  <2>2. RequestsOK' /\ requests' \in Nat
    BY <1>2, <1>a, <2>1, RequestType DEF BeginIssue
  <2>3. QED
    BY <1>2, <1>k, <1>t, <2>2 DEF BeginIssue, rows, history, SlipsOK, ColumnsOK, HistoryOK
<1>3. ASSUME NEW c \in Clerks, NEW l, AllocateUsed(c, l) PROVE TypeOK'
  <2>1. PICK i \in Items : req' = [req EXCEPT ![c] = Draft(c, l, [item |-> i, short |-> FALSE, picked |-> 0])]
    BY <1>3 DEF AllocateUsed, Free
  <2>2. [item |-> i, short |-> FALSE, picked |-> 0] \in SlipLine
    BY DEF SlipLine
  <2>3. RequestsOK'
    BY <1>3, <2>1, <2>2, DraftType, RequestType DEF AllocateUsed, RequestIs
  <2>4. QED
    BY <1>3, <1>k, <1>t, <2>3 DEF AllocateUsed, rows, history, SlipsOK, ColumnsOK, HistoryOK
<1>4. ASSUME NEW c \in Clerks, NEW l, AllocateNew(c, l) PROVE TypeOK'
  <2>0. Issues(c, l)
    BY <1>4 DEF AllocateNew
  <2>1. PICK line \in SlipLine, marked \in SUBSET Items :
          /\ req' = [req EXCEPT ![c] = [Draft(c, l, line) EXCEPT !.kept = @ \cup marked]]
          /\ item' = Marked(marked) /\ Note({ i \in marked : item[i] # "IN_STOCK" }, "overlap")
    <3>1. PICK short \in BOOLEAN : short <=> stock < l.qty
      OBVIOUS
    <3>2. [item |-> NoItem, short |-> short, picked |-> 0] \in SlipLine
      BY DEF SlipLine
    <3>3. Drafted(c) \ req[c].kept \in SUBSET Items
      BY <2>0, DraftedType DEF Issues
    <3>4. [item |-> NoItem, short |-> stock < l.qty, picked |-> 0] = [item |-> NoItem, short |-> short, picked |-> 0]
      BY <3>1
    <3>5. QED
      BY <1>4, <3>2, <3>3, <3>4 DEF AllocateNew
  <2> DEFINE r == [Draft(c, l, line) EXCEPT !.kept = @ \cup marked]
  <2>2. IsIssuing(r)
    <3>1. PICK d : d = Draft(c, l, line)
      OBVIOUS
    <3>2. IsIssuing(d) /\ r = [d EXCEPT !.kept = @ \cup marked]
      BY <2>0, <3>1, DraftType
    <3> HIDE DEF r
    <3>3. QED
      BY <3>2 DEF IsIssuing
  <2>3. RequestsOK'
    BY <2>1, <2>2, RequestType DEF RequestIs
  <2>4. item' \in [Items -> ItemStatus] /\ itemEvents' \in [Items -> SUBSET ItemEvents]
    BY <2>1, <1>e, MarkedType, NoteType
  <2>5. QED
    BY <1>4, <1>k, <1>t, <2>3, <2>4 DEF AllocateNew, SlipsOK, ColumnsOK, HistoryOK
<1>5. ASSUME NEW c \in Clerks, NEW s \in Slips, CommitIssue(c, s) PROVE TypeOK'
  <2>1. IsIssuing(req[c])
    BY <1>5, RequestKinds DEF CommitIssue
  <2> DEFINE r == [status |-> "PENDING", order |-> req[c].order, lines |-> req[c].draft,
                   picked |-> 0, waybill |-> 0]
  <2>2. IsSlip(r)
    BY <2>1 DEF IsIssuing, IsSlip, SlipStatus, Live, Open, Picking
  <2>3. SlipsOK'
    BY <1>5, <2>2, SlipType DEF CommitIssue
  <2>4. order' \in [Orders -> OrderStatus]
    BY <1>5, <1>k DEF CommitIssue, ColumnsOK, OrderStatus
  <2>5. item' \in [Items -> ItemStatus] /\ itemEvents' \in [Items -> SUBSET ItemEvents]
    BY <1>5, <1>e, MarkedType, NoteType DEF CommitIssue
  <2>6. RequestsOK' /\ requests' \in Nat
    BY <1>5, AnswerType DEF CommitIssue
  <2>7. QED
    BY <1>5, <1>k, <1>t, <2>3, <2>4, <2>5, <2>6 DEF CommitIssue, ColumnsOK, HistoryOK
<1>6. ASSUME NEW c \in Clerks, AbortIssue(c) PROVE TypeOK'
  <2>1. itemEvents' \in [Items -> SUBSET ItemEvents]
    BY <1>6, <1>e, NoteType DEF AbortIssue
  <2>2. RequestsOK' /\ requests' \in Nat
    BY <1>6, AnswerType DEF AbortIssue
  <2>3. QED
    BY <1>6, <1>k, <1>t, <2>1, <2>2 DEF AbortIssue, rows, SlipsOK, ColumnsOK, HistoryOK
<1>7. ASSUME NEW c \in Clerks, NEW op \in DOMAIN Admits, NEW s \in Slips, Begin(c, op, s) PROVE TypeOK'
  <2>1. RequestsOK' /\ requests' \in Nat
    BY <1>7, <1>a, BeginType, RequestType DEF Begin, RequestIs
  <2>2. QED
    BY <1>7, <1>k, <1>t, <2>1 DEF Begin, rows, history, SlipsOK, ColumnsOK, HistoryOK
<1>8. ASSUME NEW c \in Clerks, NEW s \in Slips, Vanished(c, s) PROVE TypeOK'
  <2>1. RequestsOK' /\ requests' \in Nat
    BY <1>8, AnswerType DEF Vanished
  <2>2. QED
    BY <1>8, <1>k, <1>t, <2>1 DEF Vanished, rows, history, SlipsOK, ColumnsOK, HistoryOK
<1>9. ASSUME NEW c \in Clerks, NEW s \in Slips, Accept(c, s) PROVE TypeOK'
  <2>1. WriteSlip(c, s, [slip[s] EXCEPT !.status = "ACCEPTED"]) /\ IsSlip(slip[s])
    BY <1>9, <1>k DEF Accept, SlipsOK
  <2>2. IsSlip([slip[s] EXCEPT !.status = "ACCEPTED"])
    BY <2>1, StatusType DEF SlipStatus, Live, Open, Picking
  <2>3. SlipsOK' /\ raced' \subseteq Slips
    BY <2>1, <2>2, SlipType, WrittenSlip
  <2>4. RequestsOK' /\ requests' \in Nat
    BY <1>9, AnswerType DEF Accept
  <2>5. QED
    BY <1>9, <1>k, <1>t, <2>3, <2>4 DEF Accept, ColumnsOK, HistoryOK
<1>10. ASSUME NEW c \in Clerks, NEW s \in Slips, Scan(c, s) PROVE TypeOK'
  <2>1. RequestsOK' /\ requests' \in Nat
    BY <1>10, AnswerType DEF Scan
  <2>2. SlipsOK' /\ raced' \subseteq Slips
    BY <1>10, ScanType
  <2>3. QED
    BY <1>10, <1>k, <1>t, <2>1, <2>2 DEF Scan, ColumnsOK, HistoryOK
<1>11. ASSUME NEW c \in Clerks, NEW s \in Slips, Confirm(c, s) PROVE TypeOK'
  <2>1. Serves(c, "confirm", s)
    BY <1>11 DEF Confirm
  <2>2. PICK seen, qty, deducted : seen = req[c].seen /\ qty = NewQty(seen.slip) /\ deducted = Deducted(seen.stock, qty)
    OBVIOUS
  <2>s. qty \in Nat /\ seen.stock \in Nat /\ req[c].seen.issued \in Nat /\ IsSlip(slip[s])
    BY <2>1, <2>2, ServedSlip DEF Handlers
  <2>3. seen.stock - deducted \in Nat
    BY <2>2, <2>s, DeductedType
  <2>n. NextWaybill(c) \in Nat
    BY <2>s DEF NextWaybill
  <2>4. item' \in [Items -> ItemStatus] /\ itemEvents' \in [Items -> SUBSET ItemEvents]
    BY <1>11, WriteItemsType DEF Confirm, ItemStatus
  <2>5. stock' \in Nat
    BY <1>11, <2>2, <2>3, StockType DEF Confirm
  <2>6. ledger' \in Int
    BY <1>11, <1>k, <2>2, <2>s DEF Confirm, ColumnsOK
  <2>7. IsSlip([slip[s] EXCEPT !.status = "PACKED", !.waybill = NextWaybill(c)])
    BY <2>n, <2>s, WaybillType DEF SlipStatus, Live
  <2>8. SlipsOK' /\ raced' \subseteq Slips
    BY <1>11, <2>7, SlipType, WrittenSlip DEF Confirm
  <2>9. events' \subseteq Events
    BY <1>11, <1>k DEF Confirm, StockRace, HistoryOK, Events
  <2>10. RequestsOK' /\ requests' \in Nat
    BY <1>11, AnswerType DEF Confirm
  <2>11. QED
    BY <1>11, <1>k, <1>t, <2>4, <2>5, <2>6, <2>8, <2>9, <2>10 DEF Confirm, ColumnsOK, HistoryOK
<1>12. ASSUME NEW c \in Clerks, NEW s \in Slips, Revert(c, s) PROVE TypeOK'
  <2>1. Serves(c, "revert", s)
    BY <1>12 DEF Revert
  <2>2. PICK seen, qty : seen = req[c].seen /\ qty = NewQty(seen.slip)
    OBVIOUS
  <2>3. qty \in Nat /\ seen.stock + qty \in Nat /\ IsSlip(slip[s])
    BY <2>1, <2>2, ServedSlip DEF Handlers
  <2>4. item' \in [Items -> ItemStatus] /\ itemEvents' \in [Items -> SUBSET ItemEvents]
    BY <1>12, WriteItemsType DEF Revert, ItemStatus
  <2>5. stock' \in Nat
    BY <1>12, <2>2, <2>3, StockType DEF Revert, GivenBack
  <2>6. ledger' \in Int
    BY <1>12, <1>k, <2>2, <2>3 DEF Revert, ColumnsOK
  <2>7. IsSlip([slip[s] EXCEPT !.status = "PICKED", !.waybill = 0])
    BY <2>3, WaybillType DEF SlipStatus, Live, Open
  <2>8. SlipsOK' /\ raced' \subseteq Slips
    BY <1>12, <2>7, SlipType, WrittenSlip DEF Revert
  <2>9. events' \subseteq Events
    BY <1>12, <1>k DEF Revert, StockRace, HistoryOK, Events
  <2>10. RequestsOK' /\ requests' \in Nat
    BY <1>12, AnswerType DEF Revert
  <2>11. QED
    BY <1>12, <1>k, <1>t, <2>4, <2>5, <2>6, <2>8, <2>9, <2>10 DEF Revert, ColumnsOK, HistoryOK
<1>13. ASSUME NEW c \in Clerks, NEW s \in Slips, Complete(c, s) PROVE TypeOK'
  <2>1. IsSlip(slip[s])
    BY <1>k DEF SlipsOK
  <2>2. IsSlip([slip[s] EXCEPT !.status = "SHIPPED"])
    BY <2>1, StatusType DEF SlipStatus, Live
  <2>3. SlipsOK' /\ raced' \subseteq Slips
    BY <1>13, <2>2, SlipType, WrittenSlip DEF Complete
  <2>4. order' \in [Orders -> OrderStatus]
    BY <1>13, <1>k DEF Complete, Written, ColumnsOK, OrderStatus
  <2>5. RequestsOK' /\ requests' \in Nat
    BY <1>13, AnswerType DEF Complete
  <2>6. QED
    BY <1>13, <1>k, <1>t, <2>3, <2>4, <2>5 DEF Complete, ColumnsOK, HistoryOK
<1>14. ASSUME NEW c \in Clerks, NEW s \in Slips, Delete(c, s) PROVE TypeOK'
  <2>1. RequestsOK' /\ requests' \in Nat
    BY <1>14, AnswerType DEF Delete
  <2>2. CASE UNCHANGED << order, slip, item, itemEvents, raced >>
    BY <1>14, <1>k, <1>t, <2>1, <2>2 DEF Delete, SlipsOK, ColumnsOK, HistoryOK
  <2>3. CASE ~UNCHANGED << order, slip, item, itemEvents, raced >>
    <3>1. /\ WriteItems(c, Used(req[c].seen.slip), "IN_STOCK")
          /\ slip' = [slip EXCEPT ![s] = Blank("DELETED")]
          /\ raced' = IF slip[s] # req[c].seen.slip THEN raced \cup {s} ELSE raced
          /\ \E orphan \in BOOLEAN : order' = [order EXCEPT ![req[c].seen.slip.order] =
                                                 OrderAfter(c, req[c].seen.slip.order, orphan)]
      BY <1>14, <2>3 DEF Delete, ReleaseItems
    <3>2. SlipsOK' /\ raced' \subseteq Slips
      BY <1>k, <3>1, SlipType, BlankType DEF SlipStatus, HistoryOK
    <3>3. item' \in [Items -> ItemStatus] /\ itemEvents' \in [Items -> SUBSET ItemEvents]
      BY <3>1, WriteItemsType DEF ItemStatus
    <3>4. order' \in [Orders -> OrderStatus]
      BY <1>k, <3>1 DEF OrderAfter, Written, ColumnsOK, OrderStatus
    <3>5. QED
      BY <1>14, <1>k, <1>t, <2>1, <3>2, <3>3, <3>4 DEF Delete, ColumnsOK, HistoryOK
  <2>4. QED
    BY <2>2, <2>3
<1>15. ASSUME NEW c \in Clerks, BeginReceive(c) PROVE TypeOK'
  <2>1. RequestIs([op |-> "receive", stock |-> stock])
    BY <1>k DEF RequestIs, IsReceiving, ColumnsOK
  <2>2. RequestsOK' /\ requests' \in Nat
    BY <1>15, <1>a, <2>1, RequestType DEF BeginReceive
  <2>3. QED
    BY <1>15, <1>k, <1>t, <2>2 DEF BeginReceive, rows, history, SlipsOK, ColumnsOK, HistoryOK
<1>16. ASSUME NEW c \in Clerks, CommitReceive(c) PROVE TypeOK'
  <2>1. stock' \in Nat /\ ledger' \in Int
    BY <1>16, <1>k, RequestKinds DEF CommitReceive, IsReceiving, ColumnsOK
  <2>2. events' \subseteq Events
    BY <1>16, <1>k DEF CommitReceive, HistoryOK, Events
  <2>3. RequestsOK' /\ requests' \in Nat
    BY <1>16, AnswerType DEF CommitReceive
  <2>4. QED
    BY <1>16, <1>k, <1>t, <2>1, <2>2, <2>3 DEF CommitReceive, SlipsOK, ColumnsOK, HistoryOK
<1>17. ASSUME NEW i \in Items, ScanOut(i) \/ Recall(i) PROVE TypeOK'
  <2>1. item' \in [Items -> ItemStatus] /\ requests' \in Nat
    BY <1>17, <1>k DEF ScanOut, Recall, Count, ColumnsOK, ItemStatus
  <2>2. itemEvents' \in [Items -> SUBSET ItemEvents]
    BY <1>17, <1>e, NoteType DEF ScanOut, Recall
  <2>3. QED
    BY <1>17, <1>k, <1>t, <2>1, <2>2 DEF ScanOut, Recall, SlipsOK, RequestsOK, ColumnsOK, HistoryOK
<1>18. ASSUME NEW i \in Items, Reapprove(i) PROVE TypeOK'
  <2>1. item' \in [Items -> ItemStatus]
    BY <1>18, <1>k DEF Reapprove, ColumnsOK, ItemStatus
  <2>2. QED
    BY <1>18, <1>k, <1>t, <2>1 DEF Reapprove, history, SlipsOK, RequestsOK, ColumnsOK, HistoryOK
<1>19. CASE UNCHANGED vars
  BY <1>19, <1>k, <1>t DEF vars, SlipsOK, RequestsOK, ColumnsOK, HistoryOK
<1>20. QED
  BY <1>1, <1>2, <1>3, <1>4, <1>5, <1>6, <1>7, <1>8, <1>9, <1>10, <1>11, <1>12, <1>13, <1>14,
     <1>15, <1>16, <1>17, <1>18, <1>19 DEF Next, Issue, Handle

-----------------------------------------------------------------------------
(* The inductive invariant *)

Serving(c) == req[c].op \in Handlers \ {"receive"}
Keeps(c, i) == req[c].op = "issue" /\ i \in req[c].kept

(* What a request in flight remembers: the LPNs it made its own are among   *)
(* those it drafted; the instruction it read was one its handler admits,    *)
(* and is still the same order's with the same LPNs, unless it is deleted.  *)
RequestOf(c) ==
  /\ req[c].op = "issue" =>
       /\ req[c].kept \subseteq Drafted(c)
       /\ \A l \in DOMAIN req[c].draft : req[c].draft[l].picked = 0 /\ l \notin req[c].todo
  /\ Serving(c) =>
       LET s == req[c].slip seen == req[c].seen IN
       /\ seen.slip.status \in Admits[req[c].op]
       /\ slip[s].status # "NONE"
       /\ slip[s].status # "DELETED" => slip[s].order = seen.slip.order /\ Used(slip[s]) = Used(seen.slip)
       /\ req[c].op \in {"confirm", "revert", "delete"} => DOMAIN seen.item = Used(seen.slip)
       /\ req[c].op = "scan" => \E l \in DOMAIN seen.slip.lines :
                                  req[c].lines = {l} /\ Scannable(l, seen.slip.lines[l])

RequestInv == \A c \in Clerks : RequestOf(c)

(* An allocated LPN has a holder that cannot close its instruction and leave *)
(* the LPN as it is: a request that is about to close it, but read the LPN   *)
(* in another status, is not the last word.                                  *)
Unaware(c, s, i) == /\ req[c].op \in {"confirm", "delete", "complete"} /\ req[c].slip = s
                    /\ req[c].op # "complete" => req[c].seen.item[i] # "ALLOCATED"
Secures(s, i) == /\ slip[s].status \in Open /\ i \in Used(slip[s])
                 /\ \A c \in Clerks : ~Unaware(c, s, i)

AllocInv ==
  \A i \in Items : item[i] = "ALLOCATED" /\ "stranded" \notin itemEvents[i] =>
    (\E c \in Clerks : Keeps(c, i)) \/ (\E s \in Slips : Secures(s, i))

(* An LPN to which nothing happened has one owner, the request that keeps   *)
(* it or the instruction that holds it, and none while it is on sale.       *)
OneOwner(i) ==
  /\ item[i] = "IN_STOCK" => (\A s \in Slips : ~Holds(s, i)) /\ (\A c \in Clerks : ~Keeps(c, i))
  /\ \A c \in Clerks : Keeps(c, i) => \A s \in Slips : ~Holds(s, i)
  /\ \A c, d \in Clerks : Keeps(c, i) /\ Keeps(d, i) => c = d
  /\ \A s, t \in Slips : Holds(s, i) /\ Holds(t, i) => s = t

OwnerInv ==
  \A i \in Items : /\ item[i] = "HITL_PENDING" => "recalled" \in itemEvents[i]
                   /\ itemEvents[i] = {} => OneOwner(i)

(* Waybills are numbered by the count there is, and an instruction gets one *)
(* when it is packed.                                                       *)
Untouched == events \cap {"waybill", "reverted"} = {} /\ raced = {}
WaybillInv ==
  Untouched =>
    /\ \A s \in Slips : slip[s].waybill # 0 => /\ slip[s].status \in {"PACKED", "SHIPPED"}
                                               /\ slip[s].waybill <= Issued
    /\ \A s, t \in Slips : s # t /\ slip[s].waybill # 0 => slip[s].waybill # slip[t].waybill

(* The header of an instruction counts what its lines have.                 *)
Available(r) == { l \in DOMAIN r.lines : ~r.lines[l].short }
PickedOf(r) == [l \in Available(r) |-> r.lines[l].picked]
Counted(r) ==
  /\ \A l \in Available(r) : r.lines[l].picked <= l.qty
  /\ r.picked = SumOf(PickedOf(r), Available(r))
  /\ r.status \in Picking /\ Available(r) # {} => r.picked < Total(r)
PickInv == \A s \in Slips \ raced : IsLive(s) => Counted(slip[s])

WarehouseInv ==
  /\ RequestInv /\ AllocInv /\ OwnerInv /\ WaybillInv /\ PickInv
  /\ OrderNeverFloats /\ LedgerExplainsStock

-----------------------------------------------------------------------------
(* What changes in a step *)

Write(c, s) == Accept(c, s) \/ Scan(c, s) \/ Confirm(c, s) \/ Revert(c, s) \/ Complete(c, s)
Draws(c) == \E o \in Orders : \/ BeginIssue(c, o)
                              \/ \E l \in Basket[o] : AllocateUsed(c, l) \/ AllocateNew(c, l)
Begins(c) == \E op \in DOMAIN Admits, s \in Slips : Begin(c, op, s)
Outside == \E i \in Items : ScanOut(i) \/ Recall(i) \/ Reapprove(i)

LEMMA StepKinds ==
  ASSUME [Next]_vars
  PROVE  \/ \E c \in Clerks : \/ Draws(c) \/ Begins(c) \/ BeginReceive(c) \/ CommitReceive(c) \/ AbortIssue(c)
                              \/ \E s \in Slips : CommitIssue(c, s) \/ Write(c, s) \/ Delete(c, s) \/ Vanished(c, s)
         \/ \E o \in Orders : PlaceOrder(o)
         \/ Outside \/ UNCHANGED vars
BY DEF Next, Issue, Handle, Draws, Begins, Write, Outside

LEMMA ScanWrites ==
  ASSUME TypeOK, NEW c \in Clerks, NEW s \in Slips, Scan(c, s)
  PROVE  /\ slip'[s].status \in {"PICKED", "IN_PROGRESS", slip[s].status}
         /\ slip'[s].order = slip[s].order /\ slip'[s].waybill = slip[s].waybill
         /\ slip'[s].picked = req[c].seen.slip.picked + 1
         /\ DOMAIN slip'[s].lines = DOMAIN slip[s].lines
         /\ \A k \in DOMAIN slip[s].lines : /\ slip'[s].lines[k].item = slip[s].lines[k].item
                                            /\ slip'[s].lines[k].short = slip[s].lines[k].short
<1> DEFINE seen == req[c].seen.slip
<1>1. PICK l \in req[c].lines, st \in SlipStatus :
        /\ st = Written(seen.status, IF seen.picked + 1 >= Total(seen) THEN "PICKED" ELSE "IN_PROGRESS",
                        slip[s].status)
        /\ WriteSlip(c, s, [slip[s] EXCEPT !.lines[l].picked = seen.lines[l].picked + 1,
                                           !.picked = seen.picked + 1, !.status = st])
  BY ScanFacts
<1>2. slip'[s] = [slip[s] EXCEPT !.lines[l].picked = seen.lines[l].picked + 1,
                                 !.picked = seen.picked + 1, !.status = st]
  BY <1>1 DEF WriteSlip, TypeOK
<1>3. IsSlip(slip[s]) /\ \A k \in DOMAIN slip[s].lines : slip[s].lines[k] \in SlipLine
  BY LineFacts DEF TypeOK, IsSlip
<1>4. st \in {"PICKED", "IN_PROGRESS", slip[s].status}
  BY <1>1 DEF Written
<1>5. /\ slip'[s].status = st /\ slip'[s].order = slip[s].order /\ slip'[s].waybill = slip[s].waybill
      /\ slip'[s].picked = seen.picked + 1
      /\ slip'[s].lines = [slip[s].lines EXCEPT ![l].picked = seen.lines[l].picked + 1]
  BY <1>2, <1>3 DEF IsSlip
<1>6. \A k \in DOMAIN slip[s].lines : /\ slip'[s].lines[k].item = slip[s].lines[k].item
                                       /\ slip'[s].lines[k].short = slip[s].lines[k].short
  BY <1>3, <1>5 DEF SlipLine
<1>7. DOMAIN slip'[s].lines = DOMAIN slip[s].lines
  BY <1>5
<1>8. QED
  BY <1>4, <1>5, <1>6, <1>7

(* An instruction that is rewritten stays its order's and keeps its LPNs.   *)
LEMMA WriteFacts ==
  ASSUME TypeOK, NEW c \in Clerks, NEW s \in Slips, Write(c, s)
  PROVE  /\ Serving(c) /\ req[c].slip = s /\ req' = [req EXCEPT ![c] = Idle]
         /\ slip[s].status # "DELETED" /\ \A t \in Slips \ {s} : slip'[t] = slip[t]
         /\ slip'[s].order = slip[s].order /\ Used(slip'[s]) = Used(slip[s])
         /\ slip'[s].status \in Live \cup {slip[s].status}
         /\ raced' = IF slip[s] # req[c].seen.slip THEN raced \cup {s} ELSE raced
<1>0. IsSlip(slip[s]) /\ DOMAIN slip = Slips
  BY DEF TypeOK
<1>1. PICK op \in Handlers \ {"receive", "delete"} : Serves(c, op, s) /\ Answer(c)
  BY DEF Write, Accept, Scan, Confirm, Revert, Complete, Handlers
<1>2. Serving(c) /\ req[c].slip = s /\ req' = [req EXCEPT ![c] = Idle]
  BY <1>1 DEF Serves, Serving, Answer
<1>3. PICK new : WriteSlip(c, s, new)
  BY DEF Write, Accept, Scan, Confirm, Revert, Complete
<1>4. /\ slip[s].status # "DELETED" /\ \A t \in Slips \ {s} : slip'[t] = slip[t]
      /\ raced' = IF slip[s] # req[c].seen.slip THEN raced \cup {s} ELSE raced
  BY <1>0, <1>3 DEF WriteSlip
<1>5. CASE Scan(c, s)
  <2>1. Used(slip'[s]) = Used(slip[s])
    BY <1>5, ScanWrites DEF Used
  <2>2. QED
    BY <1>2, <1>4, <1>5, <2>1, ScanWrites DEF Live, Open, Picking
<1>6. CASE ~Scan(c, s)
  <2>1. PICK st \in Live : \E n : \/ WriteSlip(c, s, [slip[s] EXCEPT !.status = st])
                                  \/ WriteSlip(c, s, [slip[s] EXCEPT !.status = st, !.waybill = n])
    BY <1>6 DEF Write, Accept, Confirm, Revert, Complete, Live, Open, Picking
  <2>2. PICK n : slip'[s] = [slip[s] EXCEPT !.status = st] \/ slip'[s] = [slip[s] EXCEPT !.status = st, !.waybill = n]
    BY <1>0, <2>1 DEF WriteSlip
  <2>3. slip'[s].status = st /\ slip'[s].order = slip[s].order /\ slip'[s].lines = slip[s].lines
    BY <1>0, <2>2 DEF IsSlip
  <2>4. QED
    BY <1>2, <1>4, <2>3 DEF Used
<1>7. QED
  BY <1>5, <1>6

LEMMA CommitIssueFacts ==
  ASSUME TypeOK, NEW c \in Clerks, NEW s \in Slips, CommitIssue(c, s)
  PROVE  /\ req[c].op = "issue" /\ req' = [req EXCEPT ![c] = Idle] /\ raced' = raced
         /\ slip[s].status = "NONE" /\ \A t \in Slips \ {s} : slip'[t] = slip[t]
         /\ slip'[s].status = "PENDING" /\ slip'[s].order = req[c].order /\ slip'[s].lines = req[c].draft
         /\ slip'[s].picked = 0 /\ slip'[s].waybill = 0
         /\ Used(slip'[s]) = Drafted(c)
<1>1. slip'[s] = [status |-> "PENDING", order |-> req[c].order, lines |-> req[c].draft,
                  picked |-> 0, waybill |-> 0]
  BY DEF CommitIssue, TypeOK
<1>2. QED
  BY <1>1 DEF CommitIssue, Answer, TypeOK, Used, Drafted

(* The LPNs go back on sale, and the order with them or it goes too, unless *)
(* another request has deleted it.                                          *)
Released(c, s) ==
  LET seen == req[c].seen
      o == seen.slip.order
      orphan == \A t \in Slips \ {s} : ~(IsLive(t) /\ slip[t].order = o)
  IN /\ WriteItems(c, Used(seen.slip), "IN_STOCK")
     /\ slip' = [slip EXCEPT ![s] = Blank("DELETED")]
     /\ raced' = IF slip[s] # seen.slip THEN raced \cup {s} ELSE raced
     /\ order' = [order EXCEPT ![o] = OrderAfter(c, o, orphan)]

LEMMA DeleteFacts ==
  ASSUME TypeOK, NEW c \in Clerks, NEW s \in Slips, Delete(c, s)
  PROVE  /\ Serving(c) /\ req[c].op = "delete" /\ req[c].slip = s /\ req' = [req EXCEPT ![c] = Idle]
         /\ UNCHANGED << stock, ledger, events >>
         /\ UNCHANGED << order, slip, item, itemEvents, raced >> \/ Released(c, s)
BY DEF Delete, Serves, Serving, Handlers, Answer, Released, ReleaseItems

LEMMA BlankFacts ==
  LET r == Blank("DELETED") IN r.status = "DELETED" /\ r.waybill = 0 /\ r.lines = << >>
BY DEF Blank

LEMMA ReleasedSlip ==
  ASSUME TypeOK, NEW c \in Clerks, NEW s \in Slips, Released(c, s)
  PROVE  slip'[s] = Blank("DELETED") /\ \A t \in Slips \ {s} : slip'[t] = slip[t]
BY DEF Released, TypeOK

(* How one instruction changes. *)
LEMMA SlipSteps ==
  ASSUME TypeOK, [Next]_vars, NEW s \in Slips
  PROVE  \/ slip'[s] = slip[s]
         \/ \E c \in Clerks : CommitIssue(c, s) \/ Write(c, s) \/ (Delete(c, s) /\ Released(c, s))
<1>1. CASE UNCHANGED slip
  BY <1>1
<1>2. ASSUME NEW c \in Clerks, NEW t \in Slips, CommitIssue(c, t) \/ Write(c, t) \/ Delete(c, t)
      PROVE  slip'[s] = slip[s] \/ CommitIssue(c, s) \/ Write(c, s) \/ (Delete(c, s) /\ Released(c, s))
  <2>1. CASE t = s
    <3>1. ASSUME Delete(c, s) PROVE slip'[s] = slip[s] \/ Released(c, s)
      BY <3>1, DeleteFacts
    <3>2. QED
      BY <1>2, <2>1, <3>1
  <2>2. CASE t # s
    <3>1. ASSUME CommitIssue(c, t) PROVE slip'[s] = slip[s]
      BY <2>2, <3>1, CommitIssueFacts
    <3>2. ASSUME Write(c, t) PROVE slip'[s] = slip[s]
      BY <2>2, <3>2, WriteFacts
    <3>3. ASSUME Delete(c, t) PROVE slip'[s] = slip[s]
      BY <2>2, <3>3, DeleteFacts, ReleasedSlip
    <3>4. QED
      BY <1>2, <3>1, <3>2, <3>3
  <2>3. QED
    BY <2>1, <2>2
<1>3. ASSUME NEW c \in Clerks, \/ Draws(c) \/ Begins(c) \/ BeginReceive(c) \/ CommitReceive(c) \/ AbortIssue(c)
                               \/ \E t \in Slips : Vanished(c, t)
      PROVE  UNCHANGED slip
  BY <1>3 DEF Draws, BeginIssue, AllocateUsed, AllocateNew, Begins, Begin, BeginReceive, CommitReceive,
              AbortIssue, Vanished, rows
<1>4. CASE Outside \/ UNCHANGED vars \/ \E o \in Orders : PlaceOrder(o)
  BY <1>4 DEF Outside, ScanOut, Recall, Reapprove, PlaceOrder, vars
<1>5. QED
  BY <1>1, <1>2, <1>3, <1>4, StepKinds

LEMMA SlipKept ==
  ASSUME TypeOK, [Next]_vars, NEW s \in Slips, slip[s].status # "NONE"
  PROVE  /\ slip'[s].status # "NONE"
         /\ slip'[s].status # "DELETED" => /\ slip[s].status # "DELETED"
                                           /\ slip'[s].order = slip[s].order /\ Used(slip'[s]) = Used(slip[s])
<1>1. CASE slip'[s] = slip[s]
  BY <1>1
<1>2. ASSUME NEW c \in Clerks, Write(c, s) PROVE slip'[s].status # "NONE" /\ slip[s].status # "DELETED"
                 /\ slip'[s].order = slip[s].order /\ Used(slip'[s]) = Used(slip[s])
  BY <1>2, WriteFacts DEF Live, Open, Picking
<1>3. ASSUME NEW c \in Clerks, Released(c, s) PROVE slip'[s].status = "DELETED"
  BY <1>3, ReleasedSlip, BlankFacts
<1>4. ASSUME NEW c \in Clerks, CommitIssue(c, s) PROVE FALSE
  BY <1>4, CommitIssueFacts
<1>5. QED
  BY <1>1, <1>2, <1>3, <1>4, SlipSteps

-----------------------------------------------------------------------------
(* What a request remembers *)

LEMMA RequestSteps ==
  ASSUME TypeOK, [Next]_vars, NEW d \in Clerks
  PROVE  \/ req'[d] = req[d] \/ req'[d] = Idle \/ req'[d] = [op |-> "receive", stock |-> stock]
         \/ Draws(d) \/ Begins(d)
<1>0. DOMAIN req = Clerks
  BY DEF TypeOK
<1>1. ASSUME NEW c \in Clerks, c # d, Draws(c) \/ Begins(c) \/ BeginReceive(c) PROVE req'[d] = req[d]
  BY <1>0, <1>1 DEF Draws, BeginIssue, AllocateUsed, AllocateNew, Begins, Begin, BeginReceive
<1>2. ASSUME NEW c \in Clerks, \/ CommitReceive(c) \/ AbortIssue(c)
                               \/ \E s \in Slips : CommitIssue(c, s) \/ Write(c, s) \/ Delete(c, s) \/ Vanished(c, s)
      PROVE  req'[d] = req[d] \/ req'[d] = Idle
  <2>1. req' = [req EXCEPT ![c] = Idle]
    BY <1>2 DEF CommitReceive, AbortIssue, CommitIssue, Write, Accept, Scan, Confirm, Revert, Complete,
                Delete, Vanished, Answer
  <2>2. QED
    BY <1>0, <2>1
<1>3. CASE Outside \/ UNCHANGED vars \/ \E o \in Orders : PlaceOrder(o)
  BY <1>3 DEF Outside, ScanOut, Recall, Reapprove, PlaceOrder, vars
<1>4. ASSUME BeginReceive(d) PROVE req'[d] = [op |-> "receive", stock |-> stock]
  BY <1>0, <1>4 DEF BeginReceive
<1>5. QED
  BY <1>1, <1>2, <1>3, <1>4, StepKinds

(* A request that drafts gets one more line, and may keep what it drafted.  *)
LEMMA DrawFacts ==
  ASSUME TypeOK, NEW c \in Clerks, NEW l, AllocateUsed(c, l) \/ AllocateNew(c, l)
  PROVE  /\ req[c].op = "issue" /\ l \in req[c].todo /\ UNCHANGED slip
         /\ req'[c].op = "issue" /\ req'[c].order = req[c].order /\ req'[c].todo = req[c].todo \ {l}
         /\ \A d \in Clerks \ {c} : req'[d] = req[d]
         /\ DOMAIN req'[c].draft = DOMAIN req[c].draft \cup {l}
         /\ \A k \in DOMAIN req[c].draft \ {l} : req'[c].draft[k] = req[c].draft[k]
         /\ req'[c].draft[l].picked = 0
         /\ \E marked \in SUBSET (Drafted(c) \ req[c].kept) :
              /\ req'[c].kept = req[c].kept \cup marked /\ item' = Marked(marked)
              /\ Note({ i \in marked : item[i] # "IN_STOCK" }, "overlap")
<1>0. DOMAIN req = Clerks /\ Issues(c, l)
  BY DEF TypeOK, AllocateUsed, AllocateNew
<1>1. ASSUME NEW line, line.picked = 0, NEW marked \in SUBSET (Drafted(c) \ req[c].kept), NEW r,
             \/ r = Draft(c, l, line) /\ marked = {}
             \/ r = [Draft(c, l, line) EXCEPT !.kept = @ \cup marked],
             req' = [req EXCEPT ![c] = r]
      PROVE  /\ req'[c].op = "issue" /\ req'[c].order = req[c].order /\ req'[c].todo = req[c].todo \ {l}
             /\ \A d \in Clerks \ {c} : req'[d] = req[d]
             /\ DOMAIN req'[c].draft = DOMAIN req[c].draft \cup {l}
             /\ \A k \in DOMAIN req[c].draft \ {l} : req'[c].draft[k] = req[c].draft[k]
             /\ req'[c].draft[l].picked = 0 /\ req'[c].kept = req[c].kept \cup marked
  <2>1. /\ r.op = "issue" /\ r.order = req[c].order /\ r.todo = req[c].todo \ {l}
        /\ r.kept = req[c].kept \cup marked
        /\ r.draft = [k \in DOMAIN req[c].draft \cup {l} |-> IF k = l THEN line ELSE req[c].draft[k]]
    <3>1. CASE r = Draft(c, l, line) /\ marked = {}
      BY <1>0, <3>1, DraftFacts
    <3>2. CASE r = [Draft(c, l, line) EXCEPT !.kept = @ \cup marked]
      BY <1>0, <3>2, KeptFacts
    <3>3. (r = Draft(c, l, line) /\ marked = {}) \/ r = [Draft(c, l, line) EXCEPT !.kept = @ \cup marked]
      BY <1>1
    <3>4. QED
      BY <3>1, <3>2, <3>3
  <2>2. req'[c] = r /\ \A d \in Clerks \ {c} : req'[d] = req[d]
    BY <1>0, <1>1
  <2>3. QED
    BY <1>1, <2>1, <2>2
<1> DEFINE Effect(line, marked, r) ==
              /\ line.picked = 0 /\ marked \in SUBSET (Drafted(c) \ req[c].kept)
              /\ \/ r = Draft(c, l, line) /\ marked = {}
                 \/ r = [Draft(c, l, line) EXCEPT !.kept = @ \cup marked]
              /\ req' = [req EXCEPT ![c] = r]
              /\ item' = Marked(marked) /\ Note({ i \in marked : item[i] # "IN_STOCK" }, "overlap")
<1>2. \E line, marked, r : Effect(line, marked, r)
  <2>1. CASE AllocateUsed(c, l)
    <3>1. PICK i \in Items : req' = [req EXCEPT ![c] = Draft(c, l, [item |-> i, short |-> FALSE, picked |-> 0])]
      BY <2>1 DEF AllocateUsed, Free
    <3>2. PICK line : line = [item |-> i, short |-> FALSE, picked |-> 0]
      OBVIOUS
    <3>3. PICK r : r = Draft(c, l, line)
      OBVIOUS
    <3>4. line.picked = 0 /\ req' = [req EXCEPT ![c] = r]
      BY <3>1, <3>2, <3>3
    <3>5. item' = Marked({}) /\ Note({ j \in {} : item[j] # "IN_STOCK" }, "overlap")
      BY <2>1 DEF AllocateUsed, rows, history, Marked, Note, TypeOK
    <3>6. Effect(line, {}, r)
      BY <3>3, <3>4, <3>5
    <3>7. QED
      BY <3>6
  <2>2. CASE AllocateNew(c, l)
    <3> DEFINE Short == stock < l.qty
               MarkedBy(commits) == IF commits THEN Drafted(c) \ req[c].kept ELSE {}
               KeptBy(commits) == [Draft(c, l, [item |-> NoItem, short |-> Short, picked |-> 0])
                                    EXCEPT !.kept = @ \cup MarkedBy(commits)]
    <3>1. PICK commits \in BOOLEAN :
            /\ req' = [req EXCEPT ![c] = KeptBy(commits)]
            /\ item' = Marked(MarkedBy(commits))
            /\ Note({ i \in MarkedBy(commits) : item[i] # "IN_STOCK" }, "overlap")
      BY <2>2 DEF AllocateNew
    <3>2. PICK line : line = [item |-> NoItem, short |-> Short, picked |-> 0]
      OBVIOUS
    <3>3. PICK marked : marked = MarkedBy(commits)
      OBVIOUS
    <3>4. line.picked = 0 /\ marked \in SUBSET (Drafted(c) \ req[c].kept)
      BY <3>2, <3>3
    <3>5. PICK r : r = [Draft(c, l, line) EXCEPT !.kept = @ \cup marked]
      OBVIOUS
    <3>6. r = KeptBy(commits)
      BY <3>2, <3>3, <3>5
    <3>7. Effect(line, marked, r)
      <4> HIDE DEF MarkedBy, KeptBy
      <4> QED
        BY <3>1, <3>3, <3>4, <3>5, <3>6
    <3>8. QED
      BY <3>7
  <2>3. QED
    BY <2>1, <2>2
<1>3. PICK line, marked, r : Effect(line, marked, r)
  BY <1>2
<1>4. UNCHANGED slip /\ req[c].op = "issue" /\ l \in req[c].todo
  BY <1>0 DEF AllocateUsed, AllocateNew, rows, Issues
<1>5. /\ req'[c].op = "issue" /\ req'[c].order = req[c].order /\ req'[c].todo = req[c].todo \ {l}
      /\ \A d \in Clerks \ {c} : req'[d] = req[d]
      /\ DOMAIN req'[c].draft = DOMAIN req[c].draft \cup {l}
      /\ \A k \in DOMAIN req[c].draft \ {l} : req'[c].draft[k] = req[c].draft[k]
      /\ req'[c].draft[l].picked = 0 /\ req'[c].kept = req[c].kept \cup marked
  BY <1>1, <1>3
<1>6. /\ marked \in SUBSET (Drafted(c) \ req[c].kept)
      /\ item' = Marked(marked) /\ Note({ i \in marked : item[i] # "IN_STOCK" }, "overlap")
  BY <1>3
<1>7. QED
  BY <1>4, <1>5, <1>6

LEMMA RequestStep == TypeOK /\ RequestInv /\ [Next]_vars => RequestInv'
<1> SUFFICES ASSUME TypeOK, RequestInv, [Next]_vars, NEW d \in Clerks PROVE RequestOf(d)'
  BY DEF RequestInv
<1>0. DOMAIN req = Clerks /\ RequestOf(d)
  BY DEF TypeOK, RequestInv
<1>1. CASE req'[d] = req[d]
  <2>1. ASSUME Serving(d) PROVE LET s == req[d].slip IN
          /\ slip'[s].status # "NONE"
          /\ slip'[s].status # "DELETED" => slip'[s].order = req[d].seen.slip.order
                                            /\ Used(slip'[s]) = Used(req[d].seen.slip)
    <3>1. req[d].slip \in Slips
      BY <2>1, RequestKinds DEF Serving, IsServing
    <3>2. QED
      BY <1>0, <2>1, <3>1, SlipKept DEF RequestOf
  <2>2. QED
    BY <1>0, <1>1, <2>1 DEF RequestOf, Serving, Drafted
<1>2. CASE req'[d] = Idle \/ req'[d] = [op |-> "receive", stock |-> stock]
  BY <1>2 DEF RequestOf, Serving, Idle, Handlers
<1>3. CASE Draws(d)
  <2>1. ASSUME NEW o \in Orders, BeginIssue(d, o) PROVE RequestOf(d)'
    <3>1. req'[d] = [op |-> "issue", order |-> o, todo |-> Basket[o], draft |-> << >>, kept |-> {}]
      BY <1>0, <2>1 DEF BeginIssue
    <3>2. QED
      BY <3>1 DEF RequestOf, Serving, Handlers
  <2>2. ASSUME NEW l, AllocateUsed(d, l) \/ AllocateNew(d, l) PROVE RequestOf(d)'
    <3>1. PICK marked \in SUBSET Drafted(d) : req'[d].kept = req[d].kept \cup marked
      BY <2>2, DrawFacts
    <3>2. \A k \in DOMAIN req[d].draft : k \in DOMAIN req'[d].draft /\ req'[d].draft[k] = req[d].draft[k]
      BY <1>0, <2>2, DrawFacts DEF RequestOf
    <3>3. Drafted(d) \subseteq Drafted(d)'
      BY <3>2 DEF Drafted, Used
    <3>4. QED
      BY <1>0, <2>2, <3>1, <3>2, <3>3, DrawFacts DEF RequestOf, Serving, Handlers
  <2>3. QED
    BY <1>3, <2>1, <2>2 DEF Draws
<1>4. CASE Begins(d)
  <2>1. PICK op \in DOMAIN Admits, s \in Slips : Begin(d, op, s)
    BY <1>4 DEF Begins
  <2>2. PICK ls \in SUBSET DOMAIN slip[s].lines :
          /\ req' = [req EXCEPT ![d] = [op |-> op, slip |-> s, lines |-> ls, seen |-> Reads(op, s)]]
          /\ IsServing([op |-> op, slip |-> s, lines |-> ls, seen |-> Reads(op, s)])
          /\ op = "scan" => \E l \in DOMAIN slip[s].lines : ls = {l} /\ Scannable(l, slip[s].lines[l])
    BY <2>1, BeginType
  <2>3. req'[d].op = op /\ req'[d].slip = s /\ req'[d].lines = ls /\ req'[d].seen = Reads(op, s)
    BY <1>0, <2>2
  <2>4. /\ slip[s].status \in Admits[op] /\ op \in Handlers \ {"receive"} /\ slip[s].status # "NONE"
        /\ UNCHANGED slip
    BY <2>1 DEF Begin, Admits, Handlers, rows, Picking, Confirmable
  <2>5. /\ Reads(op, s).slip = slip[s]
        /\ op \in {"confirm", "revert", "delete"} => DOMAIN Reads(op, s).item = Used(slip[s])
    BY DEF Reads, Restrict
  <2>6. op # "issue"
    BY <2>4 DEF Handlers
  <2>7. LET r == slip[s] IN r.status # "DELETED" => r.order = Reads(op, s).slip.order /\ Used(r) = Used(Reads(op, s).slip)
    BY <2>5
  <2>8. QED
    BY <2>2, <2>3, <2>4, <2>5, <2>6, <2>7 DEF RequestOf
<1>5. QED
  BY <1>1, <1>2, <1>3, <1>4, RequestSteps

-----------------------------------------------------------------------------
(* Orders *)

LEMMA LiveSlip == ASSUME TypeOK, NEW s \in Slips PROVE IsLive(s) <=> slip[s].status \notin {"NONE", "DELETED"}
BY DEF TypeOK, IsSlip, IsLive, SlipStatus, Live, Open, Picking

LEMMA OrderStep == TypeOK /\ RequestInv /\ OrderNeverFloats /\ [Next]_vars => OrderNeverFloats'
<1> SUFFICES ASSUME TypeOK, RequestInv, OrderNeverFloats, [Next]_vars, NEW o \in Orders, order'[o] = "PICKING"
             PROVE  \E s \in Slips : slip'[s].status \in Live /\ slip'[s].order = o
  BY DEF OrderNeverFloats, IsLive
<1>0. order \in [Orders -> OrderStatus]
  BY DEF TypeOK
<1>1. ASSUME order[o] = "PICKING" PROVE \E s \in Slips : IsLive(s) /\ slip[s].order = o
  BY <1>1 DEF OrderNeverFloats
<1>2. ASSUME NEW c \in Clerks, NEW s \in Slips, CommitIssue(c, s)
      PROVE  \E t \in Slips : slip'[t].status \in Live /\ slip'[t].order = o
  <2>1. CASE o = req[c].order
    <3>1. slip'[s].status = "PENDING" /\ slip'[s].order = req[c].order
      BY <1>2, CommitIssueFacts
    <3>2. QED
      BY <2>1, <3>1 DEF Live, Open, Picking
  <2>2. CASE o # req[c].order
    <3>1. order[o] = "PICKING"
      BY <1>0, <1>2, <2>2 DEF CommitIssue
    <3>2. PICK t \in Slips : IsLive(t) /\ slip[t].order = o
      BY <1>1, <3>1
    <3>3. slip'[t] = slip[t]
      BY <1>2, <3>2, CommitIssueFacts, LiveSlip
    <3>4. QED
      BY <3>2, <3>3 DEF IsLive
  <2>3. QED
    BY <2>1, <2>2
<1>3. ASSUME NEW c \in Clerks, NEW s \in Slips, Delete(c, s), Released(c, s)
      PROVE  \E t \in Slips : slip'[t].status \in Live /\ slip'[t].order = o
  <2> DEFINE p == req[c].seen.slip.order
  <2>1. \E t \in Slips \ {s} : IsLive(t) /\ slip[t].order = o
    <3>1. CASE o = p
      <4>1. CASE \A t \in Slips \ {s} : ~(IsLive(t) /\ slip[t].order = p)
        BY <1>0, <1>3, <3>1, <4>1 DEF Released, OrderAfter
      <4>2. QED
        BY <3>1, <4>1
    <3>2. CASE o # p
      <4>1. order[o] = "PICKING"
        BY <1>0, <1>3, <3>2 DEF Released
      <4>2. PICK t \in Slips : IsLive(t) /\ slip[t].order = o
        BY <1>1, <4>1
      <4>3. IsLive(s) => slip[s].order = p
        BY <1>3, DeleteFacts, LiveSlip DEF RequestInv, RequestOf
      <4>4. QED
        BY <3>2, <4>2, <4>3
    <3>3. QED
      BY <3>1, <3>2
  <2>2. QED
    BY <1>3, <2>1, ReleasedSlip DEF IsLive
<1>4. ASSUME ~ \E c \in Clerks, s \in Slips : CommitIssue(c, s) \/ (Delete(c, s) /\ Released(c, s))
      PROVE  order[o] = "PICKING"
  <2>1. ASSUME NEW c \in Clerks, NEW s \in Slips, Write(c, s) PROVE order[o] = "PICKING"
    BY <1>0, <2>1 DEF Write, Accept, Scan, Confirm, Revert, Complete, Written
  <2>2. ASSUME NEW c \in Clerks, NEW s \in Slips, Delete(c, s) PROVE order[o] = "PICKING"
    BY <1>4, <2>2, DeleteFacts
  <2>3. ASSUME NEW c \in Clerks, \/ Draws(c) \/ Begins(c) \/ BeginReceive(c) \/ CommitReceive(c) \/ AbortIssue(c)
                                 \/ \E s \in Slips : Vanished(c, s)
        PROVE  order[o] = "PICKING"
    BY <2>3 DEF Draws, BeginIssue, AllocateUsed, AllocateNew, Begins, Begin, BeginReceive, CommitReceive,
                AbortIssue, Vanished, rows
  <2>4. ASSUME NEW q \in Orders, PlaceOrder(q) PROVE order[o] = "PICKING"
    BY <1>0, <2>4 DEF PlaceOrder
  <2>5. CASE Outside \/ UNCHANGED vars
    BY <2>5 DEF Outside, ScanOut, Recall, Reapprove, vars
  <2>6. QED
    BY <1>4, <2>1, <2>2, <2>3, <2>4, <2>5, StepKinds
<1>5. ASSUME NEW s \in Slips, IsLive(s), slip[s].order = o,
             ~ \E c \in Clerks, t \in Slips : CommitIssue(c, t) \/ (Delete(c, t) /\ Released(c, t))
      PROVE  slip'[s].status \in Live /\ slip'[s].order = o
  <2>1. slip'[s] = slip[s] \/ \E c \in Clerks : Write(c, s)
    BY <1>5, SlipSteps
  <2>2. QED
    BY <1>5, <2>1, WriteFacts DEF IsLive
<1>6. QED
  BY <1>1, <1>2, <1>3, <1>4, <1>5

-----------------------------------------------------------------------------
(* New copies and waybills *)

(* What happened is not forgotten. *)
LEMMA HistoryGrows ==
  ASSUME TypeOK, [Next]_vars
  PROVE  events \subseteq events' /\ raced \subseteq raced'
<1>1. ASSUME NEW c \in Clerks, NEW s \in Slips, Write(c, s) PROVE events \subseteq events' /\ raced \subseteq raced'
  <2>1. raced \subseteq raced'
    BY <1>1, WriteFacts
  <2>2. events \subseteq events'
    <3>1. CASE Accept(c, s) \/ Scan(c, s) \/ Complete(c, s)
      BY <3>1 DEF Accept, Scan, Complete
    <3>2. CASE Confirm(c, s)
      BY <3>2 DEF Confirm
    <3>3. CASE Revert(c, s)
      BY <3>3 DEF Revert
    <3>4. QED
      BY <1>1, <3>1, <3>2, <3>3 DEF Write
  <2>3. QED
    BY <2>1, <2>2
<1>2. ASSUME NEW c \in Clerks, NEW s \in Slips, Delete(c, s) PROVE events \subseteq events' /\ raced \subseteq raced'
  <2>1. events' = events
    BY <1>2, DeleteFacts
  <2>2. UNCHANGED raced \/ Released(c, s)
    BY <1>2, DeleteFacts
  <2>3. raced \subseteq raced'
    BY <2>2 DEF Released
  <2>4. QED
    BY <2>1, <2>3
<1>3. ASSUME NEW c \in Clerks, \/ Draws(c) \/ Begins(c) \/ BeginReceive(c) \/ CommitReceive(c) \/ AbortIssue(c)
                               \/ \E s \in Slips : Vanished(c, s) \/ CommitIssue(c, s)
      PROVE  events \subseteq events' /\ raced \subseteq raced'
  BY <1>3 DEF Draws, BeginIssue, AllocateUsed, AllocateNew, Begins, Begin, BeginReceive, CommitReceive,
              AbortIssue, Vanished, CommitIssue, history
<1>4. CASE Outside \/ UNCHANGED vars \/ \E o \in Orders : PlaceOrder(o)
  BY <1>4 DEF Outside, ScanOut, Recall, Reapprove, PlaceOrder, vars, history
<1>5. QED
  BY <1>1, <1>2, <1>3, <1>4, StepKinds

LEMMA LedgerStep == TypeOK /\ LedgerExplainsStock /\ [Next]_vars => LedgerExplainsStock'
<1> SUFFICES ASSUME TypeOK, LedgerExplainsStock, [Next]_vars, events' \cap {"stock", "short"} = {}
             PROVE  stock' = InitialStock + ledger'
  BY DEF LedgerExplainsStock
<1>0. stock = InitialStock + ledger /\ InitialStock \in Nat /\ stock \in Nat /\ ledger \in Int
  BY HistoryGrows, OutboundAssumption DEF LedgerExplainsStock, TypeOK
<1>1. ASSUME NEW c \in Clerks, NEW s \in Slips, Confirm(c, s) PROVE stock' = InitialStock + ledger'
  <2>1. PICK seen, qty, deducted :
          seen = req[c].seen /\ qty = NewQty(seen.slip) /\ deducted = Deducted(seen.stock, qty)
    OBVIOUS
  <2>2. qty \in Nat /\ seen.stock \in Nat
    BY <1>1, <2>1, ServedSlip DEF Confirm, Handlers
  <2>3. /\ stock' = Written(seen.stock, seen.stock - deducted, stock) /\ ledger' = ledger - qty
        /\ stock = seen.stock /\ ~(deducted < qty)
    BY <1>1, <2>1 DEF Confirm, WriteStock, StockRace
  <2>4. deducted = qty
    BY <2>1, <2>2, <2>3 DEF Deducted
  <2>5. QED
    BY <1>0, <2>2, <2>3, <2>4 DEF Written
<1>2. ASSUME NEW c \in Clerks, NEW s \in Slips, Revert(c, s) PROVE stock' = InitialStock + ledger'
  <2>1. PICK seen, qty : seen = req[c].seen /\ qty = NewQty(seen.slip)
    OBVIOUS
  <2>2. qty \in Nat /\ seen.stock \in Nat
    BY <1>2, <2>1, ServedSlip DEF Revert, Handlers
  <2>3. /\ stock' = Written(seen.stock, seen.stock + qty, stock) /\ ledger' = ledger + qty
        /\ stock = seen.stock
    BY <1>2, <2>1 DEF Revert, WriteStock, StockRace, GivenBack
  <2>4. QED
    BY <1>0, <2>2, <2>3 DEF Written
<1>3. ASSUME NEW c \in Clerks, CommitReceive(c) PROVE stock' = InitialStock + ledger'
  <2>1. stock = req[c].stock
    BY <1>3 DEF CommitReceive
  <2>2. QED
    BY <1>0, <1>3, <2>1 DEF CommitReceive
<1>4. ASSUME UNCHANGED << stock, ledger >> PROVE stock' = InitialStock + ledger'
  BY <1>0, <1>4
<1>5. ASSUME NEW c \in Clerks, \/ Draws(c) \/ Begins(c) \/ BeginReceive(c) \/ AbortIssue(c)
                               \/ \E s \in Slips : \/ Vanished(c, s) \/ CommitIssue(c, s) \/ Delete(c, s)
                                                   \/ Accept(c, s) \/ Scan(c, s) \/ Complete(c, s)
      PROVE  UNCHANGED << stock, ledger >>
  BY <1>5 DEF Draws, BeginIssue, AllocateUsed, AllocateNew, Begins, Begin, BeginReceive,
              AbortIssue, Vanished, CommitIssue, Delete, Accept, Scan, Complete, rows
<1>6. CASE Outside \/ UNCHANGED vars \/ \E o \in Orders : PlaceOrder(o)
  <2>1. UNCHANGED << stock, ledger >>
    BY <1>6 DEF Outside, ScanOut, Recall, Reapprove, PlaceOrder, vars
  <2>2. QED
    BY <1>4, <2>1
<1>7. QED
  BY <1>1, <1>2, <1>3, <1>4, <1>5, <1>6, StepKinds DEF Write

(* Waybills and the instructions that may bear one stay as they are.        *)
LEMMA WaybillsKept ==
  ASSUME WaybillInv, Untouched,
         \A s \in Slips : /\ slip'[s].waybill = slip[s].waybill
                          /\ slip[s].waybill # 0 => slip'[s].status \in {slip[s].status, "SHIPPED"}
  PROVE  WaybillInv'
<1>1. Issued' = Issued
  <2>1. { s \in Slips : slip'[s].waybill # 0 } = { s \in Slips : slip[s].waybill # 0 }
    OBVIOUS
  <2>2. QED
    BY <2>1 DEF Issued
<1>2. QED
  BY <1>1 DEF WaybillInv

LEMMA WaybillStep == TypeOK /\ RequestInv /\ WaybillInv /\ [Next]_vars => WaybillInv'
<1> SUFFICES ASSUME TypeOK, RequestInv, WaybillInv, [Next]_vars, Untouched' PROVE WaybillInv'
  BY DEF WaybillInv
<1>0. Untouched /\ raced' = {} /\ "waybill" \notin events' /\ "reverted" \notin events'
  BY HistoryGrows DEF Untouched
<1>u. \A s \in Slips : slip[s].waybill # 0 => slip[s].status \in {"PACKED", "SHIPPED"} /\ slip[s].waybill <= Issued
  BY <1>0 DEF WaybillInv
<1>w. ASSUME NEW c \in Clerks, NEW s \in Slips, Write(c, s) PROVE slip[s] = req[c].seen.slip /\ slip[s].status \in Admits[req[c].op]
  <2>1. Serving(c) /\ req[c].slip = s /\ raced' = IF slip[s] # req[c].seen.slip THEN raced \cup {s} ELSE raced
    BY <1>w, WriteFacts
  <2>2. slip[s] = req[c].seen.slip
    BY <1>0, <2>1
  <2>3. QED
    BY <2>1, <2>2 DEF RequestInv, RequestOf
<1>1. ASSUME NEW c \in Clerks, NEW s \in Slips, CommitIssue(c, s) PROVE WaybillInv'
  <2>1. slip[s].waybill = 0 /\ slip'[s].waybill = 0
    BY <1>1, <1>u, CommitIssueFacts
  <2>2. QED
    BY <1>0, <1>1, <2>1, CommitIssueFacts, WaybillsKept
<1>2. ASSUME NEW c \in Clerks, NEW s \in Slips, Accept(c, s) \/ Scan(c, s) \/ Complete(c, s) PROVE WaybillInv'
  <2>1. Write(c, s) /\ \A t \in Slips \ {s} : slip'[t] = slip[t]
    BY <1>2, WriteFacts DEF Write
  <2>2. /\ slip'[s].waybill = slip[s].waybill
        /\ slip[s].waybill # 0 => slip'[s].status = "SHIPPED"
    <3>1. CASE Scan(c, s)
      <4>1. slip[s].status \in Picking
        BY <1>w, <2>1, <3>1 DEF Scan, Serves, Admits
      <4>2. slip[s].waybill = 0
        BY <1>u, <4>1 DEF Picking
      <4>3. QED
        BY <3>1, <4>2, ScanWrites
    <3>2. CASE Accept(c, s)
      <4>1. slip[s].status = "PENDING"
        BY <1>w, <2>1, <3>2 DEF Accept, Serves, Admits
      <4>2. slip'[s] = [slip[s] EXCEPT !.status = "ACCEPTED"]
        BY <3>2 DEF Accept, WriteSlip, TypeOK
      <4>3. QED
        BY <1>u, <4>1, <4>2 DEF TypeOK, IsSlip
    <3>3. CASE Complete(c, s)
      <4>1. slip'[s] = [slip[s] EXCEPT !.status = "SHIPPED"]
        BY <3>3 DEF Complete, WriteSlip, TypeOK
      <4>2. QED
        BY <4>1 DEF TypeOK, IsSlip
    <3>4. QED
      BY <1>2, <3>1, <3>2, <3>3
  <2>3. QED
    BY <1>0, <2>1, <2>2, WaybillsKept
<1>3. ASSUME NEW c \in Clerks, NEW s \in Slips, Confirm(c, s) PROVE WaybillInv'
  <2>1. Write(c, s) /\ \A t \in Slips \ {s} : slip'[t] = slip[t]
    BY <1>3, WriteFacts DEF Write
  <2>2. slip'[s].status = "PACKED" /\ slip'[s].waybill = Issued + 1
    <3>1. Issued = req[c].seen.issued
      BY <1>0, <1>3 DEF Confirm
    <3>2. slip'[s] = [slip[s] EXCEPT !.status = "PACKED", !.waybill = NextWaybill(c)]
      BY <1>3 DEF Confirm, WriteSlip, TypeOK
    <3>3. QED
      BY <3>1, <3>2 DEF NextWaybill, TypeOK, IsSlip
  <2>3. slip[s].waybill = 0
    BY <1>3, <1>u, <1>w, <2>1 DEF Confirm, Serves, Admits, Confirmable, Picking
  <2>4. Issued' = Issued + 1 /\ Issued \in Nat
    <3> DEFINE Numbered == { t \in Slips : slip[t].waybill # 0 }
    <3>1. IsFiniteSet(Numbered) /\ s \notin Numbered
      BY <2>3, OutboundAssumption, FS_Subset
    <3>2. { t \in Slips : slip'[t].waybill # 0 } = Numbered \cup {s}
      BY <2>1, <2>2, IssuedType
    <3>3. Cardinality(Numbered \cup {s}) = Cardinality(Numbered) + 1
      BY <3>1, FS_AddElement
    <3>4. QED
      BY <3>2, <3>3, IssuedType DEF Issued
  <2>5. \A t \in Slips : slip[t].waybill \in Nat
    BY DEF TypeOK, IsSlip
  <2>6. QED
    BY <1>0, <1>u, <2>1, <2>2, <2>4, <2>5 DEF WaybillInv
<1>4. ASSUME NEW c \in Clerks, NEW s \in Slips, Revert(c, s) PROVE FALSE
  BY <1>0, <1>4 DEF Revert
<1>5. ASSUME NEW c \in Clerks, NEW s \in Slips, Delete(c, s), Released(c, s) PROVE WaybillInv'
  <2>0. slip[s] = req[c].seen.slip
    BY <1>0, <1>5 DEF Released
  <2>1. slip[s].status = "PENDING"
    BY <1>5, <2>0, DeleteFacts DEF RequestInv, RequestOf, Admits
  <2>2. slip[s].waybill = 0 /\ slip'[s].waybill = 0
    BY <1>5, <1>u, <2>1, ReleasedSlip, BlankFacts
  <2>3. QED
    BY <1>0, <1>5, <2>2, ReleasedSlip, WaybillsKept
<1>6. ASSUME ~ \E c \in Clerks, s \in Slips : CommitIssue(c, s) \/ Write(c, s) \/ (Delete(c, s) /\ Released(c, s))
      PROVE  WaybillInv'
  BY <1>0, <1>6, SlipSteps, WaybillsKept
<1>7. QED
  BY <1>1, <1>2, <1>3, <1>4, <1>5, <1>6 DEF Write

-----------------------------------------------------------------------------
(* Picking *)

LEMMA SumOfZeros ==
  ASSUME NEW S, IsFiniteSet(S), NEW f, \A x \in S : f[x] = 0
  PROVE  SumOf(f, S) = 0
<1> DEFINE g == [s \in SUBSET S |-> 0]
<1>1. \A s \in SUBSET S : Summed(g, f, s) = 0
  BY RestIsSmaller DEF Summed
<1>2. IsSum(g, f, S)
  BY <1>1 DEF IsSum
<1>3. SumOf(f, S) = g[S]
  BY <1>2, SumIsUnique
<1>4. QED
  BY <1>3

(* What a slip has to pick is the sum over its available lines.             *)
LEMMA AvailableFacts ==
  ASSUME NEW r, IsLines(r.lines)
  PROVE  /\ IsFiniteSet(Available(r)) /\ Total(r) = SumOf(Quantities(Available(r)), Available(r))
         /\ \A l \in Available(r) : /\ l \in DOMAIN r.lines /\ l.qty \in Nat \ {0}
                                    /\ Quantities(Available(r))[l] = l.qty
                                    /\ r.lines[l].picked \in Nat /\ PickedOf(r)[l] = r.lines[l].picked
<1>1. IsFiniteSet(Available(r)) /\ \A l \in Available(r) : l \in DOMAIN r.lines /\ l.qty \in Nat \ {0}
  BY LineFacts, FS_Subset DEF Available
<1>2. Total(r) = SumOf(Quantities(Available(r)), Available(r))
  BY <1>1, QuantitySum DEF Total, Available
<1>3. \A l \in Available(r) : r.lines[l].picked \in Nat
  BY <1>1, LineFacts DEF SlipLine
<1>4. QED
  BY <1>1, <1>2, <1>3 DEF Quantities, PickedOf

(* When every available line is complete, the slip is.                      *)
LEMMA CountedSlip ==
  ASSUME NEW r, IsLines(r.lines), Counted(r), r.status \in Picking, Available(r) # {}
  PROVE  \E l \in Available(r) : r.lines[l].picked < l.qty
<1> DEFINE S == Available(r)
<1>1. ASSUME \A l \in S : ~(r.lines[l].picked < l.qty) PROVE FALSE
  <2>1. \A l \in S : l.qty \in Nat /\ r.lines[l].picked \in Nat /\ r.lines[l].picked = l.qty
    BY <1>1, AvailableFacts DEF Counted
  <2>2. PICK k \in S : TRUE
    OBVIOUS
  <2>3. \A l \in S : /\ Quantities(S)[l] \in Nat
                     /\ PickedOf(r)[l] = IF l = k THEN Quantities(S)[l] + 0 ELSE Quantities(S)[l]
    BY <2>1, AvailableFacts
  <2>4. SumOf(PickedOf(r), S) = SumOf(Quantities(S), S) + 0
    BY <2>3, AvailableFacts, SumGrows
  <2>5. SumOf(Quantities(S), S) \in Nat
    BY <2>3, AvailableFacts, SumType
  <2>6. QED
    BY <2>4, <2>5, AvailableFacts DEF Counted
<1>2. QED
  BY <1>1

(* A slip that is rewritten without a scan counts what it counted.          *)
LEMMA CountedKept ==
  ASSUME NEW r, NEW q, Counted(r), q.lines = r.lines, q.picked = r.picked,
         q.status \in Picking => r.status \in Picking
  PROVE  Counted(q)
BY DEF Counted, Available, PickedOf, Total

LEMMA NewSlipCounts ==
  ASSUME NEW r, IsLines(r.lines), r.picked = 0, \A l \in DOMAIN r.lines : r.lines[l].picked = 0
  PROVE  Counted(r)
<1>1. SumOf(PickedOf(r), Available(r)) = 0
  BY AvailableFacts, SumOfZeros
<1>2. ASSUME Available(r) # {} PROVE Total(r) > 0
  BY <1>2, AvailableFacts, SumIsPositive
<1>3. QED
  BY <1>1, <1>2, AvailableFacts DEF Counted

LEMMA ScannedSlipCounts ==
  ASSUME NEW r, IsLines(r.lines), r.picked \in Nat, Counted(r), NEW q, NEW k \in Available(r),
         r.lines[k].picked < k.qty,
         DOMAIN q.lines = DOMAIN r.lines, q.picked = r.picked + 1,
         \A l \in DOMAIN r.lines :
           /\ q.lines[l].short = r.lines[l].short
           /\ q.lines[l].picked = IF l = k THEN r.lines[l].picked + 1 ELSE r.lines[l].picked,
         q.status \in Picking => q.picked < Total(r)
  PROVE  Counted(q)
<1>1. Available(q) = Available(r)
  BY DEF Available
<1>2. Total(q) = Total(r)
  <2>1. { l \in DOMAIN q.lines : ~q.lines[l].short } = { l \in DOMAIN r.lines : ~r.lines[l].short }
    BY <1>1 DEF Available
  <2>2. QED
    BY <2>1 DEF Total
<1>3. \A l \in Available(r) : /\ PickedOf(r)[l] \in Nat /\ l \in DOMAIN r.lines
                              /\ PickedOf(q)[l] = IF l = k THEN PickedOf(r)[l] + 1 ELSE PickedOf(r)[l]
  BY <1>1, AvailableFacts DEF PickedOf
<1>4. SumOf(PickedOf(q), Available(q)) = SumOf(PickedOf(r), Available(r)) + 1
  BY <1>1, <1>3, AvailableFacts, SumGrows
<1>5. \A l \in Available(r) : q.lines[l].picked <= l.qty
  BY AvailableFacts DEF Counted
<1>6. QED
  BY <1>1, <1>2, <1>4, <1>5 DEF Counted

LEMMA PickStep == TypeOK /\ RequestInv /\ PickInv /\ [Next]_vars => PickInv'
<1> SUFFICES ASSUME TypeOK, RequestInv, PickInv, [Next]_vars, NEW s \in Slips, s \notin raced', IsLive(s)'
             PROVE  Counted(slip'[s])
  BY DEF PickInv
<1>0. s \notin raced /\ DOMAIN slip = Slips /\ IsSlip(slip[s])
  BY HistoryGrows DEF TypeOK
<1>1. CASE slip'[s] = slip[s]
  BY <1>0, <1>1 DEF PickInv, IsLive
<1>2. ASSUME NEW c \in Clerks, CommitIssue(c, s) PROVE Counted(slip'[s])
  <2>1. IsIssuing(req[c])
    BY <1>2, CommitIssueFacts, RequestKinds
  <2>2. \A l \in DOMAIN req[c].draft : req[c].draft[l].picked = 0
    BY <1>2, CommitIssueFacts DEF RequestInv, RequestOf
  <2>3. IsLines(slip'[s].lines) /\ slip'[s].picked = 0 /\ \A l \in DOMAIN slip'[s].lines : slip'[s].lines[l].picked = 0
    BY <1>2, <2>1, <2>2, CommitIssueFacts DEF IsIssuing
  <2>4. QED
    BY <2>3, NewSlipCounts
<1>3. ASSUME NEW c \in Clerks, Write(c, s) PROVE Counted(slip'[s])
  <2>1. slip[s] = req[c].seen.slip /\ slip[s].status \in Admits[req[c].op] /\ Serving(c)
    BY <1>0, <1>3, WriteFacts DEF RequestInv, RequestOf
  <2>2. Counted(slip[s])
    BY <1>0, <1>3, <2>1, WriteFacts, LiveSlip DEF PickInv, RequestInv, RequestOf
  <2>3. CASE Accept(c, s)
    <3>1. slip[s].status = "PENDING"
      BY <2>1, <2>3 DEF Accept, Serves, Admits
    <3>2. slip'[s] = [slip[s] EXCEPT !.status = "ACCEPTED"]
      BY <2>3 DEF Accept, WriteSlip, TypeOK
    <3>3. slip'[s].lines = slip[s].lines /\ slip'[s].picked = slip[s].picked
      BY <1>0, <3>2 DEF IsSlip
    <3>4. QED
      BY <2>2, <3>1, <3>3, CountedKept DEF Picking
  <2>4. CASE Confirm(c, s) \/ Revert(c, s) \/ Complete(c, s)
    <3>1. PICK st \in {"PACKED", "PICKED", "SHIPPED"} :
            \E n : \/ slip'[s] = [slip[s] EXCEPT !.status = st]
                  \/ slip'[s] = [slip[s] EXCEPT !.status = st, !.waybill = n]
      BY <1>0, <2>4 DEF Confirm, Revert, Complete, WriteSlip
    <3>2. slip'[s].lines = slip[s].lines /\ slip'[s].picked = slip[s].picked /\ slip'[s].status \notin Picking
      BY <1>0, <3>1 DEF IsSlip, Picking
    <3>3. QED
      BY <2>2, <3>2, CountedKept
  <2>5. CASE Scan(c, s)
    <3> DEFINE r == slip[s]
    <3>1. PICK k \in DOMAIN r.lines : req[c].lines = {k} /\ Scannable(k, r.lines[k])
      BY <2>1, <2>5 DEF Scan, Serves, RequestInv, RequestOf
    <3>2. PICK st \in SlipStatus :
            /\ st = Written(r.status, IF r.picked + 1 >= Total(r) THEN "PICKED" ELSE "IN_PROGRESS", r.status)
            /\ WriteSlip(c, s, [r EXCEPT !.lines[k].picked = r.lines[k].picked + 1,
                                         !.picked = r.picked + 1, !.status = st])
      BY <2>1, <2>5, <3>1, ScanFacts
    <3>3. slip'[s] = [r EXCEPT !.lines[k].picked = r.lines[k].picked + 1, !.picked = r.picked + 1, !.status = st]
      BY <1>0, <3>2 DEF WriteSlip
    <3>4. slip'[s].lines = [r.lines EXCEPT ![k].picked = r.lines[k].picked + 1]
          /\ slip'[s].picked = r.picked + 1 /\ slip'[s].status = st
      BY <1>0, <3>3 DEF IsSlip
    <3>5. \A l \in DOMAIN r.lines :
            /\ slip'[s].lines[l].short = r.lines[l].short
            /\ slip'[s].lines[l].picked = IF l = k THEN r.lines[l].picked + 1 ELSE r.lines[l].picked
      BY <1>0, <3>4, LineFacts DEF IsSlip, SlipLine
    <3>6. Total(r) \in Nat /\ r.picked \in Nat /\ IsLines(r.lines)
      BY <1>0, QuantityType DEF IsSlip
    <3>7. r.status \in Picking
      BY <2>1, <2>5 DEF Scan, Serves, Admits
    <3>8. st \in Picking => r.picked + 1 < Total(r)
      BY <3>2, <3>6, <3>7 DEF Written, Picking
    <3>9. k \in Available(r) /\ r.lines[k].picked < k.qty /\ DOMAIN slip'[s].lines = DOMAIN r.lines
      BY <3>1, <3>4 DEF Available, Scannable
    <3> HIDE DEF r
    <3>10. Counted(r)
      BY <2>2 DEF r
    <3>11. QED
      BY <3>4, <3>5, <3>6, <3>8, <3>9, <3>10, ScannedSlipCounts
  <2>6. QED
    BY <1>3, <2>3, <2>4, <2>5 DEF Write
<1>4. ASSUME NEW c \in Clerks, Released(c, s) PROVE FALSE
  BY <1>4, ReleasedSlip, BlankFacts DEF IsLive, Live, Open, Picking
<1>5. QED
  BY <1>1, <1>2, <1>3, <1>4, SlipSteps

-----------------------------------------------------------------------------
(* Allocated LPNs *)

LEMMA ItemEventsGrow ==
  ASSUME TypeOK, [Next]_vars, NEW i \in Items
  PROVE  itemEvents[i] \subseteq itemEvents'[i]
<1>0. itemEvents \in [Items -> SUBSET ItemEvents]
  BY DEF TypeOK
<1>1. ASSUME NEW is, NEW e, Note(is, e) PROVE itemEvents[i] \subseteq itemEvents'[i]
  BY <1>1 DEF Note
<1>2. ASSUME NEW c, NEW is, NEW to, WriteItems(c, is, to) PROVE itemEvents[i] \subseteq itemEvents'[i]
  BY <1>2 DEF WriteItems
<1>3. ASSUME NEW c \in Clerks, NEW l, AllocateUsed(c, l) \/ AllocateNew(c, l) PROVE itemEvents[i] \subseteq itemEvents'[i]
  BY <1>1, <1>3, DrawFacts
<1>4. ASSUME NEW c \in Clerks, NEW s \in Slips, CommitIssue(c, s) \/ Confirm(c, s) \/ Revert(c, s)
      PROVE  itemEvents[i] \subseteq itemEvents'[i]
  BY <1>1, <1>2, <1>4 DEF CommitIssue, Confirm, Revert
<1>5. ASSUME NEW c \in Clerks, NEW s \in Slips, Delete(c, s) PROVE itemEvents[i] \subseteq itemEvents'[i]
  BY <1>2, <1>5, DeleteFacts DEF Released
<1>6. ASSUME NEW j \in Items, ScanOut(j) \/ Recall(j) PROVE itemEvents[i] \subseteq itemEvents'[i]
  BY <1>1, <1>6 DEF ScanOut, Recall
<1>7. ASSUME UNCHANGED itemEvents PROVE itemEvents[i] \subseteq itemEvents'[i]
  BY <1>7
<1>8. ASSUME NEW c \in Clerks,
             \/ \E o \in Orders : BeginIssue(c, o)
             \/ Begins(c) \/ BeginReceive(c) \/ CommitReceive(c)
             \/ \E s \in Slips : Accept(c, s) \/ Scan(c, s) \/ Complete(c, s) \/ Vanished(c, s)
      PROVE  UNCHANGED itemEvents
  BY <1>8 DEF BeginIssue, Begins, Begin, BeginReceive, CommitReceive, Accept, Scan, Complete, Vanished, history
<1>9. ASSUME NEW c \in Clerks, AbortIssue(c) PROVE itemEvents[i] \subseteq itemEvents'[i]
  BY <1>1, <1>9 DEF AbortIssue
<1>10. CASE UNCHANGED vars \/ (\E o \in Orders : PlaceOrder(o)) \/ \E j \in Items : Reapprove(j)
  BY <1>7, <1>10 DEF PlaceOrder, Reapprove, vars, history
<1>11. QED
  BY <1>3, <1>4, <1>5, <1>6, <1>7, <1>8, <1>9, <1>10, StepKinds DEF Draws, Write, Outside

(* What WriteItems leaves is what it writes or what was there.              *)
LEMMA WrittenItem ==
  ASSUME TypeOK, NEW c, NEW is, NEW to, WriteItems(c, is, to), NEW i \in Items
  PROVE  /\ item'[i] \in {to, item[i]} /\ (i \notin is => item'[i] = item[i])
         /\ i \in is /\ req[c].seen.item[i] # to => item'[i] = to
         /\ i \in is /\ req[c].op = "revert" => "reverted" \in itemEvents'[i]
         /\ i \in is /\ slip[req[c].slip].status = "DELETED" => "overlap" \in itemEvents'[i]
BY DEF WriteItems, Written, TypeOK

(* Handlers write an LPN as shipped or as on sale. *)
LEMMA ReleasesOrShips ==
  ASSUME NEW c, NEW s, Confirm(c, s) \/ Revert(c, s) \/ Released(c, s)
  PROVE  \E is, to : to \in {"SHIPPED", "IN_STOCK"} /\ WriteItems(c, is, to)
<1>1. CASE Confirm(c, s)
  <2>1. WriteItems(c, Used(req[c].seen.slip), "SHIPPED")
    BY <1>1 DEF Confirm
  <2>2. QED
    BY <2>1
<1>2. CASE Revert(c, s)
  <2> DEFINE seen == req[c].seen
  <2>1. WriteItems(c, { i \in Used(seen.slip) : seen.item[i] = "SHIPPED" }, "IN_STOCK")
    BY <1>2 DEF Revert
  <2>2. QED
    BY <2>1
<1>3. CASE Released(c, s)
  <2>1. WriteItems(c, Used(req[c].seen.slip), "IN_STOCK")
    BY <1>3 DEF Released
  <2>2. QED
    BY <2>1
<1>4. QED
  BY <1>1, <1>2, <1>3

LEMMA MarkedItem ==
  ASSUME TypeOK, NEW marked, item' = Marked(marked), Note({ j \in marked : item[j] # "IN_STOCK" }, "overlap"),
         NEW i \in Items
  PROVE  /\ item'[i] = IF i \in marked THEN "ALLOCATED" ELSE item[i]
         /\ i \in marked /\ item[i] # "IN_STOCK" => "overlap" \in itemEvents'[i]
BY DEF Marked, Note, TypeOK

(* How the status of one LPN changes. *)
LEMMA ItemSteps ==
  ASSUME TypeOK, [Next]_vars, NEW i \in Items
  PROVE  \/ item'[i] = item[i]
         \/ \E c \in Clerks : \/ \E l : AllocateUsed(c, l) \/ AllocateNew(c, l)
                              \/ \E s \in Slips : \/ CommitIssue(c, s) \/ Confirm(c, s) \/ Revert(c, s)
                                                  \/ Delete(c, s) /\ Released(c, s)
         \/ ScanOut(i) \/ Recall(i) \/ Reapprove(i)
<1>1. ASSUME NEW c \in Clerks,
             \/ \E o \in Orders : BeginIssue(c, o)
             \/ Begins(c) \/ BeginReceive(c) \/ CommitReceive(c) \/ AbortIssue(c)
             \/ \E s \in Slips : Accept(c, s) \/ Scan(c, s) \/ Complete(c, s) \/ Vanished(c, s)
      PROVE  UNCHANGED item
  BY <1>1 DEF BeginIssue, Begins, Begin, BeginReceive, CommitReceive, AbortIssue, Accept, Scan, Complete,
              Vanished, rows
<1>2. ASSUME NEW j \in Items, j # i, ScanOut(j) \/ Recall(j) \/ Reapprove(j) PROVE item'[i] = item[i]
  BY <1>2 DEF ScanOut, Recall, Reapprove, TypeOK
<1>3. ASSUME NEW c \in Clerks, NEW s \in Slips, Delete(c, s) PROVE UNCHANGED item \/ Released(c, s)
  BY <1>3, DeleteFacts
<1>4. CASE UNCHANGED vars \/ \E o \in Orders : PlaceOrder(o)
  BY <1>4 DEF PlaceOrder, vars
<1>5. QED
  BY <1>1, <1>2, <1>3, <1>4, StepKinds DEF Draws, Write, Outside

LEMMA NewKeeper ==
  ASSUME TypeOK, [Next]_vars, NEW c \in Clerks, NEW i, Keeps(c, i)'
  PROVE  Keeps(c, i) \/ \E l : AllocateUsed(c, l) \/ AllocateNew(c, l)
<1>1. CASE req'[c] = req[c]
  BY <1>1 DEF Keeps
<1>2. req'[c] # Idle /\ req'[c] # [op |-> "receive", stock |-> stock]
  BY DEF Keeps, Idle
<1>3. ASSUME NEW o \in Orders, BeginIssue(c, o) PROVE FALSE
  BY <1>3 DEF BeginIssue, Keeps, TypeOK
<1>4. ASSUME Begins(c) PROVE FALSE
  <2>1. PICK op \in DOMAIN Admits, s \in Slips : Begin(c, op, s)
    BY <1>4 DEF Begins
  <2>2. req'[c].op = op
    BY <2>1, BegunRequest
  <2>3. QED
    BY <2>2 DEF Keeps, Admits
<1>5. QED
  BY <1>1, <1>2, <1>3, <1>4, RequestSteps DEF Draws

(* A request that keeps an LPN goes on, fails, or hands it to an instruction. *)
LEMMA KeeperGoesOn ==
  ASSUME TypeOK, [Next]_vars, NEW c \in Clerks, NEW i, Keeps(c, i)
  PROVE  Keeps(c, i)' \/ AbortIssue(c) \/ \E s \in Slips : CommitIssue(c, s)
<1>0. req[c].op = "issue" /\ DOMAIN req = Clerks
  BY DEF Keeps, TypeOK
<1>1. CASE req'[c] = req[c]
  BY <1>1 DEF Keeps
<1>2. ASSUME NEW l, AllocateUsed(c, l) \/ AllocateNew(c, l) PROVE Keeps(c, i)'
  BY <1>2, DrawFacts DEF Keeps
<1>3. ASSUME NEW o \in Orders, BeginIssue(c, o) PROVE FALSE
  BY <1>0, <1>3 DEF BeginIssue, Arrive, Idle
<1>4. ASSUME Begins(c) \/ BeginReceive(c) \/ CommitReceive(c) PROVE FALSE
  BY <1>0, <1>4 DEF Begins, Begin, BeginReceive, CommitReceive, Arrive, Idle
<1>5. ASSUME NEW s \in Slips, Write(c, s) \/ Delete(c, s) \/ Vanished(c, s) PROVE FALSE
  BY <1>0, <1>5, WriteFacts, DeleteFacts DEF Vanished, Serving, Handlers
<1>6. ASSUME NEW d \in Clerks, d # c,
             \/ Draws(d) \/ Begins(d) \/ BeginReceive(d) \/ CommitReceive(d) \/ AbortIssue(d)
             \/ \E s \in Slips : CommitIssue(d, s) \/ Write(d, s) \/ Delete(d, s) \/ Vanished(d, s)
      PROVE  req'[c] = req[c]
  <2>1. CASE Draws(d) \/ Begins(d) \/ BeginReceive(d)
    BY <1>0, <1>6, <2>1 DEF Draws, BeginIssue, AllocateUsed, AllocateNew, Begins, Begin, BeginReceive
  <2>2. CASE \/ CommitReceive(d) \/ AbortIssue(d)
             \/ \E s \in Slips : CommitIssue(d, s) \/ Write(d, s) \/ Delete(d, s) \/ Vanished(d, s)
    <3>1. req' = [req EXCEPT ![d] = Idle]
      BY <2>2, WriteFacts DEF CommitReceive, AbortIssue, CommitIssue, Delete, Vanished, Answer
    <3>2. QED
      BY <1>0, <1>6, <3>1
  <2>3. QED
    BY <1>6, <2>1, <2>2
<1>7. CASE Outside \/ UNCHANGED vars \/ \E o \in Orders : PlaceOrder(o)
  <2>1. req'[c] = req[c]
    BY <1>7 DEF Outside, ScanOut, Recall, Reapprove, PlaceOrder, vars
  <2>2. QED
    BY <1>1, <2>1
<1>8. QED
  BY <1>1, <1>2, <1>3, <1>4, <1>5, <1>6, <1>7, StepKinds DEF Draws

(* A request that closes its instruction unaware of the allocation began    *)
(* before it.                                                               *)
LEMMA NewUnaware ==
  ASSUME TypeOK, [Next]_vars, NEW d \in Clerks, NEW s \in Slips, NEW i, Unaware(d, s, i)',
         i \in Used(slip[s]), slip[s].status \in Open, item[i] = "ALLOCATED"
  PROVE  Unaware(d, s, i)
<1>1. CASE req'[d] = req[d]
  BY <1>1 DEF Unaware
<1>2. req'[d] # Idle /\ req'[d] # [op |-> "receive", stock |-> stock]
  BY DEF Unaware, Idle
<1>3. ASSUME Begins(d) PROVE FALSE
  <2>1. PICK op \in DOMAIN Admits, t \in Slips : Begin(d, op, t)
    BY <1>3 DEF Begins
  <2>2. req'[d].op = op /\ req'[d].slip = t /\ req'[d].seen = Reads(op, t)
    BY <2>1, BegunRequest
  <2>3. t = s /\ op \in {"confirm", "delete", "complete"}
    BY <2>2 DEF Unaware
  <2>4. op # "complete"
    BY <2>1, <2>3 DEF Begin, Admits, Open, Picking
  <2>5. Reads(op, s).item[i] = item[i]
    BY <2>3, <2>4 DEF Reads, Restrict
  <2>6. QED
    BY <2>2, <2>3, <2>4, <2>5 DEF Unaware
<1>4. ASSUME Draws(d) PROVE FALSE
  <2>1. req'[d].op = "issue"
    BY <1>4, DrawFacts DEF Draws, BeginIssue, TypeOK
  <2>2. QED
    BY <2>1 DEF Unaware
<1>5. QED
  BY <1>1, <1>2, <1>3, <1>4, RequestSteps

(* An instruction that secures an LPN does until the LPN changes.           *)
LEMMA SecureStep ==
  ASSUME TypeOK, RequestInv, [Next]_vars, NEW s \in Slips, NEW i \in Items, Secures(s, i),
         item[i] = "ALLOCATED", item'[i] = "ALLOCATED"
  PROVE  Secures(s, i)'
<1>0. slip[s].status \in Open /\ i \in Used(slip[s]) /\ \A c \in Clerks : ~Unaware(c, s, i)
  BY DEF Secures
<1>1. \A d \in Clerks : ~Unaware(d, s, i)'
  BY <1>0, NewUnaware
<1>2. ASSUME NEW c \in Clerks, Write(c, s) PROVE slip'[s].status \in Open /\ i \in Used(slip'[s])
  <2>1. i \in Used(slip'[s]) /\ req[c].slip = s /\ Serving(c) /\ slip[s].status # "DELETED"
    BY <1>0, <1>2, WriteFacts
  <2>2. i \in Used(req[c].seen.slip)
    BY <1>0, <2>1 DEF RequestInv, RequestOf
  <2>3. CASE Confirm(c, s)
    <3>1. req[c].op = "confirm" /\ WriteItems(c, Used(req[c].seen.slip), "SHIPPED")
      BY <2>3 DEF Confirm, Serves
    <3>2. req[c].seen.item[i] = "ALLOCATED"
      BY <1>0, <2>1, <3>1 DEF Unaware
    <3>3. QED
      BY <2>2, <3>1, <3>2, WrittenItem
  <2>4. CASE Complete(c, s)
    BY <1>0, <2>1, <2>4 DEF Unaware, Complete, Serves
  <2>5. CASE Scan(c, s)
    BY <1>0, <2>1, <2>5, ScanWrites DEF Open, Picking
  <2>6. CASE Accept(c, s) \/ Revert(c, s)
    <3>1. slip'[s].status \in {"ACCEPTED", "PICKED"}
      BY <2>6 DEF Accept, Revert, WriteSlip, TypeOK, IsSlip
    <3>2. QED
      BY <2>1, <3>1 DEF Open, Picking
  <2>7. QED
    BY <1>2, <2>3, <2>4, <2>5, <2>6 DEF Write
<1>3. ASSUME NEW c \in Clerks, Delete(c, s), Released(c, s) PROVE FALSE
  <2>1. req[c].op = "delete" /\ req[c].slip = s /\ Serving(c) /\ WriteItems(c, Used(req[c].seen.slip), "IN_STOCK")
    BY <1>3, DeleteFacts DEF Released
  <2>2. req[c].seen.item[i] = "ALLOCATED"
    BY <1>0, <2>1 DEF Unaware
  <2>3. i \in Used(req[c].seen.slip)
    BY <1>0, <2>1 DEF RequestInv, RequestOf, Open, Picking
  <2>4. QED
    BY <2>1, <2>2, <2>3, WrittenItem
<1>4. ASSUME NEW c \in Clerks, CommitIssue(c, s) PROVE FALSE
  BY <1>0, <1>4, CommitIssueFacts DEF Open, Picking
<1>5. slip'[s].status \in Open /\ i \in Used(slip'[s])
  BY <1>0, <1>2, <1>3, <1>4, SlipSteps
<1>6. QED
  BY <1>1, <1>5 DEF Secures

(* A new instruction secures what it allocated. *)
LEMMA CommitSecures ==
  ASSUME TypeOK, RequestInv, [Next]_vars, NEW c \in Clerks, NEW s \in Slips, CommitIssue(c, s),
         NEW i \in Drafted(c)
  PROVE  Secures(s, i)'
<1>1. slip'[s].status \in Open /\ i \in Used(slip'[s])
  BY CommitIssueFacts DEF Open, Picking
<1>2. ASSUME NEW d \in Clerks, Unaware(d, s, i)' PROVE FALSE
  <2>1. req'[d] = req[d] \/ req'[d] = Idle
    BY CommitIssueFacts DEF TypeOK
  <2>2. req'[d] # Idle
    BY <1>2 DEF Unaware, Idle
  <2>3. Serving(d) /\ req[d].slip = s
    BY <1>2, <2>1, <2>2 DEF Unaware, Serving, Handlers
  <2>4. QED
    BY <2>3, CommitIssueFacts DEF RequestInv, RequestOf
<1>3. QED
  BY <1>1, <1>2 DEF Secures

LEMMA AllocStep == TypeOK /\ RequestInv /\ AllocInv /\ [Next]_vars => AllocInv'
<1> SUFFICES ASSUME TypeOK, RequestInv, AllocInv, [Next]_vars, NEW i \in Items,
                    item'[i] = "ALLOCATED", "stranded" \notin itemEvents'[i]
             PROVE  (\E c \in Clerks : Keeps(c, i)') \/ (\E s \in Slips : Secures(s, i)')
  BY DEF AllocInv
<1>1. CASE item[i] = "ALLOCATED"
  <2>1. (\E c \in Clerks : Keeps(c, i)) \/ (\E s \in Slips : Secures(s, i))
    BY <1>1, ItemEventsGrow DEF AllocInv
  <2>2. ASSUME NEW s \in Slips, Secures(s, i) PROVE Secures(s, i)'
    BY <1>1, <2>2, SecureStep
  <2>3. ASSUME NEW c \in Clerks, Keeps(c, i) PROVE Keeps(c, i)' \/ \E s \in Slips : Secures(s, i)'
    <3>1. CASE Keeps(c, i)'
      BY <3>1
    <3>2. ASSUME NEW s \in Slips, CommitIssue(c, s) PROVE Secures(s, i)'
      <4>1. i \in Drafted(c)
        BY <2>3 DEF Keeps, RequestInv, RequestOf
      <4>2. QED
        BY <3>2, <4>1, CommitSecures
    <3>3. ASSUME AbortIssue(c) PROVE FALSE
      BY <2>3, <3>3 DEF AbortIssue, Note, Keeps
    <3>4. QED
      BY <2>3, <3>1, <3>2, <3>3, KeeperGoesOn
  <2>4. QED
    BY <2>1, <2>2, <2>3
<1>2. CASE item[i] # "ALLOCATED"
  <2>1. ASSUME NEW c \in Clerks, NEW l, AllocateUsed(c, l) \/ AllocateNew(c, l) PROVE Keeps(c, i)'
    <3>1. PICK marked \in SUBSET (Drafted(c) \ req[c].kept) :
            /\ req'[c].kept = req[c].kept \cup marked /\ item' = Marked(marked)
            /\ Note({ j \in marked : item[j] # "IN_STOCK" }, "overlap")
      BY <2>1, DrawFacts
    <3>2. i \in marked
      BY <1>2, <3>1, MarkedItem
    <3>3. QED
      BY <2>1, <3>1, <3>2, DrawFacts DEF Keeps
  <2>2. ASSUME NEW c \in Clerks, NEW s \in Slips, CommitIssue(c, s) PROVE Secures(s, i)'
    <3> DEFINE marked == Drafted(c) \ req[c].kept
    <3>1. item' = Marked(marked) /\ Note({ j \in marked : item[j] # "IN_STOCK" }, "overlap")
      BY <2>2 DEF CommitIssue
    <3> HIDE DEF marked
    <3>2. item'[i] = IF i \in marked THEN "ALLOCATED" ELSE item[i]
      BY <3>1, MarkedItem
    <3>3. i \in marked
      BY <1>2, <3>2
    <3>4. i \in Drafted(c)
      BY <3>3 DEF marked
    <3>5. QED
      BY <2>2, <3>4, CommitSecures
  <2>3. ASSUME NEW c \in Clerks, NEW s \in Slips, Confirm(c, s) \/ Revert(c, s) \/ (Delete(c, s) /\ Released(c, s))
        PROVE  FALSE
    BY <1>2, <2>3, ReleasesOrShips, WrittenItem
  <2>4. ASSUME ScanOut(i) \/ Recall(i) \/ Reapprove(i) PROVE FALSE
    BY <2>4 DEF ScanOut, Recall, Reapprove, TypeOK
  <2>5. QED
    BY <1>2, <2>1, <2>2, <2>3, <2>4, ItemSteps
<1>3. QED
  BY <1>1, <1>2

-----------------------------------------------------------------------------
(* The owner of an LPN *)

LEMMA NewHolder ==
  ASSUME TypeOK, RequestInv, [Next]_vars, NEW s \in Slips, NEW i, Holds(s, i)'
  PROVE  Holds(s, i) \/ \E c \in Clerks : CommitIssue(c, s)
<1>0. slip'[s].status \in Live /\ i \in Used(slip'[s])
  BY DEF Holds, IsLive
<1>1. CASE slip'[s] = slip[s]
  BY <1>0, <1>1 DEF Holds, IsLive
<1>2. ASSUME NEW c \in Clerks, Write(c, s) PROVE Holds(s, i)
  <2>1. slip[s].status \notin {"NONE", "DELETED"} /\ i \in Used(slip[s])
    BY <1>0, <1>2, WriteFacts DEF RequestInv, RequestOf
  <2>2. QED
    BY <2>1, LiveSlip DEF Holds
<1>3. ASSUME NEW c \in Clerks, Released(c, s) PROVE FALSE
  BY <1>0, <1>3, ReleasedSlip, BlankFacts DEF Live, Open, Picking
<1>4. QED
  BY <1>1, <1>2, <1>3, SlipSteps

(* Nobody becomes an owner. *)
LEMMA OwnerKept ==
  ASSUME NEW i \in Items, OneOwner(i), item'[i] # "IN_STOCK" \/ item'[i] = item[i],
         \A s \in Slips : Holds(s, i)' => Holds(s, i), \A c \in Clerks : Keeps(c, i)' => Keeps(c, i)
  PROVE  OneOwner(i)'
BY DEF OneOwner

LEMMA OwnerStep == TypeOK /\ RequestInv /\ OwnerInv /\ [Next]_vars => OwnerInv'
<1> SUFFICES ASSUME TypeOK, RequestInv, OwnerInv, [Next]_vars, NEW i \in Items
             PROVE  /\ item'[i] = "HITL_PENDING" => "recalled" \in itemEvents'[i]
                    /\ itemEvents'[i] = {} => OneOwner(i)'
  BY DEF OwnerInv
<1>0. item[i] = "HITL_PENDING" => "recalled" \in itemEvents[i] /\ "recalled" \in itemEvents'[i]
  BY ItemEventsGrow DEF OwnerInv
<1>1. ASSUME item'[i] = "HITL_PENDING" PROVE "recalled" \in itemEvents'[i]
  <2>1. CASE item[i] = "HITL_PENDING"
    BY <1>0, <2>1
  <2>2. CASE item[i] # "HITL_PENDING"
    <3>1. ASSUME NEW c \in Clerks, NEW l, AllocateUsed(c, l) \/ AllocateNew(c, l) PROVE FALSE
      <4>1. PICK marked : /\ item' = Marked(marked)
                          /\ Note({ j \in marked : item[j] # "IN_STOCK" }, "overlap")
        BY <3>1, DrawFacts
      <4>2. QED
        BY <1>1, <2>2, <4>1, MarkedItem
    <3>2. ASSUME NEW c \in Clerks, NEW s \in Slips, CommitIssue(c, s) PROVE FALSE
      <4> DEFINE marked == Drafted(c) \ req[c].kept
      <4>1. item' = Marked(marked) /\ Note({ j \in marked : item[j] # "IN_STOCK" }, "overlap")
        BY <3>2 DEF CommitIssue
      <4>2. QED
        BY <1>1, <2>2, <4>1, MarkedItem
    <3>3. ASSUME NEW c \in Clerks, NEW s \in Slips, Confirm(c, s) \/ Revert(c, s) \/ Released(c, s) PROVE FALSE
      BY <1>1, <2>2, <3>3, ReleasesOrShips, WrittenItem
    <3>4. ASSUME ScanOut(i) \/ Reapprove(i) PROVE FALSE
      BY <1>1, <3>4 DEF ScanOut, Reapprove, TypeOK
    <3>5. ASSUME Recall(i) PROVE "recalled" \in itemEvents'[i]
      BY <3>5 DEF Recall, Note
    <3>6. QED
      BY <1>1, <2>2, <3>1, <3>2, <3>3, <3>4, <3>5, ItemSteps
  <2>3. QED
    BY <2>1, <2>2
<1>2. ASSUME itemEvents'[i] = {} PROVE OneOwner(i)'
  <2>0. itemEvents[i] = {} /\ OneOwner(i)
    BY <1>2, ItemEventsGrow DEF OwnerInv
  <2>1. ASSUME NEW c \in Clerks, NEW s \in Slips, CommitIssue(c, s) PROVE OneOwner(i)'
    <3> DEFINE marked == Drafted(c) \ req[c].kept
    <3>1. item' = Marked(marked) /\ Note({ j \in marked : item[j] # "IN_STOCK" }, "overlap")
      BY <2>1 DEF CommitIssue
    <3>2. i \in marked => item[i] = "IN_STOCK" /\ item'[i] = "ALLOCATED"
      BY <1>2, <3>1, MarkedItem
    <3>3. i \notin marked => item'[i] = item[i]
      BY <3>1, MarkedItem
    <3>4. \A d \in Clerks : Keeps(d, i)' => d # c /\ Keeps(d, i)
      BY <2>1, CommitIssueFacts DEF Keeps, Idle, TypeOK
    <3>5. \A t \in Slips \ {s} : Holds(t, i)' => Holds(t, i)
      BY <2>1, CommitIssueFacts DEF Holds, IsLive
    <3>6. Holds(s, i)' => i \in Drafted(c)
      BY <2>1, CommitIssueFacts DEF Holds
    <3>7. ~Holds(s, i)
      BY <2>1, CommitIssueFacts, LiveSlip DEF Holds
    <3>8. CASE i \in req[c].kept
      <4>1. Keeps(c, i)
        BY <2>1, <3>8, CommitIssueFacts DEF Keeps
      <4>2. item[i] # "IN_STOCK" /\ (\A t \in Slips : ~Holds(t, i)) /\ \A d \in Clerks : Keeps(d, i) => d = c
        BY <2>0, <4>1 DEF OneOwner
      <4>3. QED
        BY <3>3, <3>4, <3>5, <3>8, <4>2 DEF OneOwner
    <3>9. CASE i \in marked
      <4>1. (\A t \in Slips : ~Holds(t, i)) /\ \A d \in Clerks : ~Keeps(d, i)
        BY <2>0, <3>2, <3>9 DEF OneOwner
      <4>2. QED
        BY <3>2, <3>4, <3>5, <3>9, <4>1 DEF OneOwner
    <3>10. CASE i \notin Drafted(c)
      BY <2>0, <3>3, <3>4, <3>5, <3>6, <3>10, OwnerKept
    <3>11. QED
      BY <3>8, <3>9, <3>10
  <2>h. ASSUME ~ \E c \in Clerks, s \in Slips : CommitIssue(c, s) PROVE \A s \in Slips : Holds(s, i)' => Holds(s, i)
    BY <2>h, NewHolder
  <2>2. ASSUME NEW c \in Clerks, NEW l, AllocateUsed(c, l) \/ AllocateNew(c, l) PROVE OneOwner(i)'
    <3>1. PICK marked \in SUBSET (Drafted(c) \ req[c].kept) :
            /\ req'[c].kept = req[c].kept \cup marked /\ item' = Marked(marked)
            /\ Note({ j \in marked : item[j] # "IN_STOCK" }, "overlap")
      BY <2>2, DrawFacts
    <3>2. /\ req[c].op = "issue" /\ UNCHANGED slip
          /\ \A d \in Clerks \ {c} : req'[d] = req[d]
      BY <2>2, DrawFacts
    <3>3. \A s \in Slips : Holds(s, i)' => Holds(s, i)
      BY <3>2 DEF Holds, IsLive
    <3>4. \A d \in Clerks : Keeps(d, i)' => Keeps(d, i) \/ (d = c /\ i \in marked)
      BY <3>1, <3>2 DEF Keeps
    <3>5. CASE i \in marked
      <4>1. item[i] = "IN_STOCK" /\ item'[i] = "ALLOCATED"
        BY <1>2, <3>1, <3>5, MarkedItem
      <4>2. (\A s \in Slips : ~Holds(s, i)) /\ \A d \in Clerks : ~Keeps(d, i)
        BY <2>0, <4>1 DEF OneOwner
      <4>3. QED
        BY <3>3, <3>4, <4>1, <4>2 DEF OneOwner
    <3>6. CASE i \notin marked
      <4>1. item'[i] = item[i]
        BY <3>1, <3>6, MarkedItem
      <4>2. QED
        BY <2>0, <3>3, <3>4, <3>6, <4>1, OwnerKept
    <3>7. QED
      BY <3>5, <3>6
  <2>k. ASSUME ~ \E c \in Clerks : \E l : AllocateUsed(c, l) \/ AllocateNew(c, l)
        PROVE  \A c \in Clerks : Keeps(c, i)' => Keeps(c, i)
    BY <2>k, NewKeeper
  <2>3. ASSUME NEW c \in Clerks, NEW s \in Slips, Delete(c, s), Released(c, s) PROVE OneOwner(i)'
    <3>1. req[c].op = "delete" /\ req[c].slip = s /\ Serving(c) /\ WriteItems(c, Used(req[c].seen.slip), "IN_STOCK")
      BY <2>3, DeleteFacts DEF Released
    <3>2. \A t \in Slips : Holds(t, i)' => t # s /\ Holds(t, i)
      BY <2>3, ReleasedSlip, BlankFacts DEF Holds, IsLive, Live, Open, Picking
    <3>3. \A d \in Clerks : Keeps(d, i)' => Keeps(d, i)
      BY <2>3, DeleteFacts DEF Keeps, Idle, TypeOK
    <3>4. CASE i \in Used(req[c].seen.slip)
      <4>1. slip[s].status # "DELETED"
        BY <1>2, <3>1, <3>4, WrittenItem
      <4>2. Holds(s, i)
        BY <3>1, <3>4, <4>1, LiveSlip DEF Holds, RequestInv, RequestOf
      <4>3. (\A t \in Slips : Holds(t, i) => t = s) /\ \A d \in Clerks : ~Keeps(d, i)
        BY <2>0, <4>2 DEF OneOwner
      <4>4. (\A t \in Slips : ~Holds(t, i)') /\ \A d \in Clerks : ~Keeps(d, i)'
        BY <3>2, <3>3, <4>3
      <4>5. QED
        BY <4>4 DEF OneOwner
    <3>5. CASE i \notin Used(req[c].seen.slip)
      <4>1. item'[i] = item[i]
        BY <3>1, <3>5, WrittenItem
      <4>2. QED
        BY <2>0, <3>2, <3>3, <4>1, OwnerKept
    <3>6. QED
      BY <3>4, <3>5
  <2>4. ASSUME ~ \E c \in Clerks : \/ \E s \in Slips : CommitIssue(c, s) \/ (Delete(c, s) /\ Released(c, s))
                                   \/ \E l : AllocateUsed(c, l) \/ AllocateNew(c, l)
        PROVE  OneOwner(i)'
    <3>1. ASSUME NEW c \in Clerks, NEW s \in Slips, Confirm(c, s) PROVE item'[i] # "IN_STOCK" \/ item'[i] = item[i]
      BY <3>1, WrittenItem DEF Confirm
    <3>2. ASSUME NEW c \in Clerks, NEW s \in Slips, Revert(c, s) PROVE item'[i] = item[i]
      BY <1>2, <3>2, WrittenItem DEF Revert, Serves
    <3>3. ASSUME ScanOut(i) \/ Recall(i) PROVE FALSE
      BY <1>2, <3>3 DEF ScanOut, Recall, Note
    <3>4. ASSUME Reapprove(i) PROVE FALSE
      BY <1>0, <2>0, <3>4 DEF Reapprove
    <3>5. item'[i] # "IN_STOCK" \/ item'[i] = item[i]
      BY <2>4, <3>1, <3>2, <3>3, <3>4, ItemSteps
    <3>6. (\A s \in Slips : Holds(s, i)' => Holds(s, i)) /\ \A c \in Clerks : Keeps(c, i)' => Keeps(c, i)
      BY <2>4, <2>h, <2>k
    <3>7. QED
      BY <2>0, <3>5, <3>6, OwnerKept
  <2>5. QED
    BY <2>1, <2>2, <2>3, <2>4
<1>3. QED
  BY <1>1, <1>2

-----------------------------------------------------------------------------
(* The inductive invariant *)

LEMMA WarehouseInit == Init => WarehouseInv
<1> SUFFICES ASSUME Init PROVE WarehouseInv
  OBVIOUS
<1>1. \A s \in Slips : slip[s].status = "NONE" /\ slip[s].waybill = 0 /\ ~IsLive(s)
  BY DEF Init, Blank, IsLive, Live, Open, Picking
<1>2. \A c \in Clerks : ~Serving(c) /\ req[c].op # "issue"
  BY DEF Init, Serving, Idle, Handlers
<1>3. RequestInv
  BY <1>2 DEF RequestInv, RequestOf
<1>4. AllocInv
  BY DEF Init, AllocInv
<1>5. OwnerInv
  BY <1>1, <1>2 DEF Init, OwnerInv, OneOwner, Holds, Keeps
<1>6. WaybillInv
  BY <1>1 DEF WaybillInv
<1>7. PickInv
  BY <1>1 DEF PickInv
<1>8. OrderNeverFloats
  BY DEF Init, OrderNeverFloats
<1>9. LedgerExplainsStock
  BY OutboundAssumption DEF Init, LedgerExplainsStock
<1>10. QED
  BY <1>3, <1>4, <1>5, <1>6, <1>7, <1>8, <1>9 DEF WarehouseInv

(* Between any two requests the types hold, and the inductive invariant:    *)
(* what a request has read or kept agrees with the rows it will write.      *)
THEOREM WarehouseInvariant == Spec => [](TypeOK /\ WarehouseInv)
<1>1. Init => TypeOK /\ WarehouseInv
  BY TypeInit, WarehouseInit
<1>2. TypeOK /\ WarehouseInv /\ [Next]_vars => TypeOK' /\ WarehouseInv'
  BY TypeStep, RequestStep, AllocStep, OwnerStep, WaybillStep, PickStep, OrderStep, LedgerStep
     DEF WarehouseInv
<1>3. QED
  BY <1>1, <1>2, PTL DEF Spec

-----------------------------------------------------------------------------
(* The properties *)

(* No allocated LPN is locked for ever, no PICKING order is left without    *)
(* its instruction, waybills differ and complete scans reach packing (the   *)
(* handlers of orders/router.py and picking.py, whatever overlaps).         *)
THEOREM WarehouseStaysSound == Spec => []WarehouseIsSound
<1>1. AllocInv => AllocationIsHeld
  BY DEF AllocInv, AllocationIsHeld, Keeps, Secures
<1>2. WaybillInv => WaybillsIdentify
  BY DEF WaybillInv, WaybillsIdentify, Untouched
<1>3. ASSUME TypeOK, PickInv PROVE ScansComplete
  <2> SUFFICES ASSUME NEW s \in Slips \ raced, slip[s].status \in Picking, Available(slip[s]) # {}
               PROVE  \E l \in Available(slip[s]) : slip[s].lines[l].picked < l.qty
    BY DEF ScansComplete, Available
  <2>1. Counted(slip[s])
    BY <1>3 DEF PickInv, IsLive, Live, Open
  <2>2. IsLines(slip[s].lines)
    BY <1>3 DEF TypeOK, IsSlip
  <2>3. QED
    BY <2>1, <2>2, CountedSlip
<1>4. TypeOK /\ WarehouseInv => WarehouseIsSound
  BY <1>1, <1>2, <1>3 DEF WarehouseInv, WarehouseIsSound
<1>5. QED
  BY <1>4, WarehouseInvariant, PTL

(* Two instructions hold one LPN only after overlapping requests, a revert, *)
(* a recall or an unlinked scan (create_picking_instruction does not check  *)
(* again what allocate_order_items found free).                             *)
THEOREM BooksArePromisedOnce == Spec => []PromisedOnce
<1>1. OwnerInv => PromisedOnce
  <2> SUFFICES ASSUME OwnerInv, NEW i \in Items, itemEvents[i] = {}
               PROVE  Cardinality({ s \in Slips : Holds(s, i) }) <= 1
    BY DEF PromisedOnce
  <2> DEFINE holders == { s \in Slips : Holds(s, i) }
  <2>1. \A s, t \in holders : s = t
    BY DEF OwnerInv, OneOwner
  <2>2. CASE holders = {}
    BY <2>2, FS_EmptySet
  <2>3. ASSUME NEW s \in holders PROVE Cardinality(holders) <= 1
    <3>1. holders = {s}
      BY <2>1
    <3> HIDE DEF holders
    <3>2. Cardinality(holders) = 1
      BY <3>1, FS_Singleton
    <3>3. QED
      BY <3>2
  <2>4. QED
    BY <2>2, <2>3
<1>2. QED
  BY <1>1, WarehouseInvariant, PTL DEF WarehouseInv

(* get_available_books offers no book that is promised to a parcel or went  *)
(* out with one, and a packed instruction is shown all its new copies.      *)
THEOREM OffersStayFree == Spec => []OffersAreFree
<1>1. ASSUME OwnerInv, NEW own, NEW i \in OfferedUsed(own), itemEvents[i] = {}, i \notin own
      PROVE  \A t \in Slips : ~Holds(t, i)
  BY <1>1 DEF OwnerInv, OneOwner, OfferedUsed
<1>2. ASSUME OwnerInv, NEW s \in Slips, NEW i \in Used(slip[s]), i \in Items,
             itemEvents[i] = {}, IsLive(s), NEW t \in Slips, Holds(t, i)
      PROVE  t = s
  BY <1>2 DEF OwnerInv, OneOwner, Holds
<1>3. ASSUME TypeOK, NEW s \in Slips PROVE OfferedNew(slip[s]) >= NewQty(slip[s])
  <2>1. stock \in Nat /\ NewQty(slip[s]) \in Nat
    BY <1>3, QuantityType DEF TypeOK, IsSlip
  <2>2. QED
    BY <2>1 DEF OfferedNew
<1>4. TypeOK /\ OwnerInv => OffersAreFree
  <2> SUFFICES ASSUME TypeOK, OwnerInv
               PROVE  /\ \A i \in OfferedUsed({}), t \in Slips : itemEvents[i] = {} /\ Holds(t, i) => FALSE
                      /\ \A s \in Slips : IsLive(s) =>
                           \A i \in OfferedUsed(Used(slip[s])), t \in Slips :
                             itemEvents[i] = {} /\ Holds(t, i) => t = s
    BY <1>3 DEF OffersAreFree
  <2>1. \A own : OfferedUsed(own) \subseteq Items
    BY DEF OfferedUsed
  <2>2. QED
    BY <1>1, <1>2, <2>1
<1>5. QED
  BY <1>4, WarehouseInvariant, PTL DEF WarehouseInv

(* The inventory log explains the counter of new copies, unless a shortage  *)
(* was shipped or two updates overlapped (confirm_packing, revert_packing). *)
THEOREM LedgerAlwaysExplains == Spec => []LedgerExplainsStock
BY WarehouseInvariant, PTL DEF WarehouseInv
=============================================================================
