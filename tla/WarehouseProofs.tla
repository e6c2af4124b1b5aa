--------------------------- MODULE WarehouseProofs --------------------------
(***************************************************************************)
(* Proofs about two queues of the warehouse. The restock proposals of a    *)
(* title, for any number of cards, clerks, copies and requests and whatever*)
(* the LLM answers: what the purchasing board shows, and that a card is    *)
(* bought once. The label queue, for any number of bridges, jobs and faults:*)
(* what the reports tell about the paper.                                  *)
(***************************************************************************)
EXTENDS Restock, Labels, FiniteSetTheorems, WellFoundedInduction, TLAPS

-----------------------------------------------------------------------------
(* The figures *)

LEMMA CapIsPositive ==
  ASSUME NEW b \in Nat
  PROVE  Cap(b) \in Nat /\ Cap(b) >= 1
<1>1. Larger(1, b) \in Nat /\ Larger(1, b) >= 1
  BY DEF Larger
<1>2. QED
  BY <1>1 DEF Cap, CeilDiv

(* Whatever the LLM answers, the quantity is in the bounds.                 *)
LEMMA ValidatedIsCapped ==
  ASSUME NEW a \in Int, NEW b \in Nat
  PROVE  Validated(a, b) \in Nat /\ Validated(a, b) \in 1..Cap(b)
<1>1. Cap(b) \in Nat /\ Cap(b) >= 1
  BY CapIsPositive
<1>2. QED
  BY <1>1 DEF Validated, Larger, Smaller

LEMMA BaselineType ==
  ASSUME TypeOK, NEW n \in Nat
  PROVE  Baseline(n) \in Nat
<1>1. Available \in Int
  BY RestockAssumption DEF TypeOK, Available
<1>2. sold * 14 + 30 - 1 \in Int
  BY DEF TypeOK
<1>3. (sold * 14 + 30 - 1) \div 30 \in Int
  BY <1>2
<1>4. DemandCover \in Int
  BY <1>3, RestockAssumption DEF DemandCover, CeilDiv, LeadTimeDays, SafetyDays, Larger
<1>5. QED
  BY <1>1, <1>4 DEF Baseline, Larger

LEMMA AnswerType == \A a \in Answers \cup {0} : a \in Int
BY RestockAssumption

LEMMA QuantityType ==
  ASSUME NEW row \in CardRow
  PROVE  Quantity(row) \in Nat /\ (row.qty >= 1 => Quantity(row) = row.qty)
BY DEF Quantity, Larger, CardRow

-----------------------------------------------------------------------------
(* Types *)

LEMMA RequestKinds ==
  ASSUME TypeOK, NEW c \in Clerks
  PROVE  /\ req[c].op = "propose" => req[c] \in Proposing
         /\ req[c].op \in {"order", "receive"} => req[c] \in Approving
         /\ req[c].op \in {"dismiss", "delete"} => req[c] \in Deciding
BY DEF TypeOK, Idle, Proposing, Approving, Deciding

(* A step of one clerk. *)
LEMMA RequestSet ==
  ASSUME TypeOK, NEW c \in Clerks, NEW r, req' = [req EXCEPT ![c] = r]
  PROVE  DOMAIN req' = Clerks /\ req'[c] = r /\ \A d \in Clerks \ {c} : req'[d] = req[d]
BY DEF TypeOK

RequestsOK ==
  /\ DOMAIN req = Clerks
  /\ \A c \in Clerks : \/ req[c] \in {Idle, [op |-> "scan"]}
                       \/ req[c] \in Proposing \/ req[c] \in Approving \/ req[c] \in Deciding

LEMMA RequestType ==
  ASSUME TypeOK, NEW c \in Clerks,
         NEW r \in {Idle, [op |-> "scan"]} \cup Proposing \cup Approving \cup Deciding,
         req' = [req EXCEPT ![c] = r]
  PROVE  RequestsOK'
BY RequestSet DEF TypeOK, RequestsOK

(* What one run of the graph has collected.                                 *)
Proposal(trigger, n, k) ==
  [op |-> "propose", trigger |-> trigger, card |-> k,
   seen |-> IF k = NoCard THEN Blank ELSE card[k],
   rejected |-> Accumulated(trigger, n, k), baseline |-> Baseline(Accumulated(trigger, n, k))]

LEMMA ProposalType ==
  ASSUME TypeOK, NEW t \in Triggers, NEW n \in Nat, NEW k \in Cards \cup {NoCard}
  PROVE  Proposal(t, n, k) \in Proposing
<1>1. (IF k = NoCard THEN Blank ELSE card[k]) \in CardRow
  BY DEF TypeOK, Blank, CardRow, CardStatus
<1>2. Accumulated(t, n, k) \in Nat
  BY DEF TypeOK, CardRow, Accumulated
<1>3. Baseline(Accumulated(t, n, k)) \in Nat
  BY <1>2, BaselineType
<1>4. QED
  BY <1>1, <1>2, <1>3 DEF Proposal, Proposing

LEMMA CollectFacts ==
  ASSUME TypeOK, NEW c \in Clerks, NEW t, NEW n, Collect(c, t, n)
  PROVE  \/ /\ req' = [req EXCEPT ![c] = Idle] /\ UNCHANGED together
         \/ \E k \in IF Existing = {} THEN {NoCard} ELSE Existing :
              /\ req' = [req EXCEPT ![c] = Proposal(t, n, k)]
              /\ together' = (together \/ \E d \in Clerks \ {c} : req[d].op = "propose")
BY DEF Collect, Answer, Proposal

LEMMA CollectType ==
  ASSUME TypeOK, NEW c \in Clerks, NEW t \in Triggers, NEW n \in Nat, Collect(c, t, n)
  PROVE  RequestsOK' /\ together' \in BOOLEAN
<1>1. CASE req' = [req EXCEPT ![c] = Idle] /\ UNCHANGED together
  BY <1>1, RequestType DEF TypeOK
<1>2. ASSUME NEW k \in IF Existing = {} THEN {NoCard} ELSE Existing,
             req' = [req EXCEPT ![c] = Proposal(t, n, k)],
             together' = (together \/ \E d \in Clerks \ {c} : req[d].op = "propose")
      PROVE  RequestsOK' /\ together' \in BOOLEAN
  <2>1. k \in Cards \cup {NoCard}
    BY DEF Existing, Pending
  <2>2. Proposal(t, n, k) \in Proposing
    BY <2>1, ProposalType
  <2>3. RequestsOK'
    BY <1>2, <2>2, RequestType
  <2>4. together' \in BOOLEAN
    BY <1>2
  <2>5. QED
    BY <2>3, <2>4
<1>3. QED
  BY <1>1, <1>2, CollectFacts

LEMMA TypeInit == Init => TypeOK
<1> SUFFICES ASSUME Init PROVE TypeOK
  OBVIOUS
<1>1. card \in [Cards -> CardRow]
  BY DEF Init, CardRow, CardStatus, Blank
<1>2. DOMAIN req = Clerks /\ \A c \in Clerks : req[c] = Idle
  BY DEF Init
<1>3. QED
  BY <1>1, <1>2, RestockAssumption DEF Init, TypeOK

-----------------------------------------------------------------------------
(* What the actions do to the cards *)

OtherCards(k) == \A m \in Cards \ {k} : card'[m] = card[m]

(* The card shows figures that belong together. *)
Fresh(k, rejected, baseline) ==
  /\ card'[k].rejected = rejected /\ card'[k].baseline = baseline
  /\ card'[k].qty \in 1..Cap(baseline)

LEMMA StoreNewFacts ==
  ASSUME TypeOK, NEW c \in Clerks, NEW k \in Cards, StoreNew(c, k)
  PROVE  /\ req[c] \in Proposing /\ req[c].card = NoCard /\ card[k].status = "NONE"
         /\ card' \in [Cards -> CardRow]
         /\ card'[k].status = "PENDING" /\ Fresh(k, req[c].rejected, req[c].baseline)
         /\ OtherCards(k)
<1>1. req[c] \in Proposing /\ req[c].rejected \in Nat /\ req[c].baseline \in Nat
  BY RequestKinds DEF StoreNew, Proposing
<1>2. PICK a \in Answers \cup {0} :
        card' = [card EXCEPT ![k] =
                 [status |-> "PENDING", rejected |-> req[c].rejected,
                  baseline |-> req[c].baseline, qty |-> Validated(a, req[c].baseline)]]
  BY DEF StoreNew
<1>3. PICK q \in Nat : q = Validated(a, req[c].baseline) /\ q \in 1..Cap(req[c].baseline)
  BY <1>1, AnswerType, ValidatedIsCapped
<1>4. [status |-> "PENDING", rejected |-> req[c].rejected,
       baseline |-> req[c].baseline, qty |-> q] \in CardRow
  BY <1>1 DEF CardRow, CardStatus
<1>5. QED
  BY <1>1, <1>2, <1>3, <1>4 DEF StoreNew, TypeOK, Fresh, OtherCards

LEMMA StoreExistingFacts ==
  ASSUME TypeOK, NEW c \in Clerks, StoreExisting(c)
  PROVE  /\ req[c] \in Proposing /\ req[c].card \in Cards /\ card[req[c].card].status # "DELETED"
         /\ card' \in [Cards -> CardRow]
         /\ card'[req[c].card].status = card[req[c].card].status
         /\ card[req[c].card] = req[c].seen
              => Fresh(req[c].card, req[c].rejected, req[c].baseline)
         /\ OtherCards(req[c].card)
<1> DEFINE k == req[c].card
           s == req[c].seen
<1>1. /\ req[c] \in Proposing /\ k \in Cards /\ card[k] \in CardRow /\ s \in CardRow
      /\ req[c].rejected \in Nat /\ req[c].baseline \in Nat
  BY RequestKinds DEF StoreExisting, Proposing, TypeOK
<1>2. PICK a \in Answers \cup {0} :
        card' = [card EXCEPT
          ![k].rejected = Written(s.rejected, req[c].rejected, @),
          ![k].baseline = Written(s.baseline, req[c].baseline, @),
          ![k].qty = Written(s.qty, Validated(a, req[c].baseline), @)]
  BY DEF StoreExisting
<1>3. PICK q \in Nat : q = Validated(a, req[c].baseline) /\ q \in 1..Cap(req[c].baseline)
  BY <1>1, AnswerType, ValidatedIsCapped
<1>4. PICK x \in Nat, y \in Nat, z \in Nat :
        /\ x = Written(s.rejected, req[c].rejected, card[k].rejected)
        /\ y = Written(s.baseline, req[c].baseline, card[k].baseline)
        /\ z = Written(s.qty, q, card[k].qty)
  BY <1>1, <1>3 DEF Written, CardRow
<1>5. card' = [card EXCEPT ![k] = [card[k] EXCEPT !.rejected = x, !.baseline = y, !.qty = z]]
  BY <1>1, <1>2, <1>3, <1>4 DEF TypeOK, CardRow
<1>6. [card[k] EXCEPT !.rejected = x, !.baseline = y, !.qty = z] \in CardRow
  BY <1>1 DEF CardRow
<1>7. /\ card'[k].status = card[k].status
      /\ card'[k].rejected = x /\ card'[k].baseline = y /\ card'[k].qty = z
  BY <1>1, <1>5 DEF CardRow, TypeOK
<1>8. card[k] = s => x = req[c].rejected /\ y = req[c].baseline /\ z = q
  BY <1>1, <1>4 DEF Written
<1>9. QED
  BY <1>1, <1>3, <1>5, <1>6, <1>7, <1>8 DEF StoreExisting, TypeOK, Fresh, OtherCards

(* The card is decided; what it shows is left alone. *)
Decided(k, now) ==
  /\ card'[k].status = now /\ card'[k].rejected = card[k].rejected
  /\ card'[k].baseline = card[k].baseline /\ card'[k].qty = card[k].qty

LEMMA ApproveFacts ==
  ASSUME TypeOK, NEW c \in Clerks, CommitApprove(c)
  PROVE  /\ req[c] \in Approving /\ req[c].card \in Cards /\ card[req[c].card].status # "DELETED"
         /\ card' \in [Cards -> CardRow]
         /\ Decided(req[c].card, "APPROVED") /\ OtherCards(req[c].card)
<1>1. req[c] \in Approving /\ req[c].card \in Cards /\ card[req[c].card] \in CardRow
  BY RequestKinds DEF CommitApprove, Approving, TypeOK
<1>2. [card[req[c].card] EXCEPT !.status = "APPROVED"] \in CardRow
  BY <1>1 DEF CardRow, CardStatus
<1>3. card' = [card EXCEPT ![req[c].card] = [card[req[c].card] EXCEPT !.status = "APPROVED"]]
  BY <1>1 DEF CommitApprove, TypeOK
<1>4. QED
  BY <1>1, <1>2, <1>3 DEF CommitApprove, TypeOK, Decided, OtherCards, CardRow

LEMMA DismissFacts ==
  ASSUME TypeOK, NEW c \in Clerks, CommitDismiss(c)
  PROVE  /\ req[c] \in Deciding
         /\ card' \in [Cards -> CardRow]
         /\ \/ UNCHANGED << card, flags >>
            \/ /\ \A k \in req[c].cards : card[k].status # "DELETED"
               /\ \A k \in Cards :
                    IF k \in req[c].cards THEN Decided(k, "DISMISSED") ELSE card'[k] = card[k]
               /\ \A k \in Cards :
                    flags'[k] = IF k \in req[c].cards /\ (card[k].status # "PENDING" \/ BeingBought(c, k))
                                THEN flags[k] \cup {"overlap"} ELSE flags[k]
<1>1. req[c] \in Deciding /\ card \in [Cards -> CardRow]
  BY RequestKinds DEF CommitDismiss, TypeOK
<1>2. CASE \E k \in req[c].cards : card[k].status = "DELETED"
  BY <1>1, <1>2 DEF CommitDismiss
<1>3. CASE ~\E k \in req[c].cards : card[k].status = "DELETED"
  <2>1. \A k \in Cards : card'[k] = IF k \in req[c].cards THEN [card[k] EXCEPT !.status = "DISMISSED"]
                                    ELSE card[k]
    BY <1>3 DEF CommitDismiss
  <2>2. \A k \in Cards : /\ [card[k] EXCEPT !.status = "DISMISSED"] \in CardRow
                         /\ k \in req[c].cards => Decided(k, "DISMISSED")
    BY <1>1, <2>1 DEF CardRow, CardStatus, Decided
  <2>3. card' \in [Cards -> CardRow]
    BY <1>1, <1>3, <2>2 DEF CommitDismiss
  <2>4. QED
    BY <1>1, <1>3, <2>1, <2>2, <2>3 DEF CommitDismiss
<1>4. QED
  BY <1>2, <1>3

LEMMA DeleteFacts ==
  ASSUME TypeOK, NEW c \in Clerks, CommitDelete(c)
  PROVE  /\ req[c] \in Deciding
         /\ card' \in [Cards -> CardRow]
         /\ \A k \in Cards : IF k \in req[c].cards THEN card'[k].status = "DELETED"
                             ELSE card'[k] = card[k]
<1>1. req[c] \in Deciding /\ card \in [Cards -> CardRow]
  BY RequestKinds DEF CommitDelete, TypeOK
<1>2. [Blank EXCEPT !.status = "DELETED"] \in CardRow /\ [Blank EXCEPT !.status = "DELETED"].status = "DELETED"
  BY DEF Blank, CardRow, CardStatus
<1>3. QED
  BY <1>1, <1>2 DEF CommitDelete

-----------------------------------------------------------------------------
(* Types are kept *)

LEMMA TypeStep == TypeOK /\ [Next]_vars => TypeOK'
<1> SUFFICES ASSUME TypeOK, [Next]_vars PROVE TypeOK'
  OBVIOUS
<1> DEFINE CardsOK == card \in [Cards -> CardRow]
           BuyingOK == /\ stock \in Nat /\ located \in BOOLEAN
                       /\ orders \in [Cards -> Nat] /\ received \in [Cards -> Nat]
           DemandOK == sold \in Nat /\ everSold \in BOOLEAN
           FlagsOK == flags \in [Cards -> SUBSET Flags]
           RestOK == requests \in Nat /\ counted \in [Cards -> Nat]
<1>0. CardsOK /\ BuyingOK /\ DemandOK /\ FlagsOK /\ RestOK /\ together \in BOOLEAN /\ RequestsOK
  BY DEF TypeOK, RequestsOK
<1>t. ASSUME CardsOK', BuyingOK', DemandOK', FlagsOK', RestOK', together' \in BOOLEAN, RequestsOK'
      PROVE  TypeOK'
  BY <1>t DEF TypeOK, RequestsOK
<1>a. ASSUME NEW c \in Clerks, Answer(c) PROVE RequestsOK'
  BY <1>a, RequestType DEF Answer
<1>f. ASSUME NEW k \in Cards, NEW fs, fs \subseteq Flags, Flag(k, fs) PROVE FlagsOK'
  BY <1>f, <1>0 DEF Flag
<1>1. ASSUME NEW c \in Clerks, ProposeReject(c) PROVE TypeOK'
  <2>1. RequestsOK' /\ together' \in BOOLEAN
    BY <1>1, CollectType DEF ProposeReject, Triggers
  <2>2. QED
    BY <1>0, <1>1, <1>t, <2>1 DEF ProposeReject, Arrive, buying, demand
<1>2. ASSUME NEW c \in Clerks, NEW n \in Shortages, ProposeShortage(c, n) PROVE TypeOK'
  <2>1. n \in Nat
    BY RestockAssumption
  <2>2. RequestsOK' /\ together' \in BOOLEAN
    BY <1>2, <2>1, CollectType DEF ProposeShortage, Triggers
  <2>3. QED
    BY <1>0, <1>2, <1>t, <2>2 DEF ProposeShortage, Arrive, buying, demand
<1>3. ASSUME NEW c \in Clerks, BeginScan(c) PROVE TypeOK'
  <2>1. RequestsOK'
    BY <1>3, RequestType DEF BeginScan
  <2>2. QED
    BY <1>0, <1>3, <1>t, <2>1 DEF BeginScan, Arrive, buying, demand, history
<1>4. ASSUME NEW c \in Clerks, ScanTitle(c) PROVE TypeOK'
  <2>1. RequestsOK' /\ together' \in BOOLEAN
    BY <1>4, CollectType DEF ScanTitle, Triggers
  <2>2. QED
    BY <1>0, <1>4, <1>t, <2>1 DEF ScanTitle, buying, demand
<1>5. ASSUME NEW c \in Clerks, NEW k \in Cards, StoreNew(c, k) PROVE TypeOK'
  <2>1. CardsOK'
    BY <1>5, StoreNewFacts
  <2>2. FlagsOK' /\ counted' \in [Cards -> Nat] /\ RequestsOK'
    BY <1>0, <1>5, <1>a, <1>f DEF StoreNew, Flags
  <2>3. QED
    BY <1>0, <1>5, <1>t, <2>1, <2>2 DEF StoreNew, buying, demand
<1>6. ASSUME NEW c \in Clerks, StoreExisting(c) PROVE TypeOK'
  <2>1. CardsOK' /\ req[c].card \in Cards
    BY <1>6, StoreExistingFacts
  <2>2. FlagsOK'
    BY <1>6, <1>f, <2>1 DEF StoreExisting, Flags
  <2>3. counted' \in [Cards -> Nat]
    <3>1. PICK k \in Cards : k = req[c].card /\ counted[k] \in Nat
      BY <1>0, <2>1 DEF TypeOK
    <3>2. CASE req[c].trigger = "reject"
      <4>1. counted' = [counted EXCEPT ![k] = counted[k] + 1]
        BY <1>6, <3>1, <3>2 DEF StoreExisting
      <4>2. QED
        BY <1>0, <3>1, <4>1
    <3>3. CASE req[c].trigger # "reject"
      <4>1. counted' = [counted EXCEPT ![k] = counted[k]]
        BY <1>6, <3>1, <3>3 DEF StoreExisting
      <4>2. QED
        BY <1>0, <4>1
    <3>4. QED
      BY <3>2, <3>3
  <2>4. RequestsOK'
    BY <1>6, <1>a DEF StoreExisting
  <2>5. QED
    BY <1>0, <1>6, <1>t, <2>1, <2>2, <2>3, <2>4 DEF StoreExisting, buying, demand
<1>7. ASSUME NEW c \in Clerks, StoreFails(c) PROVE TypeOK'
  BY <1>0, <1>7, <1>a, <1>t DEF StoreFails, buying, demand, history
<1>8. ASSUME NEW c \in Clerks, NEW k \in Cards, BeginApprove(c, k) PROVE TypeOK'
  <2>1. [op |-> IF located THEN "receive" ELSE "order", card |-> k,
         seen |-> card[k], stock |-> stock, bought |-> FALSE] \in Approving
    BY <1>0 DEF Approving
  <2>2. RequestsOK'
    BY <1>8, <2>1, RequestType DEF BeginApprove
  <2>3. QED
    BY <1>0, <1>8, <1>t, <2>2 DEF BeginApprove, Arrive, buying, demand, history
<1>9. ASSUME NEW c \in Clerks, CreateLocation(c) PROVE TypeOK'
  <2>1. req[c] \in Approving /\ req[c].card \in Cards
    BY <1>9, RequestKinds DEF CreateLocation, Approving
  <2>2. [req[c] EXCEPT !.op = "receive", !.stock = stock, !.bought = TRUE] \in Approving
    BY <1>0, <2>1 DEF Approving
  <2>3. req' = [req EXCEPT ![c] = [req[c] EXCEPT !.op = "receive", !.stock = stock, !.bought = TRUE]]
        \/ Answer(c)
    BY <1>9 DEF CreateLocation, TypeOK
  <2>4. RequestsOK'
    BY <1>a, <2>2, <2>3, RequestType
  <2>5. BuyingOK'
    <3>1. located' \in BOOLEAN /\ UNCHANGED << stock, received >>
      BY <1>0, <1>9 DEF CreateLocation
    <3>2. orders' = orders \/ orders' = [orders EXCEPT ![req[c].card] = @ + 1]
      BY <1>9 DEF CreateLocation
    <3>3. orders' \in [Cards -> Nat]
      BY <1>0, <2>1, <3>2
    <3>4. QED
      BY <1>0, <3>1, <3>3
  <2>6. QED
    BY <1>0, <1>9, <1>t, <2>4, <2>5 DEF CreateLocation, demand, history
<1>10. ASSUME NEW c \in Clerks, CommitApprove(c) PROVE TypeOK'
  <2>1. /\ CardsOK' /\ req[c].card \in Cards
        /\ req[c].seen \in CardRow /\ req[c].stock \in Nat /\ req[c].bought \in BOOLEAN
    BY <1>10, ApproveFacts DEF Approving
  <2>2. Receive(req[c].seen) \in Nat
    BY <2>1, QuantityType DEF Receive
  <2>3. BuyingOK'
    BY <1>0, <1>10, <2>1, <2>2 DEF CommitApprove
  <2>4. FlagsOK'
    BY <1>10, <1>f, <2>1 DEF CommitApprove, Flags
  <2>5. RequestsOK'
    BY <1>10, <1>a DEF CommitApprove
  <2>6. QED
    BY <1>0, <1>10, <1>t, <2>1, <2>3, <2>4, <2>5 DEF CommitApprove, demand
<1>11. ASSUME NEW c \in Clerks, AbortApprove(c) PROVE TypeOK'
  <2>1. req[c].card \in Cards
    BY <1>11, RequestKinds DEF AbortApprove, Approving
  <2>2. FlagsOK'
    BY <1>11, <1>f, <2>1 DEF AbortApprove, Flags
  <2>3. QED
    BY <1>0, <1>11, <1>a, <1>t, <2>2 DEF AbortApprove, buying, demand
<1>12. ASSUME NEW c \in Clerks, NEW ks \in SUBSET Cards, BeginDismiss(c, ks) PROVE TypeOK'
  <2>1. [op |-> "dismiss", cards |-> ks] \in Deciding
    BY DEF Deciding
  <2>2. RequestsOK'
    BY <1>12, <2>1, RequestType DEF BeginDismiss
  <2>3. QED
    BY <1>0, <1>12, <1>t, <2>2 DEF BeginDismiss, Arrive, buying, demand, history
<1>13. ASSUME NEW c \in Clerks, CommitDismiss(c) PROVE TypeOK'
  <2>1. CardsOK'
    BY <1>13, DismissFacts
  <2>2. FlagsOK'
    BY <1>0, <1>13 DEF CommitDismiss, Flags
  <2>3. RequestsOK'
    BY <1>13, <1>a DEF CommitDismiss
  <2>4. QED
    BY <1>0, <1>13, <1>t, <2>1, <2>2, <2>3 DEF CommitDismiss, buying, demand
<1>14. ASSUME NEW c \in Clerks, NEW ks \in SUBSET Cards, BeginDelete(c, ks) PROVE TypeOK'
  <2>1. [op |-> "delete", cards |-> ks] \in Deciding
    BY DEF Deciding
  <2>2. RequestsOK'
    BY <1>14, <2>1, RequestType DEF BeginDelete
  <2>3. QED
    BY <1>0, <1>14, <1>t, <2>2 DEF BeginDelete, Arrive, buying, demand, history
<1>15. ASSUME NEW c \in Clerks, CommitDelete(c) PROVE TypeOK'
  <2>1. CardsOK'
    BY <1>15, DeleteFacts
  <2>2. QED
    BY <1>0, <1>15, <1>a, <1>t, <2>1 DEF CommitDelete, buying, demand, history
<1>16. CASE Sell \/ Quiet
  <2>1. CardsOK' /\ FlagsOK' /\ RestOK' /\ together' \in BOOLEAN /\ RequestsOK'
    BY <1>0, <1>16 DEF Sell, Quiet, history, RequestsOK
  <2>2. stock' \in Nat /\ sold' \in Nat
    BY <1>0, <1>16 DEF Sell, Quiet, buying
  <2>3. UNCHANGED << located, orders, received >> /\ everSold' \in BOOLEAN
    BY <1>0, <1>16 DEF Sell, Quiet, buying
  <2>4. QED
    BY <1>0, <1>t, <2>1, <2>2, <2>3
<1>17. CASE UNCHANGED vars
  BY <1>0, <1>17, <1>t DEF vars, RequestsOK
<1>18. QED
  BY <1>1, <1>2, <1>3, <1>4, <1>5, <1>6, <1>7, <1>8, <1>9, <1>10, <1>11, <1>12, <1>13, <1>14,
     <1>15, <1>16, <1>17 DEF Next, Propose, Decide

-----------------------------------------------------------------------------
(* The inductive invariant *)

Proposes(c) == req[c].op = "propose"
Buys(c, k)  == req[c].op \in {"order", "receive"} /\ req[c].card = k
Bought(c)   == req[c].op \in {"order", "receive"} /\ req[c].bought

(* A request is about cards that were on the board, and a deletion is about *)
(* closed ones; what the graph counts goes by the card that it read.        *)
RequestOf(c) ==
  /\ Proposes(c) /\ req[c].card = NoCard =>
       /\ req[c].trigger = "reject" => req[c].rejected = 1
       /\ req[c].trigger = "scan" => req[c].rejected = 0
  /\ Proposes(c) /\ req[c].card # NoCard =>
       /\ card[req[c].card].status # "NONE" /\ req[c].seen.status = "PENDING"
       /\ req[c].trigger = "reject" => req[c].rejected = req[c].seen.rejected + 1
  /\ req[c].op \in {"order", "receive"} => card[req[c].card].status # "NONE"
  /\ req[c].op = "order" => ~req[c].bought
  /\ req[c].op = "dismiss" => \A k \in req[c].cards : card[k].status # "NONE"
  /\ req[c].op = "delete" => \A k \in req[c].cards : card[k].status \notin {"NONE", "PENDING"}

RequestInv == \A c \in Clerks : RequestOf(c)

(* One graph at a time finds the open card, and if it found none there is   *)
(* none until it stores its own.                                            *)
TogetherInv ==
  ~together =>
    /\ \A c, d \in Clerks : Proposes(c) /\ Proposes(d) => c = d
    /\ \A c \in Clerks : Proposes(c) /\ req[c].card = NoCard => Pending = {}
    /\ \A k, m \in Pending : k = m

(* The request that created the rack, the only one of its kind, is the only *)
(* one whose order is committed before its card; a card that is being       *)
(* bought is pending, and has been bought when it is approved.              *)
BuyInv ==
  /\ \A c \in Clerks : Bought(c) => located
  /\ \A c, d \in Clerks : Bought(c) /\ Bought(d) => c = d
  /\ \A k \in Cards : "overlap" \notin flags[k] =>
       \A c \in Clerks : Buys(c, k) => card[k].status = "PENDING"
  /\ \A k \in Cards : flags[k] \cap {"overlap", "died"} = {} =>
       /\ card[k].status = "PENDING" =>
            /\ received[k] = 0
            /\ orders[k] = IF \E c \in Clerks : Buys(c, k) /\ Bought(c) THEN 1 ELSE 0
       /\ card[k].status \in {"NONE", "DISMISSED"} => received[k] = 0 /\ orders[k] = 0
       /\ card[k].status = "APPROVED" => orders[k] = 1 /\ received[k] = card[k].qty
       /\ orders[k] <= 1

BoardInv == RequestInv /\ TogetherInv /\ BuyInv /\ QuantityIsCapped /\ RejectionsAccumulate

-----------------------------------------------------------------------------
(* What changes in a step *)

(* A run of the graph has looked at the board. *)
Collected(c, t, n, k) ==
  /\ t = "reject" => n = 1
  /\ t = "scan" => n = 0
  /\ IF Pending = {} THEN k = NoCard ELSE k \in Pending
  /\ req' = [req EXCEPT ![c] = Proposal(t, n, k)]
  /\ together' = (together \/ \E d \in Clerks \ {c} : Proposes(d))
  /\ UNCHANGED << card, counted, flags >>

LEMMA CollectSteps ==
  ASSUME TypeOK, NEW c \in Clerks,
         ProposeReject(c) \/ (\E n \in Shortages : ProposeShortage(c, n)) \/ ScanTitle(c)
  PROVE  /\ ~Proposes(c) /\ ~(req[c].op \in {"order", "receive"})
         /\ \/ req' = [req EXCEPT ![c] = Idle] /\ UNCHANGED << card, together, flags, counted >>
            \/ \E t \in Triggers, n \in Nat, k \in Cards \cup {NoCard} : Collected(c, t, n, k)
         /\ UNCHANGED << located, orders, received >>
<1> DEFINE Looked == \/ req' = [req EXCEPT ![c] = Idle] /\ UNCHANGED << card, together, flags, counted >>
                     \/ \E t \in Triggers, n \in Nat, k \in Cards \cup {NoCard} : Collected(c, t, n, k)
<1>1. ASSUME NEW t \in Triggers, NEW n \in Nat, Collect(c, t, n), UNCHANGED << card, counted, flags >>,
             t = "reject" => n = 1, t = "scan" => n = 0
      PROVE  Looked
  <2>1. ASSUME NEW k \in IF Existing = {} THEN {NoCard} ELSE Existing,
               req' = [req EXCEPT ![c] = Proposal(t, n, k)],
               together' = (together \/ \E d \in Clerks \ {c} : req[d].op = "propose")
        PROVE  Collected(c, t, n, k) /\ k \in Cards \cup {NoCard}
    BY <1>1, <2>1 DEF Collected, Existing, Pending, Proposes
  <2>2. QED
    BY <1>1, <2>1, CollectFacts
<1>2. CASE ProposeReject(c)
  <2>1. Looked
    BY <1>1, <1>2 DEF ProposeReject, Triggers
  <2>2. QED
    BY <1>2, <2>1 DEF ProposeReject, Arrive, Idle, Proposes, buying
<1>3. ASSUME NEW n \in Shortages, ProposeShortage(c, n)
      PROVE  /\ Looked /\ ~Proposes(c) /\ ~(req[c].op \in {"order", "receive"})
             /\ UNCHANGED << located, orders, received >>
  <2>1. Looked
    BY <1>1, <1>3, RestockAssumption DEF ProposeShortage, Triggers
  <2>2. QED
    BY <1>3, <2>1 DEF ProposeShortage, Arrive, Idle, Proposes, buying
<1>4. CASE ScanTitle(c)
  <2>1. Looked
    BY <1>1, <1>4 DEF ScanTitle, Triggers
  <2>2. QED
    BY <1>4, <2>1 DEF ScanTitle, Proposes, buying
<1>5. QED
  BY <1>2, <1>3, <1>4

(* Requests begin with the board as it is. *)
Begins(c) ==
  \/ BeginScan(c)
  \/ \E k \in Cards : BeginApprove(c, k)
  \/ \E ks \in SUBSET Cards : BeginDismiss(c, ks) \/ BeginDelete(c, ks)

Collects(c) == ProposeReject(c) \/ (\E n \in Shortages : ProposeShortage(c, n)) \/ ScanTitle(c)

Commits(c) ==
  \/ \E k \in Cards : StoreNew(c, k)
  \/ StoreExisting(c) \/ CommitApprove(c) \/ CommitDismiss(c) \/ CommitDelete(c)

LEMMA StepKinds ==
  ASSUME [Next]_vars
  PROVE  \/ \E c \in Clerks : \/ Begins(c) \/ Collects(c) \/ Commits(c)
                              \/ StoreFails(c) \/ CreateLocation(c) \/ AbortApprove(c)
         \/ Sell \/ Quiet \/ UNCHANGED vars
BY DEF Next, Propose, Decide, Begins, Collects, Commits

LEMMA BeginFacts ==
  ASSUME TypeOK, NEW c \in Clerks, Begins(c)
  PROVE  /\ req[c] = Idle /\ UNCHANGED << card, located, orders, received, counted, flags, together >>
         /\ \A d \in Clerks \ {c} : req'[d] = req[d]
         /\ \/ req'[c] = [op |-> "scan"]
            \/ \E k \in Pending : /\ req'[c].op \in {"order", "receive"} /\ req'[c].card = k
                                  /\ req'[c].bought = FALSE
            \/ \E ks \in SUBSET Pending : req'[c] = [op |-> "dismiss", cards |-> ks]
            \/ \E ks \in SUBSET Closed : req'[c] = [op |-> "delete", cards |-> ks]
<1>1. CASE BeginScan(c)
  BY <1>1 DEF BeginScan, Arrive, buying, history, TypeOK
<1>2. ASSUME NEW k \in Cards, BeginApprove(c, k)
      PROVE  /\ k \in Pending /\ req'[c].op \in {"order", "receive"} /\ req'[c].card = k
             /\ req'[c].bought = FALSE
  BY <1>2 DEF BeginApprove, Decidable, TypeOK
<1>3. ASSUME NEW k \in Cards, BeginApprove(c, k)
      PROVE  /\ req[c] = Idle /\ \A d \in Clerks \ {c} : req'[d] = req[d]
             /\ UNCHANGED << card, located, orders, received, counted, flags, together >>
  BY <1>3 DEF BeginApprove, Arrive, buying, history, TypeOK
<1>4. ASSUME NEW ks \in SUBSET Cards, BeginDismiss(c, ks) \/ BeginDelete(c, ks)
      PROVE  /\ req[c] = Idle /\ \A d \in Clerks \ {c} : req'[d] = req[d]
             /\ UNCHANGED << card, located, orders, received, counted, flags, together >>
             /\ \/ ks \subseteq Pending /\ req'[c] = [op |-> "dismiss", cards |-> ks]
                \/ ks \subseteq Closed /\ req'[c] = [op |-> "delete", cards |-> ks]
  BY <1>4 DEF BeginDismiss, BeginDelete, Arrive, buying, history, TypeOK, Decidable
<1>5. QED
  BY <1>1, <1>2, <1>3, <1>4 DEF Begins

LEMMA CommitFacts ==
  ASSUME TypeOK, NEW c \in Clerks, Commits(c) \/ StoreFails(c) \/ AbortApprove(c)
  PROVE  /\ req'[c] = Idle /\ \A d \in Clerks \ {c} : req'[d] = req[d]
         /\ UNCHANGED << located, together >>
<1>1. Answer(c)
  BY DEF Commits, StoreNew, StoreExisting, CommitApprove, CommitDismiss, CommitDelete, StoreFails,
         AbortApprove
<1>2. UNCHANGED << located, together >>
  BY DEF Commits, StoreNew, StoreExisting, CommitApprove, CommitDismiss, CommitDelete, StoreFails,
         AbortApprove, buying, history
<1>3. QED
  BY <1>1, <1>2 DEF Answer, TypeOK

LEMMA LocationFacts ==
  ASSUME TypeOK, NEW c \in Clerks, CreateLocation(c)
  PROVE  /\ req[c] \in Approving /\ req[c].card \in Cards /\ ~Proposes(c) /\ req[c].op = "order"
         /\ UNCHANGED << card, received, counted, flags, together >>
         /\ \A d \in Clerks \ {c} : req'[d] = req[d]
         /\ \/ req'[c] = Idle /\ UNCHANGED << located, orders >>
            \/ /\ located = FALSE /\ located' = TRUE
               /\ req'[c].op = "receive" /\ req'[c].card = req[c].card /\ req'[c].bought = TRUE
               /\ orders' = [orders EXCEPT ![req[c].card] = @ + 1]
<1>1. req[c] \in Approving /\ req[c].card \in Cards /\ ~Proposes(c) /\ req[c].op = "order"
  BY RequestKinds DEF CreateLocation, Approving, Proposes
<1>2. UNCHANGED << card, received, counted, flags, together >> /\ \A d \in Clerks \ {c} : req'[d] = req[d]
  BY DEF CreateLocation, history, Answer, TypeOK
<1>3. CASE located
  BY <1>1, <1>2, <1>3 DEF CreateLocation, Answer, TypeOK
<1>4. CASE ~located
  <2>1. req'[c] = [req[c] EXCEPT !.op = "receive", !.stock = stock, !.bought = TRUE]
    BY <1>4 DEF CreateLocation, TypeOK
  <2>2. req'[c].op = "receive" /\ req'[c].card = req[c].card /\ req'[c].bought = TRUE
    BY <1>1, <2>1 DEF Approving
  <2>3. located = FALSE /\ located' = TRUE
    BY <1>4 DEF CreateLocation, TypeOK
  <2>4. orders' = [orders EXCEPT ![req[c].card] = @ + 1]
    BY <1>4 DEF CreateLocation
  <2>5. QED
    BY <1>1, <1>2, <2>2, <2>3, <2>4
<1>5. QED
  BY <1>3, <1>4

(* A card changes by being stored, decided or deleted.                      *)
LEMMA CardKept ==
  ASSUME TypeOK, RequestInv, [Next]_vars, NEW k \in Cards
  PROVE  \/ card'[k] = card[k]
         \/ \E c \in Clerks : \/ StoreNew(c, k)
                              \/ StoreExisting(c) /\ req[c].card = k
                              \/ CommitApprove(c) /\ req[c].card = k
                              \/ CommitDismiss(c) /\ k \in req[c].cards
                              \/ CommitDelete(c) /\ k \in req[c].cards
<1>1. ASSUME NEW c \in Clerks, Begins(c) \/ Collects(c) \/ CreateLocation(c) PROVE card' = card
  BY <1>1, BeginFacts, CollectSteps, LocationFacts DEF Collects, Collected
<1>2. ASSUME NEW c \in Clerks, StoreFails(c) \/ AbortApprove(c) PROVE card' = card
  BY <1>2 DEF StoreFails, AbortApprove
<1>3. ASSUME NEW c \in Clerks, Commits(c)
      PROVE  \/ card'[k] = card[k]
             \/ StoreNew(c, k)
             \/ StoreExisting(c) /\ req[c].card = k
             \/ CommitApprove(c) /\ req[c].card = k
             \/ CommitDismiss(c) /\ k \in req[c].cards
             \/ CommitDelete(c) /\ k \in req[c].cards
  BY <1>3, StoreNewFacts, StoreExistingFacts, ApproveFacts, DismissFacts, DeleteFacts
     DEF Commits, OtherCards
<1>4. Sell \/ Quiet \/ UNCHANGED vars => card' = card
  BY DEF Sell, Quiet, vars
<1>5. QED
  BY <1>1, <1>2, <1>3, <1>4, StepKinds

(* A card that was on the board is never blank again, and no decision is    *)
(* skipped or taken back.                                                   *)
LEMMA StatusKept ==
  ASSUME TypeOK, RequestInv, [Next]_vars, NEW k \in Cards
  PROVE  /\ card[k].status # "NONE" => card'[k].status # "NONE"
         /\ card[k].status \notin {"NONE", "PENDING"} => card'[k].status \notin {"NONE", "PENDING"}
         /\ card[k].status = "PENDING" => card'[k].status # "DELETED"
         /\ card'[k].status = "PENDING" /\ card[k].status # "PENDING"
              => \E c \in Clerks : StoreNew(c, k)
<1>1. ASSUME NEW c \in Clerks, CommitDelete(c), k \in req[c].cards
      PROVE  card'[k].status = "DELETED" /\ card[k].status \notin {"NONE", "PENDING"}
  BY <1>1, DeleteFacts DEF CommitDelete, RequestInv, RequestOf
<1>2. ASSUME NEW c \in Clerks, CommitDismiss(c), k \in req[c].cards
      PROVE  card'[k] = card[k] \/ card'[k].status = "DISMISSED"
  BY <1>2, DismissFacts DEF Decided
<1>3. ASSUME NEW c \in Clerks, CommitApprove(c), req[c].card = k PROVE card'[k].status = "APPROVED"
  BY <1>3, ApproveFacts DEF Decided
<1>4. ASSUME NEW c \in Clerks, StoreExisting(c), req[c].card = k PROVE card'[k].status = card[k].status
  BY <1>4, StoreExistingFacts
<1>5. ASSUME NEW c \in Clerks, StoreNew(c, k) PROVE card[k].status = "NONE" /\ card'[k].status = "PENDING"
  BY <1>5, StoreNewFacts
<1>6. QED
  BY <1>1, <1>2, <1>3, <1>4, <1>5, CardKept

-----------------------------------------------------------------------------
(* The invariant is kept *)

LEMMA FlagsGrow ==
  ASSUME TypeOK, [Next]_vars, NEW k \in Cards
  PROVE  flags[k] \subseteq flags'[k]
<1>1. ASSUME NEW c \in Clerks, Begins(c) \/ Collects(c) \/ CreateLocation(c) PROVE flags' = flags
  BY <1>1, BeginFacts, CollectSteps, LocationFacts DEF Collects, Collected
<1>2. ASSUME NEW c \in Clerks, StoreFails(c) \/ AbortApprove(c) PROVE flags[k] \subseteq flags'[k]
  BY <1>2 DEF StoreFails, AbortApprove, history, Flag, TypeOK
<1>3. ASSUME NEW c \in Clerks, Commits(c) PROVE flags[k] \subseteq flags'[k]
  <2>1. ASSUME NEW m \in Cards, StoreNew(c, m) PROVE flags[k] \subseteq flags'[k]
    BY <2>1 DEF StoreNew, Flag, TypeOK
  <2>2. CASE StoreExisting(c)
    BY <2>2 DEF StoreExisting, Flag, TypeOK
  <2>3. CASE CommitApprove(c)
    BY <2>3 DEF CommitApprove, history, Flag, TypeOK
  <2>4. CASE CommitDismiss(c) \/ CommitDelete(c)
    BY <2>4 DEF CommitDismiss, CommitDelete, history, Flag, TypeOK
  <2>5. QED
    BY <1>3, <2>1, <2>2, <2>3, <2>4 DEF Commits
<1>4. Sell \/ Quiet \/ UNCHANGED vars => flags' = flags
  BY DEF Sell, Quiet, vars, history
<1>5. QED
  BY <1>1, <1>2, <1>3, <1>4, StepKinds

LEMMA RequestStep == TypeOK /\ RequestInv /\ [Next]_vars => RequestInv'
<1> SUFFICES ASSUME TypeOK, RequestInv, [Next]_vars, NEW d \in Clerks PROVE RequestOf(d)'
  BY DEF RequestInv
<1>0. RequestOf(d) /\ NoCard \notin Cards
  BY RestockAssumption DEF RequestInv
<1>i. ASSUME req'[d] = Idle \/ req'[d] = [op |-> "scan"] PROVE RequestOf(d)'
  BY <1>i DEF RequestOf, Proposes, Idle
<1>k. ASSUME req'[d] = req[d] PROVE RequestOf(d)'
  <2>1. /\ Proposes(d) => req[d].card \in Cards \cup {NoCard}
        /\ req[d].op \in {"order", "receive"} => req[d].card \in Cards
        /\ req[d].op \in {"dismiss", "delete"} => req[d].cards \subseteq Cards
    BY RequestKinds DEF Proposes, Proposing, Approving, Deciding
  <2>2. \A k \in Cards :
          /\ card[k].status # "NONE" => card'[k].status # "NONE"
          /\ card[k].status \notin {"NONE", "PENDING"} => card'[k].status \notin {"NONE", "PENDING"}
    BY StatusKept
  <2>3. QED
    BY <1>0, <1>k, <2>1, <2>2 DEF RequestOf, Proposes
<1>1. ASSUME NEW c \in Clerks, Begins(c) PROVE RequestOf(d)'
  <2>1. CASE d # c
    BY <1>1, <1>k, <2>1, BeginFacts
  <2>2. CASE d = c
    <3>1. card' = card
      BY <1>1, BeginFacts
    <3>2. ASSUME NEW k \in Pending, req'[d].op \in {"order", "receive"}, req'[d].card = k,
                 req'[d].bought = FALSE
          PROVE  RequestOf(d)'
      BY <3>1, <3>2 DEF RequestOf, Proposes, Pending
    <3>3. ASSUME NEW ks \in SUBSET Pending, req'[d] = [op |-> "dismiss", cards |-> ks]
          PROVE  RequestOf(d)'
      BY <3>1, <3>3 DEF RequestOf, Proposes, Pending
    <3>4. ASSUME NEW ks \in SUBSET Closed, req'[d] = [op |-> "delete", cards |-> ks]
          PROVE  RequestOf(d)'
      BY <3>1, <3>4 DEF RequestOf, Proposes, Closed
    <3>5. QED
      BY <1>1, <1>i, <2>2, <3>2, <3>3, <3>4, BeginFacts
  <2>3. QED
    BY <2>1, <2>2
<1>2. ASSUME NEW c \in Clerks, Collects(c) PROVE RequestOf(d)'
  <2>1. CASE d # c
    BY <1>2, <1>k, <2>1, CollectSteps, RequestSet DEF Collects, Collected
  <2>2. ASSUME d = c, NEW t \in Triggers, NEW n \in Nat, NEW k \in Cards \cup {NoCard},
               Collected(c, t, n, k)
        PROVE  RequestOf(d)'
    <3>1. req'[d] = Proposal(t, n, k) /\ card' = card
      BY <2>2, RequestSet DEF Collected
    <3>2. /\ req'[d].op = "propose" /\ req'[d].trigger = t /\ req'[d].card = k
          /\ req'[d].rejected = Accumulated(t, n, k)
          /\ k # NoCard => req'[d].seen = card[k]
      BY <3>1 DEF Proposal
    <3>3. CASE k = NoCard
      BY <2>2, <3>2, <3>3 DEF RequestOf, Proposes, Accumulated, Collected
    <3>4. CASE k # NoCard
      <4>1. k \in Cards /\ card[k].status = "PENDING" /\ card[k].rejected \in Nat
        BY <2>2, <3>4 DEF Collected, Pending, TypeOK, CardRow
      <4>2. t = "reject" => Accumulated(t, n, k) = card[k].rejected + 1
        BY <2>2, <3>4, <4>1 DEF Accumulated, Collected
      <4>3. QED
        BY <3>1, <3>2, <3>4, <4>1, <4>2 DEF RequestOf, Proposes
    <3>5. QED
      BY <3>3, <3>4
  <2>3. CASE d = c /\ req' = [req EXCEPT ![c] = Idle]
    BY <1>i, <2>3, RequestSet
  <2>4. QED
    BY <1>2, <2>1, <2>2, <2>3, CollectSteps DEF Collects
<1>3. ASSUME NEW c \in Clerks, Commits(c) \/ StoreFails(c) \/ AbortApprove(c) PROVE RequestOf(d)'
  BY <1>3, <1>i, <1>k, CommitFacts
<1>4. ASSUME NEW c \in Clerks, CreateLocation(c) PROVE RequestOf(d)'
  <2>1. CASE d # c
    BY <1>4, <1>k, <2>1, LocationFacts
  <2>2. CASE d = c /\ req'[c].op = "receive" /\ req'[c].card = req[c].card
    <3>1. card' = card /\ req[c].op = "order"
      BY <1>4, LocationFacts
    <3>2. QED
      BY <1>0, <2>2, <3>1 DEF RequestOf, Proposes
  <2>3. QED
    BY <1>4, <1>i, <2>1, <2>2, LocationFacts
<1>5. Sell \/ Quiet \/ UNCHANGED vars => req' = req
  BY DEF Sell, Quiet, vars
<1>6. QED
  BY <1>1, <1>2, <1>3, <1>4, <1>5, <1>k, StepKinds

(* No request begins with the graph's answer. *)
LEMMA BeginAsks ==
  ASSUME TypeOK, NEW c \in Clerks, Begins(c)
  PROVE  ~Proposes(c)'
<1>1. ASSUME NEW k \in Cards, BeginApprove(c, k) PROVE req'[c].op \in {"order", "receive"}
  BY <1>1 DEF BeginApprove, TypeOK
<1>2. ASSUME NEW ks \in SUBSET Cards, BeginDismiss(c, ks) \/ BeginDelete(c, ks)
      PROVE  req'[c].op \in {"dismiss", "delete"}
  BY <1>2 DEF BeginDismiss, BeginDelete, TypeOK
<1>3. BeginScan(c) => req'[c].op = "scan"
  BY DEF BeginScan, TypeOK
<1>4. QED
  BY <1>1, <1>2, <1>3 DEF Begins, Proposes

LEMMA TogetherStep == TypeOK /\ RequestInv /\ TogetherInv /\ [Next]_vars => TogetherInv'
<1> SUFFICES ASSUME TypeOK, RequestInv, TogetherInv, [Next]_vars, ~together'
             PROVE  /\ \A c, d \in Clerks : Proposes(c)' /\ Proposes(d)' => c = d
                    /\ \A c \in Clerks : Proposes(c)' /\ req'[c].card = NoCard => Pending' = {}
                    /\ \A k, m \in Pending' : k = m
  BY DEF TogetherInv
<1> DEFINE Single == /\ \A c, d \in Clerks : Proposes(c)' /\ Proposes(d)' => c = d
                     /\ \A c \in Clerks : Proposes(c)' /\ req'[c].card = NoCard => Pending' = {}
                     /\ \A k, m \in Pending' : k = m
           Before == /\ \A c, d \in Clerks : Proposes(c) /\ Proposes(d) => c = d
                     /\ \A c \in Clerks : Proposes(c) /\ req[c].card = NoCard => Pending = {}
                     /\ \A k, m \in Pending : k = m
<1>b. ~together => Before
  BY DEF TogetherInv
<1>p. (\A c \in Clerks, k \in Cards : ~StoreNew(c, k)) => Pending' \subseteq Pending
  BY StatusKept DEF Pending
<1>k. ASSUME Before, Pending' \subseteq Pending,
             \A d \in Clerks : Proposes(d)' => Proposes(d) /\ req'[d] = req[d]
      PROVE  Single
  BY <1>k DEF Proposes
<1>1. ASSUME NEW c \in Clerks, Begins(c) PROVE Single
  <2>1. together' = together /\ card' = card /\ \A d \in Clerks \ {c} : req'[d] = req[d]
    BY <1>1, BeginFacts
  <2>2. ~Proposes(c)'
    BY <1>1, BeginAsks
  <2>3. Pending' = Pending
    BY <2>1 DEF Pending
  <2>4. QED
    BY <1>b, <1>k, <2>1, <2>2, <2>3 DEF Proposes
<1>2. ASSUME NEW c \in Clerks, Collects(c) PROVE Single
  <2>1. ASSUME NEW t \in Triggers, NEW n \in Nat, NEW k \in Cards \cup {NoCard}, Collected(c, t, n, k)
        PROVE  Single
    <3>1. /\ req'[c] = Proposal(t, n, k) /\ req'[c].card = k
          /\ \A d \in Clerks \ {c} : req'[d] = req[d] /\ ~Proposes(d)
          /\ ~together /\ Pending' = Pending
      BY <2>1, RequestSet DEF Collected, Proposal, Pending
    <3>2. k = NoCard => Pending = {}
      BY <2>1, RestockAssumption DEF Collected, Pending
    <3>3. QED
      BY <1>b, <3>1, <3>2 DEF Proposes
  <2>2. ASSUME req' = [req EXCEPT ![c] = Idle], UNCHANGED << card, together, flags, counted >>
        PROVE  Single
    <3>1. req'[c].op = "idle" /\ \A d \in Clerks \ {c} : req'[d] = req[d]
      BY <2>2, RequestSet DEF Idle
    <3>2. Pending' = Pending
      BY <2>2 DEF Pending
    <3>3. QED
      BY <1>b, <1>k, <2>2, <3>1, <3>2 DEF Proposes
  <2>3. QED
    BY <1>2, <2>1, <2>2, CollectSteps DEF Collects
<1>3. ASSUME NEW c \in Clerks, Commits(c) \/ StoreFails(c) \/ AbortApprove(c) PROVE Single
  <2>1. /\ Before /\ ~Proposes(c)'
        /\ \A d \in Clerks : Proposes(d)' => Proposes(d) /\ req'[d] = req[d]
    BY <1>3, <1>b, CommitFacts DEF Proposes, Idle
  <2>2. CASE \A k \in Cards : ~StoreNew(c, k)
    <3>1. \A d \in Clerks \ {c}, k \in Cards : ~StoreNew(d, k)
      BY <1>3, CommitFacts DEF StoreNew, Answer, TypeOK, Idle
    <3>2. QED
      BY <1>k, <1>p, <2>1, <2>2, <3>1
  <2>3. ASSUME NEW k \in Cards, StoreNew(c, k) PROVE Single
    <3>1. Proposes(c) /\ req[c].card = NoCard /\ OtherCards(k)
      BY <2>3, StoreNewFacts DEF StoreNew, Proposes
    <3>2. \A d \in Clerks : ~Proposes(d)'
      BY <2>1, <3>1
    <3>3. Pending' \subseteq {k}
      BY <2>1, <3>1 DEF Pending, OtherCards
    <3>4. QED
      BY <3>2, <3>3
  <2>4. QED
    BY <2>2, <2>3
<1>4. ASSUME NEW c \in Clerks, CreateLocation(c) PROVE Single
  <2>1. together' = together /\ card' = card /\ \A d \in Clerks \ {c} : req'[d] = req[d]
    BY <1>4, LocationFacts
  <2>2. ~Proposes(c)'
    <3>1. req'[c] = Idle \/ req'[c].op = "receive"
      BY <1>4, LocationFacts
    <3>2. QED
      BY <3>1 DEF Proposes, Idle
  <2>3. Pending' = Pending
    BY <2>1 DEF Pending
  <2>4. QED
    BY <1>b, <1>k, <2>1, <2>2, <2>3 DEF Proposes
<1>5. CASE Sell \/ Quiet \/ UNCHANGED vars
  <2>1. UNCHANGED << req, card, together >>
    BY <1>5 DEF Sell, Quiet, vars, history
  <2>2. QED
    BY <1>b, <1>k, <2>1 DEF Pending, Proposes
<1>6. QED
  BY <1>1, <1>2, <1>3, <1>4, <1>5, StepKinds

LEMMA CapStep == TypeOK /\ RequestInv /\ QuantityIsCapped /\ [Next]_vars => QuantityIsCapped'
<1> SUFFICES ASSUME TypeOK, RequestInv, QuantityIsCapped, [Next]_vars, NEW k \in Cards,
                    card'[k].status \in {"PENDING", "APPROVED", "DISMISSED"}, "overlap" \notin flags'[k]
             PROVE  card'[k].qty \in 1..Cap(card'[k].baseline)
  BY DEF QuantityIsCapped, OnBoard
<1>0. "overlap" \notin flags[k]
  BY FlagsGrow
<1>1. card[k].status \in {"PENDING", "APPROVED", "DISMISSED"} => card[k].qty \in 1..Cap(card[k].baseline)
  BY <1>0 DEF QuantityIsCapped, OnBoard
<1>2. card[k].status \in CardStatus
  BY DEF TypeOK, CardRow
<1>3. CASE card'[k] = card[k]
  BY <1>1, <1>3
<1>4. ASSUME NEW c \in Clerks, StoreNew(c, k) PROVE card'[k].qty \in 1..Cap(card'[k].baseline)
  BY <1>4, StoreNewFacts DEF Fresh
<1>5. ASSUME NEW c \in Clerks, StoreExisting(c), req[c].card = k
      PROVE  card'[k].qty \in 1..Cap(card'[k].baseline)
  <2>1. card[k] = req[c].seen
    BY <1>5 DEF StoreExisting, Flag, TypeOK
  <2>2. QED
    BY <1>5, <2>1, StoreExistingFacts DEF Fresh
<1>6. ASSUME NEW c \in Clerks, CommitApprove(c), req[c].card = k
      PROVE  card'[k].qty \in 1..Cap(card'[k].baseline)
  <2>1. card[k].status \notin {"NONE", "DELETED"}
    BY <1>6 DEF CommitApprove, RequestInv, RequestOf
  <2>2. QED
    BY <1>1, <1>2, <1>6, <2>1, ApproveFacts DEF Decided, CardStatus
<1>7. ASSUME NEW c \in Clerks, CommitDismiss(c), k \in req[c].cards
      PROVE  card'[k].qty \in 1..Cap(card'[k].baseline)
  <2>1. CASE card'[k] = card[k]
    BY <1>3, <2>1
  <2>2. CASE card'[k] # card[k]
    <3>1. card[k].status \notin {"NONE", "DELETED"} /\ Decided(k, "DISMISSED")
      BY <1>7, <2>2, DismissFacts DEF CommitDismiss, RequestInv, RequestOf
    <3>2. QED
      BY <1>1, <1>2, <3>1 DEF Decided, CardStatus
  <2>3. QED
    BY <2>1, <2>2
<1>8. ASSUME NEW c \in Clerks, CommitDelete(c), k \in req[c].cards PROVE FALSE
  BY <1>8, DeleteFacts
<1>9. QED
  BY <1>3, <1>4, <1>5, <1>6, <1>7, <1>8, CardKept

LEMMA RejectStep == TypeOK /\ RequestInv /\ RejectionsAccumulate /\ [Next]_vars => RejectionsAccumulate'
<1> SUFFICES ASSUME TypeOK, RequestInv, RejectionsAccumulate, [Next]_vars, NEW k \in Cards,
                    card'[k].status = "PENDING", flags'[k] = {}
             PROVE  card'[k].rejected = counted'[k]
  BY DEF RejectionsAccumulate, Pending
<1>0. flags[k] = {}
  BY FlagsGrow
<1>1. card[k].status = "PENDING" => card[k].rejected = counted[k]
  BY <1>0 DEF RejectionsAccumulate, Pending
<1>2. ASSUME NEW c \in Clerks, StoreNew(c, k) PROVE card'[k].rejected = counted'[k]
  <2>1. /\ req[c].card = NoCard /\ Proposes(c) /\ req[c].trigger \in Triggers
        /\ card'[k].rejected = req[c].rejected
    BY <1>2, StoreNewFacts DEF StoreNew, Proposes, Proposing, Fresh
  <2>2. req[c].trigger # "shortage"
    BY <1>0, <1>2 DEF StoreNew, Flag, TypeOK
  <2>3. counted'[k] = IF req[c].trigger = "reject" THEN 1 ELSE 0
    BY <1>2 DEF StoreNew, TypeOK
  <2>4. QED
    BY <2>1, <2>2, <2>3 DEF RequestInv, RequestOf, Triggers
<1>3. ASSUME NEW c \in Clerks, StoreExisting(c), req[c].card = k PROVE card'[k].rejected = counted'[k]
  <2>1. card[k] = req[c].seen /\ req[c].trigger = "reject"
    BY <1>3 DEF StoreExisting, Flag, TypeOK
  <2>2. req[c].rejected = card[k].rejected + 1 /\ card[k].status = "PENDING"
    BY <1>3, <2>1, RestockAssumption DEF StoreExisting, RequestInv, RequestOf, Proposes
  <2>3. card'[k].rejected = req[c].rejected
    BY <1>3, <2>1, StoreExistingFacts DEF Fresh
  <2>4. counted'[k] = counted[k] + 1
    BY <1>3, <2>1 DEF StoreExisting, TypeOK
  <2>5. QED
    BY <1>1, <2>2, <2>3, <2>4
<1>4. ASSUME \A c \in Clerks : ~StoreNew(c, k) /\ ~(StoreExisting(c) /\ req[c].card = k)
      PROVE  counted'[k] = counted[k]
  <2>1. ASSUME NEW c \in Clerks, Begins(c) \/ Collects(c) \/ CreateLocation(c) PROVE counted' = counted
    BY <2>1, BeginFacts, CollectSteps, LocationFacts DEF Collects, Collected
  <2>2. ASSUME NEW c \in Clerks, StoreFails(c) \/ AbortApprove(c) PROVE counted' = counted
    BY <2>2 DEF StoreFails, AbortApprove, history
  <2>3. ASSUME NEW c \in Clerks, Commits(c) PROVE counted'[k] = counted[k]
    <3>1. CASE StoreExisting(c)
      BY <1>4, <3>1 DEF StoreExisting, TypeOK
    <3>2. ASSUME NEW m \in Cards, StoreNew(c, m) PROVE counted'[k] = counted[k]
      BY <1>4, <3>2 DEF StoreNew, TypeOK
    <3>3. CASE CommitApprove(c) \/ CommitDismiss(c) \/ CommitDelete(c)
      BY <3>3 DEF CommitApprove, CommitDismiss, CommitDelete, history
    <3>4. QED
      BY <2>3, <3>1, <3>2, <3>3 DEF Commits
  <2>4. Sell \/ Quiet \/ UNCHANGED vars => counted' = counted
    BY DEF Sell, Quiet, vars, history
  <2>5. QED
    BY <2>1, <2>2, <2>3, <2>4, StepKinds
<1>5. CASE \A c \in Clerks : ~StoreNew(c, k) /\ ~(StoreExisting(c) /\ req[c].card = k)
  <2>1. counted'[k] = counted[k]
    BY <1>4, <1>5
  <2>2. card'[k] = card[k]
    BY <1>5, CardKept, ApproveFacts, DismissFacts, DeleteFacts DEF Decided
  <2>3. QED
    BY <1>1, <2>1, <2>2
<1>6. QED
  BY <1>2, <1>3, <1>5

(* Who buys a card. *)
LEMMA BuyerKept ==
  ASSUME TypeOK, RequestInv, [Next]_vars, NEW d \in Clerks, NEW k \in Cards, Buys(d, k)'
  PROVE  \/ Buys(d, k) /\ (Bought(d)' <=> Bought(d))
         \/ Buys(d, k) /\ CreateLocation(d) /\ located = FALSE /\ located' = TRUE /\ Bought(d)'
         \/ Begins(d) /\ k \in Pending /\ ~Bought(d)'
<1>k. req'[d] = req[d] => Buys(d, k) /\ (Bought(d)' <=> Bought(d))
  BY DEF Buys, Bought
<1>1. ASSUME NEW c \in Clerks, Begins(c)
      PROVE  req'[d] = req[d] \/ (c = d /\ k \in Pending /\ ~Bought(d)')
  <2>1. req'[d] = req[d] \/ c = d
    BY <1>1, BeginFacts
  <2>2. ASSUME c = d PROVE k \in Pending /\ req'[d].bought = FALSE
    <3>1. req'[d].op \in {"order", "receive"} /\ req'[d].card = k
      BY DEF Buys
    <3>2. ASSUME NEW m \in Cards, BeginApprove(c, m)
          PROVE  m \in Pending /\ req'[c].card = m /\ req'[c].bought = FALSE
      BY <3>2 DEF BeginApprove, Decidable, TypeOK
    <3>3. ASSUME NEW ks \in SUBSET Cards, BeginDismiss(c, ks) \/ BeginDelete(c, ks)
          PROVE  req'[c].op \in {"dismiss", "delete"}
      BY <3>3 DEF BeginDismiss, BeginDelete, TypeOK
    <3>4. BeginScan(c) => req'[c].op = "scan"
      BY DEF BeginScan, TypeOK
    <3>5. QED
      BY <1>1, <2>2, <3>1, <3>2, <3>3, <3>4 DEF Begins
  <2>3. QED
    BY <2>1, <2>2 DEF Bought
<1>2. ASSUME NEW c \in Clerks, Collects(c) PROVE req'[d] = req[d]
  <2>1. req' = [req EXCEPT ![c] = Idle] => req'[d] = req[d]
    BY RequestSet DEF Buys, Idle
  <2>2. ASSUME NEW t \in Triggers, NEW n \in Nat, NEW m \in Cards \cup {NoCard}, Collected(c, t, n, m)
        PROVE  req'[d] = req[d]
    BY <2>2, RequestSet DEF Collected, Proposal, Buys
  <2>3. QED
    BY <1>2, <2>1, <2>2, CollectSteps DEF Collects
<1>3. ASSUME NEW c \in Clerks, Commits(c) \/ StoreFails(c) \/ AbortApprove(c) PROVE req'[d] = req[d]
  BY <1>3, CommitFacts DEF Buys, Idle
<1>4. ASSUME NEW c \in Clerks, CreateLocation(c)
      PROVE  \/ req'[d] = req[d]
             \/ c = d /\ Buys(d, k) /\ located = FALSE /\ located' = TRUE /\ Bought(d)'
  <2>1. req'[d] = req[d] \/ c = d
    BY <1>4, LocationFacts
  <2>2. ASSUME c = d
        PROVE  /\ located = FALSE /\ located' = TRUE /\ req'[d].op = "receive"
               /\ req'[d].card = req[d].card /\ req'[d].bought = TRUE /\ req[d].op = "order"
    <3>1. req'[d] # Idle
      BY DEF Buys, Idle
    <3>2. QED
      BY <1>4, <2>2, <3>1, LocationFacts
  <2>3. QED
    BY <2>1, <2>2 DEF Buys, Bought
<1>5. Sell \/ Quiet \/ UNCHANGED vars => req' = req
  BY DEF Sell, Quiet, vars
<1>6. QED
  BY <1>k, <1>1, <1>2, <1>3, <1>4, <1>5, StepKinds

(* Orders and receipts change with approvals only. *)
LEMMA OrdersKept ==
  ASSUME TypeOK, [Next]_vars, NEW k \in Cards,
         \A c \in Clerks : ~(CommitApprove(c) /\ req[c].card = k) /\ ~(CreateLocation(c) /\ req[c].card = k)
  PROVE  orders'[k] = orders[k] /\ received'[k] = received[k]
<1>1. ASSUME NEW c \in Clerks, Begins(c) \/ Collects(c) PROVE UNCHANGED << orders, received >>
  BY <1>1, BeginFacts, CollectSteps DEF Collects
<1>2. ASSUME NEW c \in Clerks, CreateLocation(c) PROVE orders'[k] = orders[k] /\ received'[k] = received[k]
  BY <1>2, LocationFacts DEF TypeOK
<1>3. ASSUME NEW c \in Clerks, StoreFails(c) \/ AbortApprove(c) PROVE UNCHANGED << orders, received >>
  BY <1>3 DEF StoreFails, AbortApprove, buying
<1>4. ASSUME NEW c \in Clerks, CommitApprove(c) PROVE orders'[k] = orders[k] /\ received'[k] = received[k]
  BY <1>4 DEF CommitApprove, TypeOK
<1>5. ASSUME NEW c \in Clerks, Commits(c), ~CommitApprove(c) PROVE UNCHANGED << orders, received >>
  BY <1>5 DEF Commits, StoreNew, StoreExisting, CommitDismiss, CommitDelete, buying
<1>6. Sell \/ Quiet \/ UNCHANGED vars => UNCHANGED << orders, received >>
  BY DEF Sell, Quiet, vars, buying
<1>7. QED
  BY <1>1, <1>2, <1>3, <1>4, <1>5, <1>6, StepKinds

LEMMA BuyerBought ==
  ASSUME TypeOK, RequestInv, [Next]_vars, NEW d \in Clerks, NEW k \in Cards, Buys(d, k)', Bought(d)'
  PROVE  Bought(d) \/ (CreateLocation(d) /\ ~located /\ located')
BY BuyerKept

LEMMA BoughtBefore ==
  ASSUME BuyInv, ~located
  PROVE  \A c \in Clerks : ~Bought(c)
BY DEF BuyInv

(* An order that was committed with the rack is followed by its card, or is *)
(* remembered.                                                              *)
LEMMA BuyerEnds ==
  ASSUME TypeOK, RequestInv, [Next]_vars, NEW d \in Clerks, NEW k \in Cards, Buys(d, k), Bought(d),
         ~(Buys(d, k)' /\ Bought(d)')
  PROVE  CommitApprove(d) \/ "died" \in flags'[k]
<1>0. req'[d] # req[d]
  BY DEF Buys, Bought
<1>1. ASSUME NEW c \in Clerks, Begins(c) PROVE FALSE
  <2>1. c = d
    BY <1>0, <1>1, BeginFacts
  <2>2. req[c] = Idle
    BY <1>1, BeginFacts
  <2>3. QED
    BY <2>1, <2>2 DEF Buys, Idle
<1>2. ASSUME NEW c \in Clerks, Collects(c) PROVE FALSE
  <2>1. c # d
    BY <1>2, CollectSteps DEF Collects, Buys
  <2>2. req'[d] = req[d]
    BY <1>2, <2>1, CollectSteps, RequestSet DEF Collects, Collected
  <2>3. QED
    BY <1>0, <2>2
<1>3. ASSUME NEW c \in Clerks, Commits(c) \/ StoreFails(c)
      PROVE  CommitApprove(d)
  <2>1. c = d
    BY <1>0, <1>3, CommitFacts
  <2>2. QED
    BY <1>3, <2>1 DEF Commits, StoreNew, StoreExisting, CommitDismiss, CommitDelete, StoreFails, Buys
<1>4. ASSUME NEW c \in Clerks, AbortApprove(c) PROVE "died" \in flags'[k]
  <2>1. c = d
    BY <1>0, <1>4, CommitFacts
  <2>2. QED
    BY <1>4, <2>1 DEF AbortApprove, Flag, Buys, Bought, TypeOK
<1>5. ASSUME NEW c \in Clerks, CreateLocation(c) PROVE FALSE
  BY <1>0, <1>5, LocationFacts DEF RequestInv, RequestOf, Bought
<1>6. Sell \/ Quiet \/ UNCHANGED vars => req' = req
  BY DEF Sell, Quiet, vars
<1>7. QED
  BY <1>0, <1>1, <1>2, <1>3, <1>4, <1>5, <1>6, StepKinds

LEMMA BuyStep == TypeOK /\ RequestInv /\ QuantityIsCapped /\ BuyInv /\ [Next]_vars => BuyInv'
<1> SUFFICES ASSUME TypeOK, RequestInv, QuantityIsCapped, BuyInv, [Next]_vars PROVE BuyInv'
  OBVIOUS
<1>l. located => located'
  <2>1. ASSUME NEW c \in Clerks, Begins(c) \/ Collects(c) PROVE located' = located
    BY <2>1, BeginFacts, CollectSteps DEF Collects
  <2>2. ASSUME NEW c \in Clerks, Commits(c) \/ StoreFails(c) \/ AbortApprove(c) PROVE located' = located
    BY <2>2, CommitFacts
  <2>3. ASSUME NEW c \in Clerks, CreateLocation(c) PROVE located' = located \/ located' = TRUE
    BY <2>3, LocationFacts
  <2>4. Sell \/ Quiet \/ UNCHANGED vars => located' = located
    BY DEF Sell, Quiet, vars, buying
  <2>5. QED
    BY <2>1, <2>2, <2>3, <2>4, StepKinds
<1>b. ASSUME NEW c \in Clerks, Bought(c)'
      PROVE  Bought(c) \/ (CreateLocation(c) /\ ~located /\ located')
  <2>1. PICK k \in Cards : req'[c].card = k
    <3>1. RequestsOK'
      BY TypeStep DEF TypeOK, RequestsOK
    <3>2. QED
      BY <1>b, <3>1 DEF RequestsOK, Bought, Idle, Proposing, Approving, Deciding
  <2>2. Buys(c, k)'
    BY <1>b, <2>1 DEF Bought, Buys
  <2>3. QED
    BY <1>b, <2>1, <2>2, BuyerBought
<1>1. \A c \in Clerks : Bought(c)' => located'
  BY <1>b, <1>l DEF BuyInv
<1>2. \A c, d \in Clerks : Bought(c)' /\ Bought(d)' => c = d
  <2>1. ASSUME NEW c \in Clerks, NEW d \in Clerks, CreateLocation(c), CreateLocation(d), ~located,
               Bought(c)', Bought(d)'
        PROVE  c = d
    <3>1. ~Bought(d)
      BY <2>1, BoughtBefore
    <3>2. req'[d] # req[d]
      BY <2>1, <3>1 DEF Bought
    <3>3. QED
      BY <2>1, <3>2, LocationFacts
  <2>2. QED
    BY <1>b, <2>1 DEF BuyInv
<1>3. ASSUME NEW k \in Cards, "overlap" \notin flags'[k], NEW c \in Clerks, Buys(c, k)'
      PROVE  card'[k].status = "PENDING"
  <2>0. "overlap" \notin flags[k]
    BY <1>3, FlagsGrow
  <2>1. CASE Begins(c) /\ k \in Pending
    BY <2>1, BeginFacts DEF Pending
  <2>2. CASE Buys(c, k)
    <3>0. card[k].status = "PENDING"
      BY <2>0, <2>2 DEF BuyInv
    <3>1. ASSUME NEW d \in Clerks, Commits(d) PROVE d # c
      BY <1>3, <3>1, CommitFacts DEF Buys, Idle
    <3>2. ASSUME NEW d \in Clerks, CommitApprove(d), req[d].card = k PROVE FALSE
      <4>1. BeingBought(d, k)
        BY <2>2, <3>1, <3>2 DEF BeingBought, Buys, Commits
      <4>2. QED
        BY <1>3, <3>2, <4>1 DEF CommitApprove, Flag, TypeOK
    <3>3. ASSUME NEW d \in Clerks, CommitDismiss(d), k \in req[d].cards PROVE card'[k] = card[k]
      <4>1. BeingBought(d, k)
        BY <2>2, <3>1, <3>3 DEF BeingBought, Buys, Commits
      <4>2. QED
        BY <1>3, <3>3, <4>1, DismissFacts
    <3>4. ASSUME NEW d \in Clerks, CommitDelete(d), k \in req[d].cards PROVE FALSE
      BY <3>0, <3>4 DEF CommitDelete, RequestInv, RequestOf
    <3>5. ASSUME NEW d \in Clerks, StoreNew(d, k) PROVE FALSE
      BY <3>0, <3>5, StoreNewFacts
    <3>6. QED
      BY <3>0, <3>2, <3>3, <3>4, <3>5, CardKept, StoreExistingFacts
  <2>3. QED
    BY <1>3, <2>1, <2>2, BuyerKept
<1> DEFINE Paid(k) == \E c \in Clerks : Buys(c, k) /\ Bought(c)
           Account(k) ==
             /\ card[k].status = "PENDING" => received[k] = 0 /\ orders[k] = IF Paid(k) THEN 1 ELSE 0
             /\ card[k].status \in {"NONE", "DISMISSED"} => received[k] = 0 /\ orders[k] = 0
             /\ card[k].status = "APPROVED" => orders[k] = 1 /\ received[k] = card[k].qty
             /\ orders[k] <= 1
<1>4. ASSUME NEW k \in Cards, flags'[k] \cap {"overlap", "died"} = {}
      PROVE  Account(k)'
  <2>0. /\ flags[k] \cap {"overlap", "died"} = {} /\ Account(k)
        /\ \A c \in Clerks : Buys(c, k) => card[k].status = "PENDING"
        /\ orders[k] \in Nat /\ received[k] \in Nat
    BY <1>4, FlagsGrow DEF BuyInv, TypeOK
  <2>1. ASSUME NEW c \in Clerks, CommitApprove(c), req[c].card = k PROVE Account(k)'
    <3>1. card[k] = req[c].seen /\ ~BeingBought(c, k) /\ Buys(c, k)
      BY <1>4, <2>1 DEF CommitApprove, Flag, TypeOK, Buys
    <3>2. card[k].status = "PENDING" /\ received[k] = 0 /\ (Bought(c) <=> Paid(k))
      BY <2>0, <3>1 DEF Bought, Buys, BeingBought
    <3>3. orders[k] = (IF req[c].bought THEN 1 ELSE 0)
      BY <2>0, <3>1, <3>2 DEF Bought, Buys
    <3>4. orders'[k] = 1
      <4>1. orders'[k] = IF req[c].bought THEN orders[k] ELSE orders[k] + 1
        BY <2>1 DEF CommitApprove, TypeOK
      <4>2. QED
        BY <3>3, <4>1
    <3>5. Receive(req[c].seen) = card[k].qty /\ card[k].qty \in Nat
      <4>1. card[k].qty \in 1..Cap(card[k].baseline) /\ card[k] \in CardRow
        BY <2>0, <3>2 DEF QuantityIsCapped, OnBoard, TypeOK
      <4>2. card[k].qty >= 1 /\ card[k].qty \in Nat
        BY <4>1 DEF CardRow
      <4>3. QED
        BY <3>1, <4>1, <4>2, QuantityType DEF Receive
    <3>6. received'[k] = card[k].qty
      BY <2>1, <3>2, <3>5 DEF CommitApprove, TypeOK
    <3>7. card'[k].status = "APPROVED" /\ card'[k].qty = card[k].qty
      BY <2>1, ApproveFacts DEF Decided
    <3>8. QED
      BY <3>4, <3>6, <3>7
  <2>2. ASSUME NEW c \in Clerks, CreateLocation(c), req[c].card = k PROVE Account(k)'
    <3>1. card' = card /\ received' = received /\ Buys(c, k) /\ ~Bought(c)
      BY <2>2, LocationFacts DEF Buys, Bought, RequestInv, RequestOf
    <3>2. card[k].status = "PENDING"
      BY <2>0, <3>1
    <3>3. CASE req'[c] = Idle /\ UNCHANGED << located, orders >>
      <4>1. Paid(k)' <=> Paid(k)
        <5>1. \A d \in Clerks \ {c} : req'[d] = req[d]
          BY <2>2, LocationFacts
        <5>2. ~Bought(c)'
          BY <3>3 DEF Bought, Idle
        <5>3. \A d \in Clerks \ {c} : (Buys(d, k)' <=> Buys(d, k)) /\ (Bought(d)' <=> Bought(d))
          BY <5>1 DEF Buys, Bought
        <5>4. QED
          BY <3>1, <5>2, <5>3
      <4>2. QED
        BY <2>0, <3>1, <3>2, <3>3, <4>1
    <3>4. CASE ~(req'[c] = Idle /\ UNCHANGED << located, orders >>)
      <4>1. /\ located = FALSE /\ req'[c].op = "receive" /\ req'[c].card = k /\ req'[c].bought = TRUE
            /\ orders' = [orders EXCEPT ![k] = @ + 1]
        BY <2>2, <3>4, LocationFacts
      <4>2. ~Paid(k)
        BY <4>1, BoughtBefore
      <4>3. Paid(k)'
        BY <4>1 DEF Buys, Bought
      <4>4. orders'[k] = 1
        BY <2>0, <3>2, <4>1, <4>2 DEF TypeOK
      <4>5. QED
        BY <2>0, <3>1, <3>2, <4>3, <4>4
    <3>5. QED
      BY <3>3, <3>4
  <2>3. CASE \A c \in Clerks : /\ ~(CommitApprove(c) /\ req[c].card = k)
                               /\ ~(CreateLocation(c) /\ req[c].card = k)
    <3>1. orders'[k] = orders[k] /\ received'[k] = received[k]
      BY <2>3, OrdersKept
    <3>2. Paid(k)' <=> Paid(k)
      <4>1. Paid(k)' => Paid(k)
        BY <2>3, BuyerKept DEF Buys
      <4>2. ASSUME NEW c \in Clerks, Buys(c, k), Bought(c), ~(Buys(c, k)' /\ Bought(c)')
            PROVE  FALSE
        <5>1. req[c].card = k
          BY <4>2 DEF Buys
        <5>2. CommitApprove(c) \/ "died" \in flags'[k]
          BY <4>2, BuyerEnds
        <5>3. QED
          BY <1>4, <2>3, <5>1, <5>2
      <4>3. QED
        BY <4>1, <4>2
    <3>3. CASE card'[k] = card[k]
      BY <2>0, <3>1, <3>2, <3>3
    <3>4. ASSUME NEW c \in Clerks, StoreNew(c, k) PROVE Account(k)'
      <4>1. card[k].status = "NONE" /\ card'[k].status = "PENDING"
        BY <3>4, StoreNewFacts
      <4>2. ~Paid(k)
        BY <2>0, <4>1
      <4>3. QED
        BY <2>0, <3>1, <3>2, <4>1, <4>2
    <3>5. ASSUME NEW c \in Clerks, StoreExisting(c), req[c].card = k PROVE Account(k)'
      <4>1. card[k].status = "PENDING"
        BY <1>4, <3>5, RestockAssumption DEF StoreExisting, Flag, TypeOK, RequestInv, RequestOf, Proposes
      <4>2. card'[k].status = "PENDING"
        BY <3>5, <4>1, StoreExistingFacts
      <4>3. QED
        BY <2>0, <3>1, <3>2, <4>1, <4>2
    <3>6. ASSUME NEW c \in Clerks, CommitDismiss(c), k \in req[c].cards PROVE Account(k)'
      <4>1. CASE card'[k] = card[k]
        BY <3>3, <4>1
      <4>2. CASE card'[k] # card[k]
        <5>1. card'[k].status = "DISMISSED" /\ card[k].status = "PENDING" /\ ~BeingBought(c, k)
          BY <1>4, <3>6, <4>2, DismissFacts DEF Decided
        <5>2. ~Paid(k)
          BY <3>6, <5>1 DEF BeingBought, Buys, CommitDismiss
        <5>3. QED
          BY <2>0, <3>1, <5>1, <5>2
      <4>3. QED
        BY <4>1, <4>2
    <3>7. ASSUME NEW c \in Clerks, CommitDelete(c), k \in req[c].cards PROVE Account(k)'
      BY <2>0, <3>1, <3>7, DeleteFacts
    <3>8. QED
      BY <2>3, <3>3, <3>4, <3>5, <3>6, <3>7, CardKept
  <2>4. QED
    BY <2>1, <2>2, <2>3
<1>5. QED
  BY <1>1, <1>2, <1>3, <1>4 DEF BuyInv

-----------------------------------------------------------------------------
(* Theorems *)

LEMMA BoardInit == Init => BoardInv
<1> SUFFICES ASSUME Init PROVE BoardInv
  OBVIOUS
<1>1. \A c \in Clerks : req[c].op = "idle"
  BY DEF Init, Idle
<1>2. /\ \A k \in Cards : card[k].status = "NONE" /\ orders[k] = 0 /\ received[k] = 0
      /\ together = FALSE
  BY DEF Init, Blank
<1>3. Pending = {} /\ OnBoard = {}
  BY <1>2 DEF Pending, OnBoard
<1>4. RequestInv /\ TogetherInv
  BY <1>1, <1>3 DEF RequestInv, RequestOf, TogetherInv, Proposes
<1>5. BuyInv
  BY <1>1, <1>2 DEF BuyInv, Buys, Bought
<1>6. QED
  BY <1>3, <1>4, <1>5 DEF BoardInv, QuantityIsCapped, RejectionsAccumulate

(* What requests are about, who runs the graph and who buys, and what the   *)
(* cards show of it, in every state.                                        *)
THEOREM BoardInvariant == Spec => [](TypeOK /\ BoardInv)
<1>1. Init => TypeOK /\ BoardInv
  BY TypeInit, BoardInit
<1>2. TypeOK /\ BoardInv /\ [Next]_vars => (TypeOK /\ BoardInv)'
  BY TypeStep, RequestStep, TogetherStep, BuyStep, CapStep, RejectStep DEF BoardInv
<1>3. QED
  BY <1>1, <1>2, PTL DEF Spec

(* The board shows quantities in the bounds of the rule, whatever the LLM   *)
(* answers, receipts as they were bought, and all the rejections that asked *)
(* for a pending card (generate_and_store_proposal, approve_proposals).     *)
THEOREM BoardCanBeTrusted == Spec => []BoardIsSound
<1>1. BoardInv => CardRecordsReceipt
  BY DEF BoardInv, BuyInv, CardRecordsReceipt
<1>2. TypeOK /\ BoardInv => BoardIsSound
  BY <1>1 DEF BoardInv, BoardIsSound
<1>3. QED
  BY <1>2, BoardInvariant, PTL

(* There is one open card for the title, unless two restock graphs ran at   *)
(* once (the look-up of generate_and_store_proposal is not locked).         *)
THEOREM OneCardIsOpen == Spec => []OneOpenCard
<1>1. TypeOK /\ BoardInv => OneOpenCard
  <2> SUFFICES ASSUME TypeOK, BoardInv, ~together PROVE Cardinality(Pending) <= 1
    BY DEF OneOpenCard
  <2>1. \A k, m \in Pending : k = m
    BY DEF BoardInv, TogetherInv
  <2>2. CASE Pending = {}
    BY <2>2, FS_EmptySet
  <2>3. ASSUME NEW k \in Pending PROVE Cardinality(Pending) <= 1
    <3>1. Pending = {k}
      BY <2>1
    <3>2. QED
      BY <3>1, FS_Singleton
  <2>4. QED
    BY <2>2, <2>3
<1>2. QED
  BY <1>1, BoardInvariant, PTL

(* A card is bought once, and never after its dismissal, unless decisions   *)
(* overlapped or an approval died after it had created the rack.            *)
THEOREM CardsAreBoughtOnce == Spec => []BoughtOnce
<1>1. TypeOK /\ BoardInv => BoughtOnce
  BY DEF BoardInv, BuyInv, BoughtOnce
<1>2. QED
  BY <1>1, BoardInvariant, PTL

(* No decision on a card is skipped or taken back, whatever requests        *)
(* overlap (_get_pending, delete_proposals).                                *)
THEOREM CardsAreDecided == Spec => PendingIsDecided
<1> DEFINE InTurn == \A k \in Cards : card[k].status # card'[k].status =>
                       /\ card[k].status = "PENDING" => card'[k].status # "DELETED"
                       /\ card[k].status # "NONE" => card'[k].status # "PENDING"
<1>1. TypeOK /\ BoardInv /\ [Next]_vars => InTurn
  <2> SUFFICES ASSUME TypeOK, RequestInv, [Next]_vars, NEW k \in Cards,
                      card[k].status # card'[k].status
               PROVE  /\ card[k].status = "PENDING" => card'[k].status # "DELETED"
                      /\ card[k].status # "NONE" => card'[k].status # "PENDING"
    BY DEF BoardInv
  <2>1. QED
    BY StatusKept
<1> HIDE DEF InTurn
<1>2. Spec => [][InTurn]_vars
  BY <1>1, BoardInvariant, PTL DEF Spec
<1>3. QED
  BY <1>2 DEF PendingIsDecided, InTurn

-----------------------------------------------------------------------------
(* The label queue *)

Troubled(j)  == fate[j] \cap {"unreported", "printer"} # {}
Clean(j)     == fate[j] \cap {"unreported", "unstored", "shared"} = {}
ReportOf(b)  == [by |-> b, job |-> Job(b), success |-> at[b] = "acking"]

(* A bridge works on jobs that exist; it has printed what it reports as     *)
(* printed, and something went wrong with what it reports as failed.        *)
BatchOf(b) ==
  /\ \A j \in batch[b] : status[j] # "ABSENT"
  /\ at[b] \in {"ack", "acking"} => papers[Job(b)] > 0
  /\ at[b] \in {"nack", "nacking"} => Troubled(Job(b))
  /\ at[b] \in {"acking", "nacking"} => status[Job(b)] # "PENDING" \/ ReportOf(b) \in calls

BatchInv == \A b \in Bridges : BatchOf(b)

(* A report the server has taken is true, and of a job that waits, unless   *)
(* another report overtook it.                                              *)
CallsInv ==
  \A c \in calls :
    /\ status[c.job] # "ABSENT"
    /\ c.success => papers[c.job] > 0
    /\ ~c.success => Troubled(c.job)
    /\ status[c.job] # "PENDING" => "overlap" \in fate[c.job]
    /\ \A d \in calls \ {c} : d.job = c.job => "overlap" \in fate[c.job]

(* What is on record is true.                                               *)
RecordInv ==
  \A j \in Jobs : /\ status[j] = "PRINTED" => papers[j] > 0
                  /\ status[j] = "FAILED" => Troubled(j)
                  /\ status[j] = "ABSENT" => papers[j] = 0

(* A label that came out, of a job with which nothing went wrong, cannot    *)
(* come out again: one bridge has it, behind the printer, or its report is  *)
(* taken or stored.                                                         *)
PaperInv ==
  \A j \in Jobs : Clean(j) =>
    /\ \A b, d \in Bridges : j \in batch[b] /\ j \in batch[d] => b = d
    /\ papers[j] > 0 =>
         /\ papers[j] = 1
         /\ \A b \in Bridges : j \in batch[b] => Job(b) = j /\ at[b] # "send"
         /\ status[j] = "PENDING" => \/ \E b \in Bridges : j \in batch[b]
                                     \/ \E c \in calls : c.job = j

LabelInv == LabelsTypeOK /\ BatchInv /\ CallsInv /\ RecordInv /\ PaperInv

-----------------------------------------------------------------------------
(* The job a bridge works on *)

LEMMA LessThanIsWellFounded ==
  IsWellFoundedOn({ p \in Nat \X Nat : p[1] < p[2] }, Nat)
BY NatLessThanWellFounded DEF OpToRel

LEMMA OldestExists ==
  ASSUME NEW S, S \subseteq Nat, S # {}
  PROVE  \E j \in S : \A i \in S : j <= i
<1> DEFINE Less == { p \in Nat \X Nat : p[1] < p[2] }
<1>1. PICK j \in S : \A i \in S : << i, j >> \notin Less
  <2>1. IsWellFoundedOn(Less, Nat)
    BY LessThanIsWellFounded
  <2> HIDE DEF Less
  <2>2. QED
    BY <2>1, WFMin
<1>2. \A i \in S : j <= i
  <2> TAKE i \in S
  <2>1. i \in Nat /\ j \in Nat /\ << i, j >> \notin Less
    BY <1>1
  <2>2. QED
    BY <2>1
<1>3. QED
  BY <1>2

LEMMA JobIsHeld ==
  ASSUME LabelsTypeOK, NEW b \in Bridges, at[b] \in Busy
  PROVE  Job(b) \in batch[b] /\ Job(b) \in Jobs
<1>1. batch[b] # {} /\ batch[b] \subseteq Jobs
  BY DEF LabelsTypeOK
<1>2. batch[b] \subseteq Nat
  BY <1>1, LabelsAssumption DEF Jobs
<1>3. \E j \in batch[b] : \A i \in batch[b] : j <= i
  BY <1>1, <1>2, OldestExists
<1>4. Job(b) \in batch[b]
  BY <1>3 DEF Job
<1>5. QED
  BY <1>1, <1>4

LEMMA JobKept ==
  ASSUME NEW b \in Bridges, batch'[b] = batch[b]
  PROVE  Job(b)' = Job(b)
BY DEF Job

-----------------------------------------------------------------------------
(* Types *)

LEMMA LabelsTypeInit == LabelsInit => LabelsTypeOK
BY LabelsAssumption DEF LabelsInit, LabelsTypeOK, JobStatus, Places, Busy, Fates

LEMMA LabelsTypeStep == LabelsTypeOK /\ [LabelsNext]_labelVars => LabelsTypeOK'
<1> SUFFICES ASSUME LabelsTypeOK, [LabelsNext]_labelVars PROVE LabelsTypeOK'
  OBVIOUS
<1> USE DEF LabelsTypeOK, JobStatus, Places, Busy, Fates, bridge
<1>1. ASSUME NEW j \in Jobs, Enqueue(j) PROVE LabelsTypeOK'
  BY <1>1 DEF Enqueue
<1>2. ASSUME NEW c \in Calls, Store(c) PROVE LabelsTypeOK'
  BY <1>2 DEF Store, Calls
<1>3. ASSUME NEW b \in Bridges, Login(b) PROVE LabelsTypeOK'
  BY <1>3 DEF Login, Goto
<1>4. ASSUME NEW b \in Bridges, Poll(b) PROVE LabelsTypeOK'
  <2>1. Oldest \subseteq Jobs /\ Oldest # {} /\ at[b] = "poll"
    BY <1>4 DEF Poll, Oldest, Waiting
  <2>2. /\ at' = [at EXCEPT ![b] = "send"] /\ batch' = [batch EXCEPT ![b] = Oldest]
        /\ fate' \in [Jobs -> SUBSET Fates]
        /\ UNCHANGED << status, calls, expired, papers >>
    BY <1>4 DEF Poll, Goto
  <2>3. faults' \in 0..MaxFaults
    BY <1>4, LabelsAssumption DEF Poll, Fault
  <2>4. QED
    BY <2>1, <2>2, <2>3
<1>5. ASSUME NEW b \in Bridges, PollRefused(b) PROVE LabelsTypeOK'
  BY <1>5 DEF PollRefused, Goto
<1>6. ASSUME NEW b \in Bridges, Relogin(b) PROVE LabelsTypeOK'
  BY <1>6 DEF Relogin, Goto
<1>7. ASSUME NEW b \in Bridges, Send(b) PROVE LabelsTypeOK'
  BY <1>7, JobIsHeld DEF Send, Goto, Printed
<1>8. ASSUME NEW b \in Bridges, Report(b) PROVE LabelsTypeOK'
  <2>1. at[b] \in {"ack", "nack"} /\ Job(b) \in Jobs
    BY <1>8, JobIsHeld DEF Report
  <2>2. at' = [at EXCEPT ![b] = IF at[b] = "ack" THEN "acking" ELSE "nacking"]
    BY <1>8 DEF Report, Goto
  <2>3. calls' \subseteq Calls
    <3>1. [by |-> b, job |-> Job(b), success |-> at[b] = "ack"] \in Calls
      BY <2>1 DEF Calls
    <3>2. QED
      BY <1>8, <3>1 DEF Report
  <2>4. fate' = fate \/ fate' = [fate EXCEPT ![Job(b)] = @ \cup {"overlap"}]
    BY <1>8 DEF Report, Note
  <2>5. fate' \in [Jobs -> SUBSET Fates]
    BY <2>1, <2>4
  <2>6. UNCHANGED << status, batch, expired, faults, papers >>
    BY <1>8 DEF Report
  <2>7. QED
    BY <2>1, <2>2, <2>3, <2>5, <2>6
<1>9. ASSUME NEW b \in Bridges, Answered(b) PROVE LabelsTypeOK'
  BY <1>9, JobIsHeld DEF Answered, Continue, Goto
<1>10. ASSUME NEW b \in Bridges, NoAnswer(b) PROVE LabelsTypeOK'
  BY <1>10, JobIsHeld, LabelsAssumption DEF NoAnswer, Fault, Goto, Note
<1>11. ASSUME NEW b \in Bridges, ReloginFails(b) PROVE LabelsTypeOK'
  BY <1>11, LabelsAssumption DEF ReloginFails, Fault, Goto
<1>12. ASSUME NEW b \in Bridges, SendFails(b) PROVE LabelsTypeOK'
  BY <1>12, JobIsHeld, LabelsAssumption DEF SendFails, Fault, Goto, Note, Printed
<1>13. ASSUME NEW b \in Bridges, Expire(b) PROVE LabelsTypeOK'
  BY <1>13, LabelsAssumption DEF Expire, Fault
<1>14. ASSUME NEW b \in Bridges, Crash(b) PROVE LabelsTypeOK'
  BY <1>14, JobIsHeld, LabelsAssumption DEF Crash, Fault, Goto, Note
<1>15. CASE UNCHANGED labelVars
  BY <1>15 DEF labelVars
<1>16. QED
  BY <1>1, <1>2, <1>3, <1>4, <1>5, <1>6, <1>7, <1>8, <1>9, <1>10, <1>11, <1>12, <1>13, <1>14,
     <1>15 DEF LabelsNext, Work

-----------------------------------------------------------------------------
(* What no step undoes *)

Reported(s) == s \in {"PRINTED", "FAILED"}

Progress ==
  /\ \A j \in Jobs :
       /\ papers'[j] >= papers[j]
       /\ fate[j] \subseteq fate'[j]
       /\ status[j] # "ABSENT" => status'[j] # "ABSENT"
       /\ Reported(status[j]) => Reported(status'[j])
  /\ \A c \in calls : c \in calls' \/ Reported(status'[c.job])

LEMMA StepsProgress == LabelsTypeOK /\ [LabelsNext]_labelVars => Progress
<1> SUFFICES ASSUME LabelsTypeOK, [LabelsNext]_labelVars PROVE Progress
  OBVIOUS
<1> USE DEF LabelsTypeOK, Progress, Reported
<1>1. ASSUME NEW j \in Jobs, Enqueue(j) PROVE Progress
  BY <1>1 DEF Enqueue
<1>2. ASSUME NEW c \in Calls, Store(c) PROVE Progress
  BY <1>2 DEF Store, Calls
<1>3. ASSUME NEW b \in Bridges, Login(b) \/ PollRefused(b) \/ Relogin(b) \/ ReloginFails(b) \/ Expire(b)
      PROVE  Progress
  BY <1>3 DEF Login, PollRefused, Relogin, ReloginFails, Expire
<1>4. ASSUME NEW b \in Bridges, Poll(b) PROVE Progress
  BY <1>4 DEF Poll
<1>5. ASSUME NEW b \in Bridges, Send(b) PROVE Progress
  BY <1>5 DEF Send, Printed
<1>6. ASSUME NEW b \in Bridges, Report(b) PROVE Progress
  BY <1>6 DEF Report, Note
<1>7. ASSUME NEW b \in Bridges, Answered(b) PROVE Progress
  BY <1>7 DEF Answered
<1>8. ASSUME NEW b \in Bridges, NoAnswer(b) PROVE Progress
  BY <1>8 DEF NoAnswer, Note
<1>9. ASSUME NEW b \in Bridges, SendFails(b) PROVE Progress
  BY <1>9 DEF SendFails, Note, Printed
<1>10. ASSUME NEW b \in Bridges, Crash(b) PROVE Progress
  BY <1>10 DEF Crash, Note
<1>11. CASE UNCHANGED labelVars
  BY <1>11 DEF labelVars
<1>12. QED
  BY <1>1, <1>2, <1>3, <1>4, <1>5, <1>6, <1>7, <1>8, <1>9, <1>10, <1>11 DEF LabelsNext, Work

(* What holds for a bridge goes on holding while others act.                *)
LEMMA BatchFrame ==
  ASSUME LabelsTypeOK, Progress, NEW b \in Bridges, BatchOf(b),
         at'[b] = at[b], batch'[b] = batch[b], LabelsTypeOK'
  PROVE  BatchOf(b)'
<1>1. Job(b)' = Job(b) /\ ReportOf(b)' = ReportOf(b)
  BY JobKept DEF ReportOf
<1>2. batch[b] \subseteq Jobs /\ (at[b] \in Busy => Job(b) \in Jobs)
  BY JobIsHeld DEF LabelsTypeOK
<1>3. \A j \in batch'[b] : status'[j] # "ABSENT"
  BY <1>2 DEF BatchOf, Progress
<1>4. at'[b] \in {"ack", "acking"} => papers'[Job(b)] > 0
  BY <1>2 DEF BatchOf, Progress, Busy, LabelsTypeOK
<1>5. at'[b] \in {"nack", "nacking"} => Troubled(Job(b))'
  BY <1>1, <1>2 DEF BatchOf, Progress, Busy, Troubled
<1>6. ASSUME at[b] \in {"acking", "nacking"}
      PROVE  status'[Job(b)] # "PENDING" \/ ReportOf(b) \in calls'
  <2>1. Job(b) \in Jobs /\ Job(b) \in batch[b]
    BY <1>6, JobIsHeld DEF Busy
  <2>2. CASE status[Job(b)] # "PENDING"
    BY <2>1, <2>2 DEF BatchOf, Progress, Reported, LabelsTypeOK, JobStatus
  <2>3. CASE ReportOf(b) \in calls
    <3>1. ReportOf(b).job = Job(b)
      BY DEF ReportOf
    <3>2. QED
      BY <2>3, <3>1 DEF Progress, Reported
  <2>4. QED
    BY <1>6, <2>2, <2>3 DEF BatchOf
<1>7. QED
  BY <1>1, <1>3, <1>4, <1>5, <1>6 DEF BatchOf

-----------------------------------------------------------------------------
(* The parts of the invariant *)

LEMMA BatchStep ==
  ASSUME LabelsTypeOK, BatchInv, [LabelsNext]_labelVars
  PROVE  BatchInv'
<1>1. Progress /\ LabelsTypeOK'
  BY StepsProgress, LabelsTypeStep
<1>2. ASSUME NEW b \in Bridges, at'[b] = at[b], batch'[b] = batch[b]
      PROVE  BatchOf(b)'
  BY <1>1, <1>2, BatchFrame DEF BatchInv
<1>3. ASSUME NEW b \in Bridges, BatchOf(b)',
             \A d \in Bridges \ {b} : at'[d] = at[d] /\ batch'[d] = batch[d]
      PROVE  BatchInv'
  BY <1>2, <1>3 DEF BatchInv
<1>4. ASSUME UNCHANGED << at, batch >> PROVE BatchInv'
  BY <1>2, <1>4 DEF BatchInv
<1>5. ASSUME NEW b \in Bridges, at'[b] \in {"down", "poll", "relogin"}, batch'[b] = {}
      PROVE  BatchOf(b)'
  BY <1>5 DEF BatchOf
<1>6. ASSUME NEW j \in Jobs, Enqueue(j) PROVE BatchInv'
  BY <1>4, <1>6 DEF Enqueue, bridge
<1>7. ASSUME NEW c \in Calls, Store(c) PROVE BatchInv'
  BY <1>4, <1>7 DEF Store, bridge
<1>8. ASSUME NEW b \in Bridges, Login(b) \/ PollRefused(b) \/ Relogin(b) \/ ReloginFails(b)
      PROVE  BatchInv'
  <2>1. at[b] \notin Busy /\ at'[b] \in {"down", "poll", "relogin"} /\ batch' = batch
    BY <1>8 DEF Login, PollRefused, Relogin, ReloginFails, Goto, Busy, LabelsTypeOK
  <2>2. batch'[b] = {}
    BY <2>1 DEF LabelsTypeOK
  <2>3. \A d \in Bridges \ {b} : at'[d] = at[d]
    BY <1>8 DEF Login, PollRefused, Relogin, ReloginFails, Goto, LabelsTypeOK
  <2>4. QED
    BY <1>3, <1>5, <2>1, <2>2, <2>3
<1>9. ASSUME NEW b \in Bridges, Expire(b) PROVE BatchInv'
  BY <1>4, <1>9 DEF Expire
<1>10. ASSUME NEW b \in Bridges, Poll(b) PROVE BatchInv'
  <2>1. at' = [at EXCEPT ![b] = "send"] /\ batch' = [batch EXCEPT ![b] = Oldest] /\ status' = status
    BY <1>10 DEF Poll, Goto
  <2>2. \A j \in Oldest : status[j] = "PENDING"
    BY DEF Oldest, Waiting
  <2>3. BatchOf(b)'
    BY <2>1, <2>2 DEF BatchOf, LabelsTypeOK
  <2>4. QED
    BY <1>3, <2>1, <2>3 DEF LabelsTypeOK
<1>11. ASSUME NEW b \in Bridges, Send(b) \/ SendFails(b) PROVE BatchInv'
  <2>1. at[b] = "send" /\ Job(b) \in Jobs /\ batch' = batch /\ status' = status
    BY <1>11, JobIsHeld DEF Send, SendFails, Busy
  <2>2. /\ at' \in { [at EXCEPT ![b] = "ack"], [at EXCEPT ![b] = "nack"] }
        /\ at'[b] = "ack" => papers'[Job(b)] = papers[Job(b)] + 1
        /\ at'[b] = "nack" => "printer" \in fate'[Job(b)]
    BY <1>11, <2>1 DEF Send, SendFails, Goto, Printed, Note, LabelsTypeOK
  <2>3. Job(b)' = Job(b)
    BY <2>1, JobKept
  <2>4. BatchOf(b)'
    BY <2>1, <2>2, <2>3 DEF BatchOf, BatchInv, LabelsTypeOK, Troubled
  <2>5. QED
    BY <1>3, <2>1, <2>2, <2>4 DEF LabelsTypeOK
<1>12. ASSUME NEW b \in Bridges, Report(b) PROVE BatchInv'
  <2>1. at[b] \in {"ack", "nack"} /\ Job(b) \in Jobs /\ batch' = batch /\ status' = status /\ papers' = papers
    BY <1>12, JobIsHeld DEF Report, Busy
  <2>2. at' = [at EXCEPT ![b] = IF at[b] = "ack" THEN "acking" ELSE "nacking"]
    BY <1>12 DEF Report, Goto
  <2>3. Job(b)' = Job(b)
    BY <2>1, JobKept
  <2>4. at[b] = "ack" <=> at'[b] = "acking"
    BY <2>1, <2>2 DEF LabelsTypeOK
  <2>5. ReportOf(b)' = [by |-> b, job |-> Job(b), success |-> at[b] = "ack"]
    BY <2>3, <2>4 DEF ReportOf
  <2>6. status[Job(b)] # "PENDING" \/ ReportOf(b)' \in calls'
    BY <1>12, <2>5 DEF Report, Unreported
  <2>7. at[b] = "nack" => Troubled(Job(b))'
    BY <1>1, <2>1, <2>3 DEF BatchInv, BatchOf, Troubled, Progress
  <2>8. BatchOf(b)'
    BY <2>1, <2>2, <2>3, <2>6, <2>7 DEF BatchOf, BatchInv, LabelsTypeOK
  <2>9. QED
    BY <1>3, <2>1, <2>2, <2>8 DEF LabelsTypeOK
<1>13. ASSUME NEW b \in Bridges, Answered(b) PROVE BatchInv'
  <2>1. /\ at' = [at EXCEPT ![b] = IF batch[b] = {Job(b)} THEN "poll" ELSE "send"]
        /\ batch' = [batch EXCEPT ![b] = @ \ {Job(b)}]
        /\ status' = status
    BY <1>13 DEF Answered, Continue, Goto
  <2>2. BatchOf(b)'
    BY <2>1 DEF BatchOf, BatchInv, LabelsTypeOK
  <2>3. QED
    BY <1>3, <2>1, <2>2 DEF LabelsTypeOK
<1>14. ASSUME NEW b \in Bridges, NoAnswer(b) PROVE BatchInv'
  <2>1. at[b] \in Busy /\ Job(b) \in Jobs /\ status' = status /\ "unreported" \in fate'[Job(b)]
    BY <1>14, JobIsHeld DEF NoAnswer, Note, Busy, LabelsTypeOK
  <2>2. CASE at[b] \in {"ack", "acking"}
    <3>1. at' = [at EXCEPT ![b] = "nack"] /\ batch' = batch
      BY <1>14, <2>2 DEF NoAnswer, Goto
    <3>2. Job(b)' = Job(b)
      BY <3>1, JobKept
    <3>3. BatchOf(b)'
      BY <2>1, <3>1, <3>2 DEF BatchOf, BatchInv, LabelsTypeOK, Troubled
    <3>4. QED
      BY <1>3, <3>1, <3>3 DEF LabelsTypeOK
  <2>3. CASE at[b] \notin {"ack", "acking"}
    <3>1. /\ at' \in { [at EXCEPT ![b] = "relogin"], [at EXCEPT ![b] = "poll"] }
          /\ batch' = [batch EXCEPT ![b] = {}]
      BY <1>14, <2>3 DEF NoAnswer, Goto
    <3>2. QED
      BY <1>3, <1>5, <3>1 DEF LabelsTypeOK
  <2>4. QED
    BY <2>2, <2>3
<1>15. ASSUME NEW b \in Bridges, Crash(b) PROVE BatchInv'
  <2>1. at' = [at EXCEPT ![b] = "down"] /\ batch' = [batch EXCEPT ![b] = {}]
    BY <1>15 DEF Crash, Goto
  <2>2. QED
    BY <1>3, <1>5, <2>1 DEF LabelsTypeOK
<1>16. CASE UNCHANGED labelVars
  BY <1>4, <1>16 DEF labelVars, bridge
<1>17. QED
  BY <1>6, <1>7, <1>8, <1>9, <1>10, <1>11, <1>12, <1>13, <1>14, <1>15, <1>16 DEF LabelsNext, Work

LEMMA RecordStep ==
  ASSUME LabelsTypeOK, BatchInv, CallsInv, RecordInv, [LabelsNext]_labelVars
  PROVE  RecordInv'
<1>1. Progress /\ LabelsTypeOK'
  BY StepsProgress, LabelsTypeStep
<1>2. ASSUME status' = status, \A j \in Jobs : status[j] = "ABSENT" => papers'[j] = papers[j]
      PROVE  RecordInv'
  BY <1>1, <1>2 DEF RecordInv, Progress, LabelsTypeOK, Troubled
<1>3. ASSUME NEW j \in Jobs, Enqueue(j) PROVE RecordInv'
  BY <1>3 DEF Enqueue, RecordInv, Troubled, LabelsTypeOK
<1>4. ASSUME NEW c \in Calls, Store(c) PROVE RecordInv'
  <2>1. c \in calls /\ c.job \in Jobs /\ UNCHANGED << papers, fate >>
    BY <1>4 DEF Store, Calls
  <2>2. status' = [status EXCEPT ![c.job] = IF c.success THEN "PRINTED" ELSE "FAILED"]
    BY <1>4 DEF Store
  <2>3. (c.success => papers[c.job] > 0) /\ (~c.success => Troubled(c.job))
    BY <2>1 DEF CallsInv
  <2>4. QED
    BY <2>1, <2>2, <2>3 DEF RecordInv, Troubled, LabelsTypeOK
<1>5. ASSUME NEW b \in Bridges, Send(b) \/ SendFails(b) PROVE RecordInv'
  <2>1. Job(b) \in Jobs /\ status[Job(b)] # "ABSENT" /\ status' = status
    BY <1>5, JobIsHeld DEF Send, SendFails, Busy, BatchInv, BatchOf
  <2>2. papers' = papers \/ papers' = [papers EXCEPT ![Job(b)] = @ + 1]
    BY <1>5 DEF Send, SendFails, Printed
  <2>3. QED
    BY <1>2, <2>1, <2>2 DEF LabelsTypeOK
<1>6. ASSUME NEW b \in Bridges,
             \/ Login(b) \/ PollRefused(b) \/ Relogin(b) \/ ReloginFails(b) \/ Expire(b)
             \/ Poll(b) \/ Report(b) \/ Answered(b) \/ NoAnswer(b) \/ Crash(b)
      PROVE  RecordInv'
  BY <1>2, <1>6 DEF Login, PollRefused, Relogin, ReloginFails, Expire, Poll, Report, Answered, NoAnswer, Crash
<1>7. CASE UNCHANGED labelVars
  BY <1>2, <1>7 DEF labelVars
<1>8. QED
  BY <1>3, <1>4, <1>5, <1>6, <1>7 DEF LabelsNext, Work

LEMMA CallsStep ==
  ASSUME LabelsTypeOK, BatchInv, CallsInv, [LabelsNext]_labelVars
  PROVE  CallsInv'
<1>1. Progress /\ LabelsTypeOK'
  BY StepsProgress, LabelsTypeStep
<1>2. \A c \in calls : c.job \in Jobs
  BY DEF LabelsTypeOK, Calls
<1>3. ASSUME calls' = calls, status' = status PROVE CallsInv'
  BY <1>1, <1>2, <1>3 DEF CallsInv, Progress, LabelsTypeOK, Troubled
<1>4. ASSUME NEW j \in Jobs, Enqueue(j) PROVE CallsInv'
  BY <1>2, <1>4 DEF Enqueue, CallsInv, Troubled, LabelsTypeOK
<1>5. ASSUME NEW c \in Calls, Store(c) PROVE CallsInv'
  <2>1. /\ c \in calls /\ calls' = calls \ {c} /\ UNCHANGED << papers, fate >>
        /\ \A j \in Jobs \ {c.job} : status'[j] = status[j]
        /\ Reported(status'[c.job])
    BY <1>2, <1>5 DEF Store, LabelsTypeOK, Reported
  <2>2. \A d \in calls' : d.job = c.job => "overlap" \in fate[d.job]
    BY <2>1 DEF CallsInv
  <2>3. QED
    BY <1>2, <2>1, <2>2 DEF CallsInv, Troubled, Reported
<1>6. ASSUME NEW b \in Bridges, Report(b) PROVE CallsInv'
  <2> DEFINE call == [by |-> b, job |-> Job(b), success |-> at[b] = "ack"]
  <2>1. /\ at[b] \in {"ack", "nack"} /\ Job(b) \in Jobs /\ Job(b) \in batch[b]
        /\ UNCHANGED << status, papers >>
    BY <1>6, JobIsHeld DEF Report, Busy
  <2>2. /\ call.job = Job(b) /\ (call.success => at[b] = "ack") /\ (~call.success => at[b] = "nack")
    BY <2>1
  <2>3. /\ calls' = calls \/ (calls' = calls \cup {call} /\ status[Job(b)] = "PENDING")
        /\ (\E d \in calls : d.job = Job(b)) => "overlap" \in fate'[Job(b)]
    BY <1>6, <2>1 DEF Report, Unreported, Note, LabelsTypeOK
  <2>4. status[Job(b)] # "ABSENT" /\ (at[b] = "ack" => papers[Job(b)] > 0) /\ (at[b] = "nack" => Troubled(Job(b)))
    BY <2>1 DEF BatchInv, BatchOf
  <2> HIDE DEF call
  <2>5. CASE calls' = calls
    BY <1>3, <2>1, <2>5
  <2>6. CASE calls' = calls \cup {call} /\ status[Job(b)] = "PENDING"
    <3>1. \A j \in Jobs : Troubled(j) => Troubled(j)'
      BY <1>1 DEF Progress, Troubled
    <3>2. PICK new \in {call} : TRUE
      OBVIOUS
    <3>3. new = call /\ new.job = Job(b) /\ calls' = calls \cup {new}
      BY <2>2, <2>6, <3>2
    <3>4. new.success => papers'[new.job] > 0
      BY <2>1, <2>2, <2>4, <3>3
    <3>5. ~new.success => Troubled(new.job)'
      <4>1. ~new.success => Troubled(new.job)
        BY <2>2, <2>4, <3>3
      <4>2. QED
        BY <2>1, <3>1, <3>3, <4>1
    <3>6. \A c \in calls : /\ status'[c.job] # "ABSENT"
                           /\ c.success => papers'[c.job] > 0
                           /\ ~c.success => Troubled(c.job)'
                           /\ status'[c.job] # "PENDING" => "overlap" \in fate'[c.job]
      BY <1>1, <1>2, <2>1, <3>1 DEF CallsInv, Progress
    <3>7. \A c, d \in calls' : c # d /\ d.job = c.job => "overlap" \in fate'[c.job]
      BY <1>1, <1>2, <2>2, <2>3, <2>6 DEF CallsInv, Progress
    <3>8. QED
      BY <2>1, <2>6, <3>6, <3>7, <3>3, <3>4, <3>5 DEF CallsInv
  <2>7. QED
    BY <2>3, <2>5, <2>6
<1>7. ASSUME NEW b \in Bridges,
             \/ Login(b) \/ PollRefused(b) \/ Relogin(b) \/ ReloginFails(b) \/ Expire(b) \/ Poll(b)
             \/ Send(b) \/ SendFails(b) \/ Answered(b) \/ NoAnswer(b) \/ Crash(b)
      PROVE  CallsInv'
  BY <1>3, <1>7 DEF Login, PollRefused, Relogin, ReloginFails, Expire, Poll, Send, SendFails, Answered, NoAnswer, Crash
<1>8. CASE UNCHANGED labelVars
  BY <1>3, <1>8 DEF labelVars
<1>9. QED
  BY <1>4, <1>5, <1>6, <1>7, <1>8 DEF LabelsNext, Work

LEMMA PaperStep ==
  ASSUME LabelsTypeOK, BatchInv, RecordInv, PaperInv, [LabelsNext]_labelVars
  PROVE  PaperInv'
<1> DEFINE Here(j) == /\ \A c, d \in Bridges : j \in batch'[c] /\ j \in batch'[d] => c = d
                      /\ papers'[j] > 0 =>
                           /\ papers'[j] = 1
                           /\ \A c \in Bridges : j \in batch'[c] => Job(c)' = j /\ at'[c] # "send"
                           /\ status'[j] = "PENDING" => \/ \E c \in Bridges : j \in batch'[c]
                                                        \/ \E c \in calls' : c.job = j
<1>1. Progress /\ LabelsTypeOK'
  BY StepsProgress, LabelsTypeStep
<1>2. \A j \in Jobs : Clean(j)' => Clean(j)
  BY <1>1 DEF Clean, Progress
<1>3. ASSUME \A j \in Jobs : Clean(j)' => Here(j) PROVE PaperInv'
  BY <1>3 DEF PaperInv
<1>4. ASSUME UNCHANGED << papers, batch >>, calls \subseteq calls',
             \A b \in Bridges : batch[b] # {} /\ at[b] # "send" => at'[b] # "send",
             \A j \in Jobs : papers[j] > 0 /\ status'[j] = "PENDING" => status[j] = "PENDING"
      PROVE  PaperInv'
  <2>1. \A b \in Bridges : Job(b)' = Job(b)
    BY <1>4, JobKept
  <2>2. QED
    BY <1>2, <1>4, <2>1 DEF PaperInv
<1>5. ASSUME NEW b \in Bridges, batch' = [batch EXCEPT ![b] = {}],
             UNCHANGED << papers, status, calls >>,
             \A d \in Bridges \ {b} : at'[d] = at[d],
             at[b] \in Busy \ {"send"} => "unreported" \in fate'[Job(b)]
      PROVE  PaperInv'
  <2>1. /\ batch'[b] = {}
        /\ \A d \in Bridges \ {b} : batch'[d] = batch[d] /\ Job(d)' = Job(d) /\ at'[d] = at[d]
    BY <1>5, JobKept DEF LabelsTypeOK
  <2>2. ASSUME NEW j \in Jobs, Clean(j)', papers[j] > 0 PROVE j \notin batch[b]
    <3>1. j \in batch[b] => at[b] \in Busy /\ at[b] # "send" /\ Job(b) = j
      BY <1>2, <2>2 DEF PaperInv, LabelsTypeOK
    <3>2. "unreported" \notin fate'[j]
      BY <2>2 DEF Clean
    <3>3. QED
      BY <1>5, <3>1, <3>2
  <2>3. \A j \in Jobs : Clean(j)' => Here(j)
    BY <1>2, <1>5, <2>1, <2>2 DEF PaperInv
  <2>4. QED
    BY <1>3, <2>3
<1>6. ASSUME NEW j \in Jobs, Enqueue(j) PROVE PaperInv'
  <2>1. papers[j] = 0 /\ \A k \in Jobs \ {j} : status'[k] = status[k]
    BY <1>6 DEF Enqueue, RecordInv, LabelsTypeOK
  <2>2. QED
    BY <1>4, <1>6, <2>1 DEF Enqueue, bridge
<1>7. ASSUME NEW c \in Calls, Store(c) PROVE PaperInv'
  <2>1. c.job \in Jobs /\ \A k \in Jobs \ {c.job} : status'[k] = status[k]
    BY <1>7 DEF Store, Calls, LabelsTypeOK
  <2>2. status'[c.job] # "PENDING"
    BY <1>7, <2>1 DEF Store, LabelsTypeOK
  <2>3. \A b \in Bridges : Job(b)' = Job(b)
    BY <1>7, JobKept DEF Store, bridge
  <2>4. /\ UNCHANGED << papers, batch, at >> /\ calls' = calls \ {c}
    BY <1>7 DEF Store, bridge
  <2>5. \A j \in Jobs \ {c.job} : \A d \in calls : d.job = j => d \in calls'
    BY <2>4
  <2>6. \A j \in Jobs : Clean(j)' => Here(j)
    BY <1>2, <2>1, <2>2, <2>3, <2>4, <2>5 DEF PaperInv
  <2>7. QED
    BY <1>3, <2>6
<1>8. ASSUME NEW b \in Bridges,
             Login(b) \/ PollRefused(b) \/ Relogin(b) \/ ReloginFails(b) \/ Expire(b) \/ Report(b)
      PROVE  PaperInv'
  <2>1. UNCHANGED << papers, batch, status >> /\ calls \subseteq calls'
    BY <1>8 DEF Login, PollRefused, Relogin, ReloginFails, Expire, Report
  <2>2. at' = at \/ \E place \in Places \ {"send"} : at' = [at EXCEPT ![b] = place]
    BY <1>8 DEF Login, PollRefused, Relogin, ReloginFails, Expire, Report, Goto, Places, Busy
  <2>3. QED
    BY <1>4, <2>1, <2>2 DEF LabelsTypeOK
<1>9. ASSUME NEW b \in Bridges, Poll(b) PROVE PaperInv'
  <2>1. /\ batch[b] = {}
        /\ batch' = [batch EXCEPT ![b] = Oldest] /\ at' = [at EXCEPT ![b] = "send"]
        /\ UNCHANGED << status, papers, calls >>
    BY <1>9 DEF Poll, Goto, LabelsTypeOK, Busy
  <2>2. /\ batch'[b] = Oldest
        /\ \A d \in Bridges \ {b} : batch'[d] = batch[d] /\ at'[d] = at[d] /\ Job(d)' = Job(d)
    BY <2>1, JobKept DEF LabelsTypeOK
  <2>3. \A j \in Oldest : j \in Jobs /\ status[j] = "PENDING"
    BY DEF Oldest, Waiting
  <2>4. /\ \A j \in Oldest, d \in Bridges \ {b} : j \in batch[d] => ~Clean(j)'
        /\ \A j \in Oldest, c \in calls : c.job = j => ~Clean(j)'
    BY <1>9, <2>3 DEF Poll, Clean
  <2>5. \A j \in Oldest : Clean(j)' => ~(papers[j] > 0)
    BY <1>2, <2>1, <2>3, <2>4 DEF PaperInv
  <2>6. \A j \in Jobs : Clean(j)' => Here(j)
    BY <1>2, <2>1, <2>2, <2>4, <2>5 DEF PaperInv
  <2>7. QED
    BY <1>3, <2>6
<1>10. ASSUME NEW b \in Bridges, Send(b) \/ SendFails(b) PROVE PaperInv'
  <2>1. at[b] = "send" /\ Job(b) \in Jobs /\ Job(b) \in batch[b] /\ UNCHANGED << batch, status, calls >>
    BY <1>10, JobIsHeld DEF Send, SendFails, Busy
  <2>2. /\ at' = [at EXCEPT ![b] = "ack"] \/ at' = [at EXCEPT ![b] = "nack"]
        /\ papers' = papers \/ papers' = [papers EXCEPT ![Job(b)] = @ + 1]
    BY <1>10 DEF Send, SendFails, Goto, Printed
  <2>3. \A d \in Bridges : Job(d)' = Job(d)
    BY <2>1, JobKept
  <2>4. \A d \in Bridges : at'[d] # "send" \/ (d # b /\ at[d] = "send")
    BY <2>2 DEF LabelsTypeOK
  <2>5. \A j \in Jobs \ {Job(b)} : papers'[j] = papers[j]
    BY <2>2 DEF LabelsTypeOK
  <2>6. papers'[Job(b)] \in {papers[Job(b)], papers[Job(b)] + 1}
    BY <2>1, <2>2 DEF LabelsTypeOK
  <2>7. \A j \in Jobs \ {Job(b)} : Clean(j)' => Here(j)
    BY <1>2, <2>1, <2>3, <2>4, <2>5 DEF PaperInv
  <2>8. ASSUME NEW j \in Jobs, j = Job(b), Clean(j)' PROVE Here(j)
    <3>1. papers[j] = 0 /\ \A d \in Bridges : j \in batch[d] => d = b
      BY <1>2, <2>1, <2>8 DEF PaperInv, LabelsTypeOK
    <3>2. papers'[j] \in {0, 1} /\ at'[b] # "send"
      BY <2>4, <2>6, <2>8, <3>1
    <3>3. QED
      BY <2>1, <2>3, <2>8, <3>1, <3>2
  <2>9. QED
    BY <1>3, <2>1, <2>7, <2>8
<1>11. ASSUME NEW b \in Bridges, Answered(b) PROVE PaperInv'
  <2>1. /\ at[b] \in {"acking", "nacking"}
        /\ batch' = [batch EXCEPT ![b] = @ \ {Job(b)}]
        /\ UNCHANGED << status, papers, calls >>
        /\ \A d \in Bridges \ {b} : at'[d] = at[d]
    BY <1>11 DEF Answered, Continue, Goto, LabelsTypeOK
  <2>2. status[Job(b)] # "PENDING" \/ \E c \in calls : c.job = Job(b)
    BY <2>1 DEF BatchInv, BatchOf, ReportOf
  <2>3. /\ batch'[b] = batch[b] \ {Job(b)}
        /\ \A d \in Bridges \ {b} : batch'[d] = batch[d] /\ Job(d)' = Job(d)
    BY <2>1, JobKept DEF LabelsTypeOK
  <2>4. \A j \in Jobs : Clean(j)' => Here(j)
    BY <1>2, <2>1, <2>2, <2>3 DEF PaperInv
  <2>5. QED
    BY <1>3, <2>4
<1>12. ASSUME NEW b \in Bridges, NoAnswer(b) PROVE PaperInv'
  <2>1. "unreported" \in fate'[Job(b)] /\ UNCHANGED << papers, status, calls >>
    BY <1>12, JobIsHeld DEF NoAnswer, Note, Busy, LabelsTypeOK
  <2>2. CASE at[b] \in {"ack", "acking"}
    <3>1. at' = [at EXCEPT ![b] = "nack"] /\ batch' = batch
      BY <1>12, <2>2 DEF NoAnswer, Goto
    <3>2. QED
      BY <1>4, <2>1, <3>1 DEF LabelsTypeOK
  <2>3. CASE at[b] \notin {"ack", "acking"}
    <3>1. batch' = [batch EXCEPT ![b] = {}] /\ \A d \in Bridges \ {b} : at'[d] = at[d]
      BY <1>12, <2>3 DEF NoAnswer, Goto, LabelsTypeOK
    <3>2. QED
      BY <1>5, <2>1, <3>1
  <2>4. QED
    BY <2>2, <2>3
<1>13. ASSUME NEW b \in Bridges, Crash(b) PROVE PaperInv'
  <2>1. /\ batch' = [batch EXCEPT ![b] = {}] /\ UNCHANGED << papers, status, calls >>
        /\ \A d \in Bridges \ {b} : at'[d] = at[d]
    BY <1>13 DEF Crash, Goto, LabelsTypeOK
  <2>2. at[b] \in Busy \ {"send"} => "unreported" \in fate'[Job(b)]
    BY <1>13, JobIsHeld DEF Crash, Note, LabelsTypeOK
  <2>3. QED
    BY <1>5, <2>1, <2>2
<1>14. CASE UNCHANGED labelVars
  BY <1>4, <1>14 DEF labelVars, bridge
<1>15. QED
  BY <1>6, <1>7, <1>8, <1>9, <1>10, <1>11, <1>12, <1>13, <1>14 DEF LabelsNext, Work

-----------------------------------------------------------------------------
(* Theorems *)

(* The inductive invariant: no property below is inductive by itself, for   *)
(* what a report will say depends on how far its bridge has come.           *)
THEOREM LabelInvariant == LabelsSpec => []LabelInv
<1>1. LabelsInit => LabelInv
  <2> SUFFICES ASSUME LabelsInit PROVE LabelInv
    OBVIOUS
  <2>1. LabelsTypeOK
    BY LabelsTypeInit
  <2>2. BatchInv /\ CallsInv /\ RecordInv
    BY DEF LabelsInit, BatchInv, BatchOf, CallsInv, RecordInv
  <2>3. PaperInv
    BY DEF LabelsInit, PaperInv
  <2>4. QED
    BY <2>1, <2>2, <2>3 DEF LabelInv
<1>2. LabelInv /\ [LabelsNext]_labelVars => LabelInv'
  BY LabelsTypeStep, BatchStep, CallsStep, RecordStep, PaperStep DEF LabelInv
<1>3. QED
  BY <1>1, <1>2, PTL DEF LabelsSpec

(* The queue and the paper agree, up to the reports that were lost or       *)
(* stored late, however many bridges poll one queue and whatever breaks off.*)
THEOREM QueueIsTrue == LabelsSpec => []QueueTellsPaper
<1>1. LabelInv => QueueTellsPaper
  <2> SUFFICES ASSUME LabelInv PROVE QueueTellsPaper
    OBVIOUS
  <2>1. StatusTellsPaper
    BY DEF LabelInv, RecordInv, StatusTellsPaper, Troubled
  <2>2. OneLabel
    BY DEF LabelInv, PaperInv, OneLabel, Clean, LabelsTypeOK
  <2>3. QED
    BY <2>1, <2>2 DEF LabelInv, QueueTellsPaper
<1>2. QED
  BY <1>1, LabelInvariant, PTL

(* The first report of a job stands, unless a second was taken before the   *)
(* first was stored.                                                        *)
THEOREM ReportsStand == LabelsSpec => FirstReportStands
<1> DEFINE Stands == \A j \in Jobs : status[j] \in {"PRINTED", "FAILED"} /\ status'[j] # status[j]
                                       => "overlap" \in fate[j]
<1>1. LabelInv /\ [LabelsNext]_labelVars => [Stands]_labelVars
  <2> SUFFICES ASSUME LabelInv, LabelsNext, NEW j \in Jobs, status[j] \in {"PRINTED", "FAILED"},
                      status'[j] # status[j]
               PROVE  "overlap" \in fate[j]
    OBVIOUS
  <2>1. PICK c \in calls : c.job = j
    <3>1. ASSUME NEW k \in Jobs, Enqueue(k) PROVE FALSE
      BY <3>1 DEF Enqueue, LabelInv, LabelsTypeOK
    <3>2. ASSUME NEW c \in Calls, Store(c) PROVE c \in calls /\ c.job = j
      BY <3>2 DEF Store, LabelInv, LabelsTypeOK
    <3>3. ASSUME NEW b \in Bridges, Work(b) \/ ReloginFails(b) \/ SendFails(b) \/ Expire(b) \/ Crash(b)
          PROVE  FALSE
      BY <3>3 DEF Work, Login, Poll, PollRefused, Relogin, Send, Report, Answered, NoAnswer,
                  ReloginFails, SendFails, Expire, Crash
    <3>4. QED
      BY <3>1, <3>2, <3>3 DEF LabelsNext
  <2>2. QED
    BY <2>1 DEF LabelInv, CallsInv
<1>2. QED
  BY <1>1, LabelInvariant, PTL DEF LabelsSpec, FirstReportStands
=============================================================================
