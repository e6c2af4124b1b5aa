------------------------------- MODULE Restock ------------------------------
(***************************************************************************)
(* Restock proposals of one title: the restock graph that fills the cards  *)
(* of the purchasing board, and the administrators that approve, dismiss   *)
(* and delete them.                                                        *)
(*                                                                         *)
(* The graph looks for an open card, waits seconds for its LLM, and writes *)
(* the row it read; an endpoint reads a card, decides, and writes it back. *)
(* Nothing is locked in between, and SQLAlchemy writes only the columns    *)
(* whose value changed since the read.                                     *)
(***************************************************************************)
EXTENDS Integers, FiniteSets, FiniteSetsExt, Functions

CONSTANTS
  Cards, NoCard,  \* order_proposals rows that can be created (a bound)
  Clerks,         \* tasks and requests that can be in flight at once
  Answers,        \* quantities the LLM may propose
  Shortages,      \* what a picking instruction may be short of
  InitialStock,   \* new copies
  UsedInStock,    \* used copies on sale
  SafetyStock,    \* system_settings.safety_stock_threshold
  MaxSold,        \* bound: copies sold within 30 days
  MaxRequests     \* bound: number of tasks and requests

ASSUME RestockAssumption ==
  /\ NoCard \notin Cards
  /\ Answers \subseteq Int /\ Shortages \subseteq Nat \ {0}
  /\ InitialStock \in Nat /\ UsedInStock \in Nat /\ SafetyStock \in Nat
  /\ MaxSold \in Nat /\ MaxRequests \in Nat

CardStatus == { "NONE", "PENDING", "APPROVED", "DISMISSED", "DELETED" }
CardRow    == [status : CardStatus, rejected : Nat, baseline : Nat, qty : Nat]
Triggers   == { "reject", "shortage", "scan" }
Flags      == { "overlap", "overwritten", "died" }

VARIABLES
  card,      \* order_proposals
  stock,     \* inventory.quantity of the title
  located,   \* the rack for its new copies has a locations row
  sold,      \* copies sold in the last 30 days
  everSold,  \* there is an OUTBOUND log
  orders,    \* AUTO_PO orders made for each card
  received,  \* copies received for each card (INBOUND logs)
  req,       \* the task or request each clerk is serving
  requests,
  \* history
  counted,   \* rejections that were stored in each card
  flags,     \* what happened to a card besides its own requests
  together   \* two restock graphs ran at once

demand  == << sold, everSold >>
buying  == << stock, located, orders, received >>
history == << counted, flags, together >>
vars == << card, stock, located, sold, everSold, orders, received, req, requests,
           counted, flags, together >>

Idle == [op |-> "idle"]
Proposing == [op : {"propose"}, trigger : Triggers, card : Cards \cup {NoCard},
              seen : CardRow, rejected : Nat, baseline : Nat]
Approving == [op : {"order", "receive"}, card : Cards, seen : CardRow, stock : Nat,
              bought : BOOLEAN]
Deciding  == [op : {"dismiss", "delete"}, cards : SUBSET Cards]

TypeOK ==
  /\ card \in [Cards -> CardRow]
  /\ stock \in Nat /\ located \in BOOLEAN
  /\ sold \in Nat /\ everSold \in BOOLEAN
  /\ orders \in [Cards -> Nat] /\ received \in [Cards -> Nat]
  /\ DOMAIN req = Clerks
  /\ \A c \in Clerks : \/ req[c] \in {Idle, [op |-> "scan"]}
                       \/ req[c] \in Proposing \/ req[c] \in Approving \/ req[c] \in Deciding
  /\ requests \in Nat
  /\ counted \in [Cards -> Nat] /\ flags \in [Cards -> SUBSET Flags]
  /\ together \in BOOLEAN

Blank == [status |-> "NONE", rejected |-> 0, baseline |-> 0, qty |-> 0]

Init ==
  /\ card = [k \in Cards |-> Blank]
  /\ stock = InitialStock /\ located \in BOOLEAN
  /\ sold = 0 /\ everSold = FALSE
  /\ orders = [k \in Cards |-> 0] /\ received = [k \in Cards |-> 0]
  /\ req = [c \in Clerks |-> Idle]
  /\ requests = 0
  /\ counted = [k \in Cards |-> 0] /\ flags = [k \in Cards |-> {}]
  /\ together = FALSE

-----------------------------------------------------------------------------
(* The figures of collect_restock_context and validate_decision             *)

CeilDiv(n, d) == (n + d - 1) \div d
Larger(m, n)  == IF m < n THEN n ELSE m
Smaller(m, n) == IF m < n THEN m ELSE n

LeadTimeDays == 7
SafetyDays   == 7

Available == stock + UsedInStock

(* Copies that cover the lead time and the safety days at the rate of sale. *)
DemandCover == Larger(CeilDiv(sold * (LeadTimeDays + SafetyDays), 30), SafetyStock)

Baseline(rejected) == Larger(DemandCover - Available, 0) + rejected

(* Nothing is proposed for a title without demand, nor for one with enough. *)
Needed(rejected) == rejected > 0 \/ (everSold /\ Baseline(rejected) > 0)

Cap(baseline) == CeilDiv(3 * Larger(1, baseline), 2)

(* Mutants of Validated: no floor; the former ceiling, ten above the baseline.         *)
ValidatedNoFloor(answer, baseline) ==
  Smaller(IF answer = 0 THEN Larger(1, baseline) ELSE answer, Cap(baseline))
ValidatedPlusTen(answer, baseline) ==
  LET b == Larger(1, baseline) IN
  Larger(1, Smaller(IF answer = 0 THEN b ELSE answer, Larger(Cap(baseline), b + 10)))

(* The LLM's quantity (0: none) is forced into 1 .. ceil(1.5 * baseline).   *)
Validated(answer, baseline) ==
  Larger(1, Smaller(IF answer = 0 THEN Larger(1, baseline) ELSE answer, Cap(baseline)))

-----------------------------------------------------------------------------
(* Requests *)

Arrive(c) == /\ req[c] = Idle /\ requests < MaxRequests
             /\ requests' = requests + 1
Answer(c) == req' = [req EXCEPT ![c] = Idle]

(* The value of a column after an UPDATE computed from what was read.       *)
Written(read, new, current) == IF new = read THEN current ELSE new

Flag(k, fs) == flags' = [flags EXCEPT ![k] = @ \cup fs]

-----------------------------------------------------------------------------
(* generate_and_store_proposal *)

Pending == { k \in Cards : card[k].status = "PENDING" }
OnBoard == { k \in Cards : card[k].status \in {"PENDING", "APPROVED", "DISMISSED"} }

(* Mutant of Existing: no card is looked for.                               *)
NotLookedFor == {}

(* The cards the look-up may return; it takes the first of several.         *)
Existing == Pending

(* Mutant of Accumulated: each rejection is counted alone.                  *)
NotAccumulated(trigger, n, k) == n

(* Only the trigger of a rejection adds to what the card has counted.       *)
Accumulated(trigger, n, k) ==
  IF k # NoCard /\ trigger = "reject" THEN n + card[k].rejected ELSE n

(* The look-up, and the figures, of one run of the graph.                   *)
Collect(c, trigger, n) ==
  \E k \in IF Existing = {} THEN {NoCard} ELSE Existing :
    LET rejected == Accumulated(trigger, n, k) IN
    IF Needed(rejected)
    THEN /\ req' = [req EXCEPT ![c] =
              [op |-> "propose", trigger |-> trigger, card |-> k,
               seen |-> IF k = NoCard THEN Blank ELSE card[k],
               rejected |-> rejected, baseline |-> Baseline(rejected)]]
         /\ together' = (together \/ \E d \in Clerks \ {c} : req[d].op = "propose")
    ELSE Answer(c) /\ UNCHANGED together

(* generate_restock_proposal of a rejected job, one book each.              *)
ProposeReject(c) ==
  /\ Arrive(c)
  /\ Collect(c, "reject", 1)
  /\ UNCHANGED << card, buying, demand, counted, flags >>

(* A picking instruction is short of n copies.                              *)
ProposeShortage(c, n) ==
  /\ Arrive(c)
  /\ Collect(c, "shortage", n)
  /\ UNCHANGED << card, buying, demand, counted, flags >>

(* scan_safety_stock collects the titles without an open card that are sold *)
(* out, or in demand and below the line; it reaches the title in its turn.  *)
BeginScan(c) ==
  /\ Arrive(c)
  /\ Pending = {}
  /\ \/ Available = 0 /\ everSold
     \/ sold > 0 /\ Available < SafetyStock
  /\ req' = [req EXCEPT ![c] = [op |-> "scan"]]
  /\ UNCHANGED << card, buying, demand, history >>

ScanTitle(c) ==
  /\ req[c].op = "scan"
  /\ Collect(c, "scan", 0)
  /\ UNCHANGED << card, buying, demand, requests, counted, flags >>

(* The graph answers, or its fallback rule does (0): a new card is stored.  *)
StoreNew(c, k) ==
  /\ req[c].op = "propose" /\ req[c].card = NoCard
  /\ card[k].status = "NONE"
  /\ \E a \in Answers \cup {0} :
       card' = [card EXCEPT ![k] =
                 [status |-> "PENDING", rejected |-> req[c].rejected,
                  baseline |-> req[c].baseline, qty |-> Validated(a, req[c].baseline)]]
  /\ counted' = [counted EXCEPT ![k] = IF req[c].trigger = "reject" THEN 1 ELSE 0]
  /\ Flag(k, IF req[c].trigger = "shortage" THEN {"overwritten"} ELSE {})
  /\ Answer(c)
  /\ UNCHANGED << buying, demand, requests, together >>

(* ... or the card that was found is brought up to date.  Its status is not *)
(* looked at again, and not written.                                        *)
StoreExisting(c) ==
  LET r == req[c]
      k == r.card
  IN
  /\ r.op = "propose" /\ k # NoCard
  /\ card[k].status # "DELETED"
  /\ \E a \in Answers \cup {0} :
       card' = [card EXCEPT
         ![k].rejected = Written(r.seen.rejected, r.rejected, @),
         ![k].baseline = Written(r.seen.baseline, r.baseline, @),
         ![k].qty = Written(r.seen.qty, Validated(a, r.baseline), @)]
  /\ counted' = [counted EXCEPT ![k] = IF r.trigger = "reject" THEN @ + 1 ELSE @]
  /\ Flag(k, (IF card[k] # r.seen THEN {"overlap"} ELSE {})
             \cup (IF r.trigger # "reject" THEN {"overwritten"} ELSE {}))
  /\ Answer(c)
  /\ UNCHANGED << buying, demand, requests, together >>

(* The UPDATE of a card that was deleted meanwhile fails; so may the task.  *)
StoreFails(c) ==
  /\ req[c].op = "propose"
  /\ Answer(c)
  /\ UNCHANGED << card, buying, demand, requests, history >>

-----------------------------------------------------------------------------
(* approve_proposals, one card at a time *)

Quantity(row) == Larger(1, row.qty)

(* _get_pending.                                                            *)
Decidable == Pending

(* Another approval of the card is under way.                              *)
BeingBought(c, k) == \E d \in Clerks \ {c} : req[d].op \in {"order", "receive"} /\ req[d].card = k

(* The order is flushed; the rack of the new copies is looked up.           *)
BeginApprove(c, k) ==
  /\ Arrive(c)
  /\ k \in Decidable
  /\ req' = [req EXCEPT ![c] = [op |-> IF located THEN "receive" ELSE "order", card |-> k,
                                seen |-> card[k], stock |-> stock, bought |-> FALSE]]
  /\ UNCHANGED << card, buying, demand, history >>

(* get_or_create_location commits the session of its caller to create the   *)
(* rack, and with it the order; the stock is read after that.  A rack that  *)
(* appeared meanwhile is a duplicate, and the request is rolled back.       *)
CreateLocation(c) ==
  LET k == req[c].card IN
  /\ req[c].op = "order"
  /\ IF located
     THEN Answer(c) /\ UNCHANGED << located, orders >>
     ELSE /\ located' = TRUE
          /\ orders' = [orders EXCEPT ![k] = @ + 1]
          /\ req' = [req EXCEPT ![c].op = "receive", ![c].stock = stock, ![c].bought = TRUE]
  /\ UNCHANGED << card, stock, received, demand, requests, history >>

(* Mutant of Receive: the copies of the baseline are received.              *)
ReceiveBaseline(row) == Larger(1, row.baseline)

(* The copies of an approved card come in through the fast track.           *)
Receive(row) == Quantity(row)

CommitApprove(c) ==
  LET r == req[c]
      k == r.card
  IN
  /\ r.op = "receive"
  /\ card[k].status # "DELETED"
  /\ card' = [card EXCEPT ![k].status = "APPROVED"]
  /\ orders' = [orders EXCEPT ![k] = IF r.bought THEN @ ELSE @ + 1]
  /\ stock' = r.stock + Receive(r.seen)
  /\ received' = [received EXCEPT ![k] = @ + Receive(r.seen)]
  /\ Flag(k, IF card[k] # r.seen \/ BeingBought(c, k) THEN {"overlap"} ELSE {})
  /\ Answer(c)
  /\ UNCHANGED << located, demand, requests, counted, together >>

(* The request dies, or its card was deleted meanwhile: a rollback, which   *)
(* no longer reaches an order committed with the rack.                      *)
AbortApprove(c) ==
  /\ req[c].op \in {"order", "receive"}
  /\ Flag(req[c].card, IF req[c].bought THEN {"died"} ELSE {})
  /\ Answer(c)
  /\ UNCHANGED << card, buying, demand, requests, counted, together >>

-----------------------------------------------------------------------------
(* dismiss_proposals and delete_proposals, in one transaction each *)

BeginDismiss(c, ks) ==
  /\ Arrive(c)
  /\ ks # {} /\ ks \subseteq Decidable
  /\ req' = [req EXCEPT ![c] = [op |-> "dismiss", cards |-> ks]]
  /\ UNCHANGED << card, buying, demand, history >>

CommitDismiss(c) ==
  LET ks == req[c].cards IN
  /\ req[c].op = "dismiss"
  /\ IF \E k \in ks : card[k].status = "DELETED"
     THEN UNCHANGED << card, flags >>
     ELSE /\ card' = [k \in Cards |-> IF k \in ks THEN [card[k] EXCEPT !.status = "DISMISSED"]
                                      ELSE card[k]]
          /\ flags' = [k \in Cards |-> IF k \in ks /\ (card[k].status # "PENDING" \/ BeingBought(c, k))
                                       THEN flags[k] \cup {"overlap"} ELSE flags[k]]
  /\ Answer(c)
  /\ UNCHANGED << buying, demand, requests, counted, together >>

Closed == { k \in Cards : card[k].status \in {"APPROVED", "DISMISSED"} }

BeginDelete(c, ks) ==
  /\ Arrive(c)
  /\ ks # {} /\ ks \subseteq Closed
  /\ req' = [req EXCEPT ![c] = [op |-> "delete", cards |-> ks]]
  /\ UNCHANGED << card, buying, demand, history >>

CommitDelete(c) ==
  /\ req[c].op = "delete"
  /\ card' = [k \in Cards |-> IF k \in req[c].cards THEN [Blank EXCEPT !.status = "DELETED"]
                              ELSE card[k]]
  /\ Answer(c)
  /\ UNCHANGED << buying, demand, requests, history >>

-----------------------------------------------------------------------------
(* The demand *)

(* confirm_packing ships a copy and logs it.                                *)
Sell == /\ stock > 0 /\ sold < MaxSold
        /\ stock' = stock - 1 /\ sold' = sold + 1 /\ everSold' = TRUE
        /\ UNCHANGED << card, located, orders, received, req, requests, history >>

(* 30 days without a sale.                                                  *)
Quiet == /\ sold > 0 /\ sold' = 0
         /\ UNCHANGED << card, buying, everSold, req, requests, history >>

-----------------------------------------------------------------------------
Propose(c) ==
  \/ ProposeReject(c) \/ \E n \in Shortages : ProposeShortage(c, n)
  \/ BeginScan(c) \/ ScanTitle(c)
  \/ \E k \in Cards : StoreNew(c, k)
  \/ StoreExisting(c) \/ StoreFails(c)

Decide(c) ==
  \/ \E k \in Cards : BeginApprove(c, k)
  \/ CreateLocation(c) \/ CommitApprove(c) \/ AbortApprove(c)
  \/ \E ks \in SUBSET Cards : BeginDismiss(c, ks) \/ BeginDelete(c, ks)
  \/ CommitDismiss(c) \/ CommitDelete(c)

Next == Sell \/ Quiet \/ \E c \in Clerks : Propose(c) \/ Decide(c)

Spec == Init /\ [][Next]_vars

-----------------------------------------------------------------------------
(* Properties *)

(* The board has one open card for the title, whatever triggers, approvals  *)
(* and deletions follow each other, unless two restock graphs ran at once.  *)
OneOpenCard == together \/ Cardinality(Pending) <= 1

(* The LLM proposes, the rule decides: what a card asks for stays between 1 *)
(* and one and a half times the baseline it shows, whatever the LLM said    *)
(* and however the figures changed, unless stale columns were mixed.        *)
QuantityIsCapped ==
  \A k \in OnBoard : "overlap" \notin flags[k] => card[k].qty \in 1..Cap(card[k].baseline)

(* A card is bought once: two AUTO_PO orders for it only after overlapping  *)
(* decisions or an approval that died after it had created the rack; and a  *)
(* dismissed card is never bought.                                          *)
BoughtOnce ==
  \A k \in Cards : flags[k] \cap {"overlap", "died"} = {} =>
    /\ orders[k] <= 1
    /\ card[k].status = "DISMISSED" => orders[k] = 0

(* An approved card records what was ordered and received: nobody rewrites  *)
(* its figures, unless an update read it while it was still pending.        *)
CardRecordsReceipt ==
  \A k \in Cards : card[k].status = "APPROVED" /\ flags[k] \cap {"overlap", "died"} = {} =>
    orders[k] = 1 /\ received[k] = card[k].qty

(* A pending card counts all the rejections stored in it, unless a scan or  *)
(* a shortage overwrote them or two updates overlapped.                     *)
RejectionsAccumulate ==
  \A k \in Pending : flags[k] = {} => card[k].rejected = counted[k]

(* No decision is skipped: whatever requests overlap, a pending card is not *)
(* deleted, and a closed one is not reopened.                               *)
PendingIsDecided ==
  [][\A k \in Cards : card[k].status # card'[k].status =>
       /\ card[k].status = "PENDING" => card'[k].status # "DELETED"
       /\ card[k].status # "NONE" => card'[k].status # "PENDING"]_vars

(* What the board shows of a title can be relied on: the quantity to buy,   *)
(* the receipt of what was bought, and the rejections that asked for it.    *)
BoardIsSound ==
  TypeOK /\ QuantityIsCapped /\ CardRecordsReceipt /\ RejectionsAccumulate
=============================================================================
