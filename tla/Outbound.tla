------------------------------ MODULE Outbound ------------------------------
(***************************************************************************)
(* Outbound: orders, picking instructions ("slips"), the used books (LPNs) *)
(* and the new copies they take out of the stock of one title.             *)
(*                                                                         *)
(* A request handler reads rows, decides, and writes back absolute values; *)
(* PostgreSQL runs at READ COMMITTED and nothing is locked for the read.   *)
(* So a handler is a Begin step, which records what was read, and a Commit *)
(* step, which writes from that record; only the columns whose value       *)
(* changed are written, as SQLAlchemy does.  Issuing an instruction takes  *)
(* one step per order line, and seconds for its LLM narrative.             *)
(***************************************************************************)
EXTENDS Integers, FiniteSets, FiniteSetsExt, Functions

CONSTANTS
  Items, NoItem,  \* used books; the pin of a line for new copies
  Orders,
  Basket,         \* the lines of each order
  Slips,          \* picking instructions that can be issued (a bound)
  Clerks,         \* requests that can be in flight at once
  InitialStock,   \* new copies in the inventory table
  Ops,            \* the endpoints in use besides placing and issuing
  MaxRequests     \* bound: number of requests

Lines == [pin : Items \cup {NoItem}, qty : Nat \ {0}]

Handlers == { "accept", "scan", "confirm", "revert", "complete", "delete", "receive" }
OpKinds  == Handlers \cup { "force", "abort", "recall", "scanout" }

ASSUME OutboundAssumption ==
  /\ NoItem \notin Items
  /\ Orders # {} /\ Basket \in [Orders -> SUBSET Lines]
  /\ \A o \in Orders : Basket[o] # {} /\ IsFiniteSet(Basket[o])
  /\ \A o \in Orders : \A l \in Basket[o] : l.pin # NoItem => l.qty = 1
  /\ IsFiniteSet(Slips)
  /\ InitialStock \in Nat /\ MaxRequests \in Nat
  /\ Ops \subseteq OpKinds

OrderStatus == { "ABSENT", "PENDING", "PICKING", "SHIPPED", "DELETED" }
ItemStatus  == { "IN_STOCK", "ALLOCATED", "SHIPPED", "HITL_PENDING" }
Picking     == { "PENDING", "ACCEPTED", "IN_PROGRESS" }
Open        == Picking \cup { "PICKED" }
Live        == Open \cup { "PACKED", "SHIPPED" }
SlipStatus  == Live \cup { "NONE", "DELETED" }

(* A line of an instruction: a USED line names its LPN, a NEW line may be   *)
(* OUT_OF_STOCK (short).                                                    *)
SlipLine == [item : Items \cup {NoItem}, short : BOOLEAN, picked : Nat]
IsLines(ls) == ls \in [DOMAIN ls -> SlipLine] /\ \E o \in Orders : DOMAIN ls \subseteq Basket[o]
IsSlip(r) == /\ DOMAIN r = { "status", "order", "lines", "picked", "waybill" }
             /\ r.status \in SlipStatus /\ r.order \in Orders /\ IsLines(r.lines)
             /\ r.picked \in Nat /\ r.waybill \in Nat
Blank(s) == [status |-> s, order |-> CHOOSE o \in Orders : TRUE,
             lines |-> << >>, picked |-> 0, waybill |-> 0]

VARIABLES
  order,     \* orders.status
  slip,      \* picking_instructions with their items
  item,      \* inventory_used_items.item_status
  stock,     \* inventory.quantity
  ledger,    \* sum of inventory_logs.quantity_change of the new copies
  req,       \* the request each clerk is serving
  requests,
  \* history
  itemEvents, \* what happened to an LPN besides its own orders
  raced,      \* slips written from a stale read
  events      \* what happened to the counters

rows    == << order, slip, item, stock, ledger >>
history == << itemEvents, raced, events >>
vars    == << order, slip, item, stock, ledger, req, requests, itemEvents, raced, events >>

Idle == [op |-> "idle"]
IsIssuing(r) == /\ DOMAIN r = { "op", "order", "todo", "draft", "kept" }
                /\ r.op = "issue" /\ r.order \in Orders /\ r.todo \subseteq Basket[r.order]
                /\ IsLines(r.draft) /\ DOMAIN r.draft \subseteq Basket[r.order]
                /\ r.kept \subseteq Items
IsSeen(r) == /\ DOMAIN r = { "slip", "order", "item", "stock", "issued" }
             /\ IsSlip(r.slip) /\ r.order \in OrderStatus
             /\ DOMAIN r.item \subseteq Items /\ r.item \in [DOMAIN r.item -> ItemStatus]
             /\ r.stock \in Nat /\ r.issued \in Nat
IsServing(r) == /\ DOMAIN r = { "op", "slip", "lines", "seen" }
                /\ r.op \in Handlers \ {"receive"} /\ r.slip \in Slips /\ IsSeen(r.seen)
                /\ r.lines \subseteq DOMAIN r.seen.slip.lines
IsReceiving(r) == DOMAIN r = { "op", "stock" } /\ r.op = "receive" /\ r.stock \in Nat

ItemEvents == { "overlap", "reverted", "recalled", "scannedOut", "stranded" }
Events == { "stock", "waybill", "short", "reverted" }

TypeOK ==
  /\ order \in [Orders -> OrderStatus]
  /\ DOMAIN slip = Slips /\ \A s \in Slips : IsSlip(slip[s])
  /\ item \in [Items -> ItemStatus]
  /\ stock \in Nat /\ ledger \in Int
  /\ DOMAIN req = Clerks
  /\ \A c \in Clerks : req[c] = Idle \/ IsIssuing(req[c]) \/ IsServing(req[c]) \/ IsReceiving(req[c])
  /\ requests \in Nat
  /\ itemEvents \in [Items -> SUBSET ItemEvents]
  /\ raced \subseteq Slips /\ events \subseteq Events

Init ==
  /\ order = [o \in Orders |-> "ABSENT"]
  /\ slip = [s \in Slips |-> Blank("NONE")]
  /\ item = [i \in Items |-> "IN_STOCK"]
  /\ stock = InitialStock /\ ledger = 0
  /\ req = [c \in Clerks |-> Idle]
  /\ requests = 0
  /\ itemEvents = [i \in Items |-> {}] /\ raced = {} /\ events = {}

-----------------------------------------------------------------------------
(* Slips *)

Used(s)   == { s.lines[l].item : l \in DOMAIN s.lines } \ {NoItem}
NewQty(s) == MapThenSumSet(LAMBDA l : l.qty,
                           { l \in DOMAIN s.lines : s.lines[l].item = NoItem })

(* Mutant of Total: the missing copies are counted too.                     *)
TotalWithShort(s) == MapThenSumSet(LAMBDA l : l.qty, DOMAIN s.lines)

(* total_items leaves the OUT_OF_STOCK lines out.                           *)
Total(s) == MapThenSumSet(LAMBDA l : l.qty,
                          { l \in DOMAIN s.lines : ~s.lines[l].short })

IsLive(s)   == slip[s].status \in Live
Holds(s, i) == IsLive(s) /\ i \in Used(slip[s])

Issued == Cardinality({ s \in Slips : slip[s].waybill # 0 })

-----------------------------------------------------------------------------
(* Requests *)

Count     == requests < MaxRequests /\ requests' = requests + 1
Arrive(c) == req[c] = Idle /\ Count
Answer(c) == req' = [req EXCEPT ![c] = Idle] /\ UNCHANGED requests

(* The value of a column after an UPDATE computed from what was read.       *)
Written(read, new, current) == IF new = read THEN current ELSE new

Note(is, event) == itemEvents' = [i \in Items |-> IF i \in is THEN itemEvents[i] \cup {event}
                                                  ELSE itemEvents[i]]

-----------------------------------------------------------------------------
(* Orders and their instructions *)

(* Mutant of Marked: the allocated LPNs stay on sale.                       *)
LeftOnSale(is) == item

Marked(is) == [i \in Items |-> IF i \in is THEN "ALLOCATED" ELSE item[i]]

(* create_order_with_items: _resolve_order_lines checks every line, takes   *)
(* no reservation, and the order is committed.                              *)
PlaceOrder(o) ==
  /\ order[o] = "ABSENT"
  /\ \A l \in Basket[o] : IF l.pin = NoItem THEN l.qty <= stock ELSE item[l.pin] = "IN_STOCK"
  /\ order' = [order EXCEPT ![o] = "PENDING"]
  /\ UNCHANGED << slip, item, stock, ledger, req, requests, history >>

(* issue_picking_instruction returns the instruction the order has.         *)
BeginIssue(c, o) ==
  /\ Arrive(c)
  /\ order[o] \notin {"ABSENT", "DELETED"}
  /\ \A s \in Slips : ~(IsLive(s) /\ slip[s].order = o)
  /\ req' = [req EXCEPT ![c] = [op |-> "issue", order |-> o, todo |-> Basket[o],
                                draft |-> << >>, kept |-> {}]]
  /\ UNCHANGED << rows, history >>

Issues(c, l) == req[c].op = "issue" /\ l \in req[c].todo
Drafted(c) == Used([lines |-> req[c].draft])
Draft(c, l, line) ==
  [req[c] EXCEPT !.todo = @ \ {l}, !.draft = [k \in DOMAIN @ \cup {l} |-> IF k = l THEN line ELSE @[k]]]

(* The LPNs the session reads as IN_STOCK.                                  *)
Free(c) == { i \in Items : item[i] = "IN_STOCK" } \ Drafted(c)

(* allocate_order_items, a USED line: the pinned LPN, else the first one in *)
(* stock.  The order of the first-in-first-out fallback is left out.        *)
AllocateUsed(c, l) ==
  /\ Issues(c, l) /\ l.pin # NoItem /\ Free(c) # {}
  /\ \E i \in IF l.pin \in Free(c) THEN {l.pin} ELSE Free(c) :
       req' = [req EXCEPT ![c] = Draft(c, l, [item |-> i, short |-> FALSE, picked |-> 0])]
  /\ UNCHANGED << rows, requests, history >>

(* ... and what is left goes to new copies.  A short line asks for a        *)
(* restock proposal, which commits the session when it stores one, and with *)
(* it the LPNs marked so far.                                               *)
AllocateNew(c, l) ==
  LET short == stock < l.qty IN
  /\ Issues(c, l) /\ (l.pin = NoItem \/ Free(c) = {})
  /\ \E commits \in IF short THEN BOOLEAN ELSE {FALSE} :
       LET marked == IF commits THEN Drafted(c) \ req[c].kept ELSE {}
           line == [item |-> NoItem, short |-> short, picked |-> 0]
       IN
       /\ req' = [req EXCEPT ![c] = [Draft(c, l, line) EXCEPT !.kept = @ \cup marked]]
       /\ item' = Marked(marked)
       /\ Note({ i \in marked : item[i] # "IN_STOCK" }, "overlap")
  /\ UNCHANGED << order, slip, stock, ledger, requests, raced, events >>

(* create_picking_instruction commits the header, its lines, the LPNs it    *)
(* marked and the order.  Nothing checks again that they are free.          *)
CommitIssue(c, s) ==
  LET o == req[c].order
      marked == Drafted(c) \ req[c].kept
  IN
  /\ req[c].op = "issue" /\ req[c].todo = {}
  /\ order[o] # "DELETED"
  /\ slip[s].status = "NONE"
  /\ slip' = [slip EXCEPT ![s] = [status |-> "PENDING", order |-> o, lines |-> req[c].draft,
                                  picked |-> 0, waybill |-> 0]]
  /\ item' = Marked(marked)
  /\ order' = [order EXCEPT ![o] = "PICKING"]
  /\ Note({ i \in marked : item[i] # "IN_STOCK" }, "overlap")
  /\ Answer(c)
  /\ UNCHANGED << stock, ledger, raced, events >>

(* The request fails: an exception, a duplicate instruction_no, a dead      *)
(* process, or an order deleted meanwhile.  The session is rolled back.     *)
AbortIssue(c) ==
  /\ req[c].op = "issue"
  /\ "abort" \in Ops \/ order[req[c].order] = "DELETED"
  /\ Note(req[c].kept, "stranded")
  /\ Answer(c)
  /\ UNCHANGED << rows, raced, events >>

-----------------------------------------------------------------------------
(* The handlers of an instruction *)

Confirmable == {"PICKED"} \cup IF "force" \in Ops THEN Picking ELSE {}

(* The statuses each handler accepts; in another it answers 409 (or 404).   *)
Admits ==
  [accept |-> {"PENDING"}, delete |-> {"PENDING"}, scan |-> Picking,
   confirm |-> Confirmable, revert |-> {"PACKED"}, complete |-> {"PACKED"}]

(* A line picking_scan may match.                                           *)
Scannable(l, line) == ~line.short /\ line.picked < l.qty

(* What a handler read: the instruction and its order; the LPNs, counter    *)
(* and waybills when it is going to write them.                             *)
Reads(op, s) ==
  [slip |-> slip[s], order |-> order[slip[s].order],
   item |-> Restrict(item, IF op \in {"confirm", "revert", "delete"} THEN Used(slip[s]) ELSE {}),
   stock |-> IF op \in {"confirm", "revert"} THEN stock ELSE 0,
   issued |-> IF op = "confirm" THEN Issued ELSE 0]

Begin(c, op, s) ==
  /\ op \in Ops /\ Arrive(c)
  /\ slip[s].status \in Admits[op]
  /\ \E ls \in IF op # "scan" THEN {{}}
               ELSE { {l} : l \in { k \in DOMAIN slip[s].lines : Scannable(k, slip[s].lines[k]) } } :
       req' = [req EXCEPT ![c] = [op |-> op, slip |-> s, lines |-> ls, seen |-> Reads(op, s)]]
  /\ UNCHANGED << rows, history >>

Serves(c, op, s) == req[c].op = op /\ req[c].slip = s

(* The instruction is written from the row that was read.                   *)
WriteSlip(c, s, new) == /\ slip[s].status # "DELETED"
                        /\ slip' = [slip EXCEPT ![s] = new]
                        /\ raced' = IF slip[s] # req[c].seen.slip THEN raced \cup {s} ELSE raced

(* Its LPNs get the status `to', unless they were read with it; requests    *)
(* overlapped when an LPN is not as it was read, or the instruction gone.   *)
WriteItems(c, is, to) ==
  LET seen == req[c].seen.item
      gone == slip[req[c].slip].status = "DELETED" IN
  /\ item' = [i \in Items |-> IF i \in is THEN Written(seen[i], to, item[i]) ELSE item[i]]
  /\ itemEvents' = [i \in Items |->
       itemEvents[i] \cup (IF i \in is /\ (gone \/ item[i] # seen[i]) THEN {"overlap"} ELSE {})
                     \cup (IF i \in is /\ req[c].op = "revert" THEN {"reverted"} ELSE {})]

(* An UPDATE of a row that is gone fails the request.                       *)
Vanished(c, s) ==
  /\ req[c].op \in Handlers \ {"delete", "receive"} /\ req[c].slip = s
  /\ slip[s].status = "DELETED"
  /\ Answer(c)
  /\ UNCHANGED << rows, history >>

Accept(c, s) ==
  /\ Serves(c, "accept", s)
  /\ WriteSlip(c, s, [slip[s] EXCEPT !.status = "ACCEPTED"])
  /\ Answer(c)
  /\ UNCHANGED << order, item, stock, ledger, itemEvents, events >>

(* picking_scan: the line and the header count one more copy.               *)
Scan(c, s) ==
  LET seen == req[c].seen.slip
      picked == seen.picked + 1
      status == IF picked >= Total(seen) THEN "PICKED" ELSE "IN_PROGRESS"
  IN
  /\ Serves(c, "scan", s)
  /\ \E l \in req[c].lines :
       WriteSlip(c, s, [slip[s] EXCEPT !.lines[l].picked = seen.lines[l].picked + 1,
                                       !.picked = picked,
                                       !.status = Written(seen.status, status, @)])
  /\ Answer(c)
  /\ UNCHANGED << order, item, stock, ledger, itemEvents, events >>

(* Mutant of NextWaybill: shipped parcels are counted instead.              *)
NextOfShipped(c) == Cardinality({ s \in Slips : slip[s].status = "SHIPPED" }) + 1

(* The waybill of a parcel is numbered by the waybills there are.           *)
NextWaybill(c) == req[c].seen.issued + 1

(* Mutant of Deducted: the shortage is deducted too.                        *)
DeductedInFull(available, qty) == qty

(* New copies are taken as far as they go.                                  *)
Deducted(available, qty) == IF available < qty THEN available ELSE qty

WriteStock(c, new) == stock' = Written(req[c].seen.stock, new, stock)
StockRace(c) == IF stock # req[c].seen.stock THEN {"stock"} ELSE {}

(* confirm_packing: the LPNs are SHIPPED, the new copies deducted, and the  *)
(* inventory log says what the lines asked for.                             *)
Confirm(c, s) ==
  LET seen == req[c].seen
      qty == NewQty(seen.slip)
      deducted == Deducted(seen.stock, qty)
  IN
  /\ Serves(c, "confirm", s)
  /\ WriteItems(c, Used(seen.slip), "SHIPPED")
  /\ WriteStock(c, seen.stock - deducted)
  /\ ledger' = ledger - qty
  /\ WriteSlip(c, s, [slip[s] EXCEPT !.status = "PACKED", !.waybill = NextWaybill(c)])
  /\ events' = events \cup StockRace(c) \cup (IF deducted < qty THEN {"short"} ELSE {})
                      \cup (IF Issued # seen.issued THEN {"waybill"} ELSE {})
  /\ Answer(c)
  /\ UNCHANGED order

(* Mutant of GivenBack: one copy per line.                                  *)
GivenBackPerLine(s) == Cardinality({ l \in DOMAIN s.lines : s.lines[l].item = NoItem })

(* The new copies a revert puts back: all those the lines asked for.        *)
GivenBack(s) == NewQty(s)

(* revert_packing: back to PICKED; the LPNs go back on sale, and the stock  *)
(* gets the quantities of the lines.                                        *)
Revert(c, s) ==
  LET seen == req[c].seen
      shipped == { i \in Used(seen.slip) : seen.item[i] = "SHIPPED" }
  IN
  /\ Serves(c, "revert", s)
  /\ WriteItems(c, shipped, "IN_STOCK")
  /\ WriteStock(c, seen.stock + GivenBack(seen.slip))
  /\ ledger' = ledger + NewQty(seen.slip)
  /\ WriteSlip(c, s, [slip[s] EXCEPT !.status = "PICKED", !.waybill = 0])
  /\ events' = events \cup StockRace(c) \cup {"reverted"}
  /\ Answer(c)
  /\ UNCHANGED order

(* complete_packing: the instruction and its order are SHIPPED.             *)
Complete(c, s) ==
  /\ Serves(c, "complete", s)
  /\ WriteSlip(c, s, [slip[s] EXCEPT !.status = "SHIPPED"])
  /\ order' = [order EXCEPT ![slip[s].order] = Written(req[c].seen.order, "SHIPPED", @)]
  /\ Answer(c)
  /\ UNCHANGED << item, stock, ledger, itemEvents, events >>

KeepAllocated(c, is) == UNCHANGED << item, itemEvents >>

(* The LPNs of a deleted instruction go back on sale.                       *)
ReleaseItems(c, is) == WriteItems(c, is, "IN_STOCK")

(* Mutant of OrderAfter: the row of the instruction goes, its order stays.  *)
OrderLeft(c, o, orphan) == order[o]

(* The order is PENDING again, and goes too when no other instruction       *)
(* refers to it.                                                            *)
OrderAfter(c, o, orphan) ==
  IF orphan THEN "DELETED" ELSE Written(req[c].seen.order, "PENDING", order[o])

(* delete_picking_instruction; a repeated one fails on the vanished order.  *)
Delete(c, s) ==
  LET seen == req[c].seen
      o == seen.slip.order
      orphan == \A t \in Slips \ {s} : ~(IsLive(t) /\ slip[t].order = o)
  IN
  /\ Serves(c, "delete", s)
  /\ IF order[o] = "DELETED"
     THEN UNCHANGED << order, slip, item, itemEvents, raced >>
     ELSE /\ ReleaseItems(c, Used(seen.slip))
          /\ slip' = [slip EXCEPT ![s] = Blank("DELETED")]
          /\ raced' = IF slip[s] # seen.slip THEN raced \cup {s} ELSE raced
          /\ order' = [order EXCEPT ![o] = OrderAfter(c, o, orphan)]
  /\ Answer(c)
  /\ UNCHANGED << stock, ledger, events >>

-----------------------------------------------------------------------------
(* The rest of the warehouse *)

(* fasttrack_new_stock_inbound: one new copy.                               *)
BeginReceive(c) ==
  /\ "receive" \in Ops /\ Arrive(c)
  /\ req' = [req EXCEPT ![c] = [op |-> "receive", stock |-> stock]]
  /\ UNCHANGED << rows, history >>

CommitReceive(c) ==
  /\ req[c].op = "receive"
  /\ stock' = req[c].stock + 1 /\ ledger' = ledger + 1
  /\ events' = events \cup IF stock # req[c].stock THEN {"stock"} ELSE {}
  /\ Answer(c)
  /\ UNCHANGED << order, slip, item, itemEvents, raced >>

(* complete_outbound: the scanned LPN is SHIPPED, whoever holds it.         *)
ScanOut(i) ==
  /\ "scanout" \in Ops /\ item[i] # "SHIPPED" /\ Count
  /\ item' = [item EXCEPT ![i] = "SHIPPED"]
  /\ Note({i}, "scannedOut")
  /\ UNCHANGED << order, slip, stock, ledger, req, raced, events >>

(* recall_inventory_to_hitl takes an LPN whatever its status, and the       *)
(* approval of its job puts it back into stock.                             *)
Recall(i) ==
  /\ "recall" \in Ops /\ item[i] # "HITL_PENDING" /\ "recalled" \notin itemEvents[i] /\ Count
  /\ item' = [item EXCEPT ![i] = "HITL_PENDING"]
  /\ Note({i}, "recalled")
  /\ UNCHANGED << order, slip, stock, ledger, req, raced, events >>

Reapprove(i) ==
  /\ item[i] = "HITL_PENDING"
  /\ item' = [item EXCEPT ![i] = "IN_STOCK"]
  /\ UNCHANGED << order, slip, stock, ledger, req, requests, history >>

(* Mutant of OfferedUsed: a list of what cannot be sold, without the sold.  *)
OfferedUnlessLocked(own) == { i \in Items : item[i] \notin {"ALLOCATED", "HITL_PENDING"} \/ i \in own }

(* get_available_books, for a new order or for an instruction that is       *)
(* opened again: the LPNs on sale and its own, ...                          *)
OfferedUsed(own) == { i \in Items : item[i] = "IN_STOCK" \/ i \in own }

(* ... and the new copies with those of its own lines, packed or not.       *)
OfferedNew(lines) == stock + NewQty(lines)

-----------------------------------------------------------------------------
Issue(c) ==
  \/ \E o \in Orders : \/ BeginIssue(c, o)
                     \/ \E l \in Basket[o] : AllocateUsed(c, l) \/ AllocateNew(c, l)
  \/ \E s \in Slips : CommitIssue(c, s)
  \/ AbortIssue(c)

Handle(c, s) ==
  \/ \E op \in DOMAIN Admits : Begin(c, op, s)
  \/ Accept(c, s) \/ Scan(c, s) \/ Confirm(c, s) \/ Revert(c, s)
  \/ Complete(c, s) \/ Delete(c, s) \/ Vanished(c, s)

Next ==
  \/ \E o \in Orders : PlaceOrder(o)
  \/ \E c \in Clerks : Issue(c) \/ BeginReceive(c) \/ CommitReceive(c)
  \/ \E c \in Clerks, s \in Slips : Handle(c, s)
  \/ \E i \in Items : ScanOut(i) \/ Recall(i) \/ Reapprove(i)

Spec == Init /\ [][Next]_vars

-----------------------------------------------------------------------------
(* Properties *)

(* No LPN is locked for ever: one that is ALLOCATED is held by an open      *)
(* instruction, or by a request that is still issuing one, unless that      *)
(* request died after the restock agent had committed its session.          *)
AllocationIsHeld ==
  \A i \in Items : item[i] = "ALLOCATED" /\ "stranded" \notin itemEvents[i] =>
    \/ \E s \in Slips : slip[s].status \in Open /\ i \in Used(slip[s])
    \/ \E c \in Clerks : req[c].op = "issue" /\ i \in req[c].kept

(* One physical book is promised to one parcel: two instructions hold it    *)
(* only after overlapping requests, a revert, a recall or an unlinked scan. *)
PromisedOnce ==
  \A i \in Items : itemEvents[i] = {} => Cardinality({ s \in Slips : Holds(s, i) }) <= 1

(* The order desk is offered no book that is promised to a parcel or went   *)
(* out with one; an instruction that is opened again is shown its own books *)
(* and no other's, and, once it is packed, all its new copies.              *)
OffersAreFree ==
  LET FreeFor(is, mine) == \A i \in is, t \in Slips : itemEvents[i] = {} /\ Holds(t, i) => t \in mine
  IN /\ FreeFor(OfferedUsed({}), {})
     /\ \A s \in Slips : IsLive(s) =>
          /\ FreeFor(OfferedUsed(Used(slip[s])), {s})
          /\ slip[s].status = "PACKED" => OfferedNew(slip[s]) >= NewQty(slip[s])

(* An order is never left PICKING without an instruction, whatever requests *)
(* overlap: deleting the instruction restores the order.                    *)
OrderNeverFloats ==
  \A o \in Orders : order[o] = "PICKING" => \E s \in Slips : IsLive(s) /\ slip[s].order = o

(* The inventory log explains the counter of the new copies, unless a       *)
(* shortage was shipped or two updates of the counter overlapped.           *)
LedgerExplainsStock ==
  events \cap {"stock", "short"} = {} => stock = InitialStock + ledger

(* Two parcels bear different waybills, unless a packing was reverted, two  *)
(* confirmations overlapped, or a stale request took a packed instruction   *)
(* back (and it was confirmed again).                                       *)
WaybillsIdentify ==
  events \cap {"waybill", "reverted"} = {} /\ raced = {} =>
    \A s, t \in Slips : s # t /\ slip[s].waybill # 0 => slip[s].waybill # slip[t].waybill

(* An instruction whose available copies are all scanned is handed to       *)
(* packing: its missing copies do not hold it up, unless scans overlapped.  *)
ScansComplete ==
  \A s \in Slips \ raced :
    LET available == { l \in DOMAIN slip[s].lines : ~slip[s].lines[l].short }
    IN slip[s].status \in Picking /\ available # {} =>
         \E l \in available : slip[s].lines[l].picked < l.qty

(* The warehouse is sound between any two requests: the types hold, no      *)
(* allocated LPN and no PICKING order is left without its instruction, and  *)
(* waybills and scans do what packing relies on.                            *)
WarehouseIsSound ==
  TypeOK /\ OrderNeverFloats /\ AllocationIsHeld /\ WaybillsIdentify /\ ScansComplete
=============================================================================
