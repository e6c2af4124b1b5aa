-------------------------------- MODULE Desk --------------------------------
(***************************************************************************)
(* The order desk: the services that answer from their arguments alone     *)
(* (order quotes, price tags, parcels, flaws in pictures) beside the fraud  *)
(* scan of the orders and reviews.  A service that keeps nothing is asked   *)
(* once, before anything else has happened.  The weekly report of the      *)
(* dashboard shares no data with them and is explored by itself.           *)
(***************************************************************************)
EXTENDS Fraud, Pricing, Parcels, Boxes, Weekly

CONSTANTS
  Lines,     \* order lines that a quote may hold
  MaxLines,
  Chances,   \* purchase probabilities the model may predict, by discount
  Tags,      \* used books whose price tag is asked for
  Books,     \* books of a parcel
  Bulky,     \* books of a parcel whose box is only estimated
  MaxBooks,
  Seen,      \* boxes that the three models see in a picture
  Loaded,    \* the sets of models a worker may have loaded
  Sizes, Regions, Found  \* of a picture with a page, in pixels; of the page; handwriting on it

(* Amounts are whole won; a score is recorded in percent or not at all.      *)
Scores    == {Unscored} \cup 0..100
OrderLine == [isNew : BOOLEAN, list : Nat, score : Scores, days : Nat,
              category : Categories, quantity : Int]
TaggedBook == [list : Nat, category : Categories, score : Scores, days : Nat, premium : Nat]

PrintedBook == [id : STRING, l : Nat \ {0}, w : Nat \ {0}, pages : Nat, colour : BOOLEAN, hard : BOOLEAN]

(* What a detector reports lies in the picture and has a surface.           *)
Frame    == { b \in [1..4 -> 0..1000] : b[1] < b[3] /\ b[2] < b[4] }
Sighting == [box : Frame, score : 0..100, label : Labels]

ASSUME DeskAssumption ==
  /\ Lines \subseteq OrderLine /\ Chances \subseteq [Discounts -> Nat] /\ Tags \subseteq TaggedBook
  /\ Books \subseteq PrintedBook /\ Bulky \subseteq PrintedBook
  /\ Seen \subseteq [ToSet(Models) -> Seq(Sighting)] /\ Loaded \subseteq SUBSET ToSet(Models)
  /\ Regions \subseteq [1..4 -> Int] /\ Sizes \subseteq (Nat \ {0}) \X (Nat \ {0}) /\ Found \subseteq Frame

VARIABLE answer  \* what was asked, and the answer

Nothing == [service |-> "none"]

DeskInit == Init /\ WeeklyInit /\ answer = Nothing

Untouched == /\ answer = Nothing /\ scans = 0 /\ now = 0
             /\ orders = {} /\ reviews = {}
             /\ suggested = [j \in Jobs |-> CHOOSE grade \in Given : TRUE]

NoWeekBegun == /\ day = 0 /\ \A d \in Days : received[d] = 0 /\ deleted[d] = 0
               /\ \A w \in Weeks : report[w] = Missing
               /\ losses = 0 /\ \A b \in Visitors \cup Batches : build[b] = NoBuild

Answer(a) == answer' = a /\ UNCHANGED vars

UpTo(S, n) == UNION {[1..m -> S] : m \in 1..n}

(* create_order_with_items: what is stored of the lines, and what they cost *)
(* as they are priced, with the trained model or with the rule.             *)
QuoteOrder(asked, predict) ==
  LET stored == [i \in DOMAIN asked |-> Resolved(asked[i])]
      lines  == [i \in DOMAIN asked |-> Priced(stored[i])]
      units == [i \in DOMAIN lines |->
                  UnitPrice(lines[i], IF predict = << >>
                                      THEN [d \in Discounts |-> RuleChance(lines[i], d)]
                                      ELSE predict)]
  IN Answer([service |-> "quote", stored |-> stored, lines |-> lines, predict |-> predict,
             units |-> units, total |-> Total(lines, units)])

AskTag(t) == Answer([service |-> "tag", tag |-> t, supply |-> SupplyPrice(t),
                     retail |-> RetailPrice(t)])

AskParcel(books) == Answer([service |-> "parcel", books |-> books,
                            cartons |-> PackParcel(books)])

AskBox(books) == Answer([service |-> "box", books |-> books, box |-> RecommendBox(books)])

AskFlaws(seen, loaded) == Answer([service |-> "flaws", seen |-> seen, loaded |-> loaded,
                                  found |-> Candidates(seen, loaded)])

AskPage(region, size, found) ==
  Answer([service |-> "page", region |-> region, size |-> size,
          found |-> Handwriting(region, size[1], size[2], found)])

Ask ==
  \/ \E lines \in UpTo(Lines, MaxLines), p \in {<< >>} \cup Chances : QuoteOrder(lines, p)
  \/ \E t \in Tags : AskTag(t)
  \/ \E books \in UpTo(Books, MaxBooks) : AskParcel(books)
  \/ \E books \in UpTo(Bulky, MaxBooks) : AskBox(books)
  \/ \E seen \in Seen, loaded \in Loaded : AskFlaws(seen, loaded)
  \/ \E region \in Regions, size \in Sizes, found \in SUBSET Found : AskPage(region, size, found)

DeskNext ==
  \/ answer = Nothing /\ NoWeekBegun /\ Next /\ UNCHANGED << answer, weeklyVars >>
  \/ Untouched /\ NoWeekBegun /\ Ask /\ UNCHANGED weeklyVars
  \/ Untouched /\ WeeklyNext /\ UNCHANGED << vars, answer >>

DeskSpec == DeskInit /\ [][DeskNext]_<<vars, answer, weeklyVars>>

-----------------------------------------------------------------------------
(* Properties *)

DeskTypeOK == TypeOK /\ WeeklyTypeOK

(* Through rates, condition, season, scarcity, age and two different        *)
(* roundings, a used book sells above what its supplier is paid for it and  *)
(* below the list price, from 1,100 won on.                                 *)
TagIsBetween ==
  answer.service = "tag" /\ answer.tag.list >= 1100 =>
    answer.supply < answer.retail /\ answer.retail < answer.tag.list

(* The total stored with an order is the sum of its lines as stored: the    *)
(* rounding of the total never moves it, nor do the quantities that the two *)
(* functions each put in for a missing or negative one.                     *)
OrderAddsUp ==
  answer.service = "quote" => answer.total = Amount(answer.stored, answer.units)

(* "The law allows 10 percent": a new book is never discounted by more,     *)
(* except by 5 won at most where its list price is no multiple of 100.      *)
NewPriceIsFixed ==
  answer.service = "quote" =>
    \A i \in DOMAIN answer.lines :
      LET l == answer.lines[i] IN
      l.isNew => /\ 10 * answer.units[i] >= 9 * l.list - 50
                 /\ l.list % 100 = 0 => 10 * answer.units[i] = 9 * l.list

(* Without the model, a worse copy is never dearer, down to a score of 15:  *)
(* below, the floor of the predicted chance makes the smallest discount of  *)
(* a hopeless book the best.                                                *)
WorseIsNotDearer ==
  answer.service = "quote" /\ answer.predict = << >> =>
    \A i \in DOMAIN answer.lines : \A s \in 15..100 :
      LET l == answer.lines[i]
          worse == [l EXCEPT !.score = s]
      IN ~l.isNew /\ s < ScoreOf(l.score) =>
           UsedPrice(worse, [d \in Discounts |-> RuleChance(worse, d)]) <= answer.units[i]

(* Whatever the model predicts, no other discount of the grid brings more.  *)
DiscountIsBest ==
  answer.service = "quote" /\ answer.predict # << >> =>
    \A i \in DOMAIN answer.lines : ~answer.lines[i].isNew =>
      LET l == answer.lines[i]  p == answer.predict IN
      \E d \in Discounts :
        /\ answer.units[i] = RoundTo(Part(l.list * Supply[l.category], 100 - d, 100), 1000) \div 100
        /\ \A e \in Discounts : p[e] * (100 - e) <= p[d] * (100 - d)

(* In every carton the books lie inside the cushioned space, none in        *)
(* another, each carried from below, within the weight allowed.             *)
ParcelIsSound ==
  answer.service = "parcel" =>
    \A c \in ToSet(answer.cartons) :
      /\ c.g <= Catalogue[c.box].g
      /\ \A p \in c.placed :
           /\ Inside(p, Inner(Catalogue[c.box], Cushion(answer.books)))
           /\ ~Collides(p, c.placed \ {p})
           /\ Supported(p, c.placed \ {p})

(* No book is laid twice, nor one that was not sent, and each as large as   *)
(* it is; every book is in exactly one carton, or in none because it fits   *)
(* no empty master carton.                                                  *)
NoBookIsLost ==
  answer.service = "parcel" =>
    LET cartons == answer.cartons
        items   == Items(answer.books)
        In(it, k) == \E p \in cartons[k].placed : p.key = it.key
    IN
    /\ \A k \in DOMAIN cartons : \A p \in cartons[k].placed :
         /\ \E it \in items : it.key = p.key /\ it.h = p.h /\ {it.l, it.w} = {p.l, p.w}
         /\ \A q \in cartons[k].placed : q.key = p.key => q = p
    /\ \A it \in items :
         \/ \E k \in DOMAIN cartons : In(it, k) /\ \A j \in DOMAIN cartons : In(it, j) => j = k
         \/ /\ \A k \in DOMAIN cartons : ~In(it, k)
            /\ it \in Last(cartons).left
            /\ Pack({it}, Inner(Last(Catalogue), Cushion(answer.books))).left = {it}

(* The stack that was laid, and the cushion above it, fit the first box:    *)
(* the agent's overflow warning is never raised, not even for a book that   *)
(* fits no box, whose stack has height 0.                                   *)
StackFitsBox ==
  answer.service = "parcel" => ~Overflows(Head(answer.cartons), Cushion(answer.books))

(* The estimated box grows with the parcel: with a book less, no larger box *)
(* is recommended, neither by footprint, volume or weight, nor where no box *)
(* fits at all.                                                             *)
FewerBooksNoLargerBox ==
  answer.service = "box" =>
    \A i \in DOMAIN answer.books : Len(answer.books) > 1 =>
      RecommendBox(RemoveAt(answer.books, i)) <= answer.box

(* No sure sighting is lost in the fusion: the candidates of its label hold *)
(* one that touches it and is as sure, unless boxes of that label nearly    *)
(* fill the picture and took it along as background.  Boxes that fill less  *)
(* than the limit of four fifths may fuse to one that fills more, like an   *)
(* upright and a flat one; below 78 percent they cannot.                    *)
SightingsSurvive ==
  answer.service = "flaws" =>
    LET pool == Pool(answer.seen, answer.loaded) IN
    \A b \in pool : b.score >= 40 =>
      \/ \E f \in answer.found : f.label = b.label /\ f.score >= b.score /\ Touch(f.box, b.box)
      \/ \E a \in pool : a.label = b.label /\ Surface(a.box) > 780000

(* Wherever the reader puts the page, what was found on it lies in the      *)
(* picture, upright, and within the page as it was cut.                     *)
HandwritingIsOnItsPage ==
  answer.service = "page" =>
    LET w == answer.size[1]  h == answer.size[2]
        page == Outward(Crop(answer.region, w, h), << 0, 0, 1000, 1000 >>, w, h)
    IN \A f \in answer.found :
         /\ 0 <= page[1] /\ page[1] <= f.box[1] /\ f.box[1] <= f.box[3]
         /\ f.box[3] <= page[3] /\ page[3] <= 1000
         /\ 0 <= page[2] /\ page[2] <= f.box[2] /\ f.box[2] <= f.box[4]
         /\ f.box[4] <= page[4] /\ page[4] <= 1000
         /\ f.ratio \in 1..100

(* What the order desk quotes is right: tags, totals and discounts.         *)
QuotesAreRight ==
  TagIsBetween /\ OrderAddsUp /\ NewPriceIsFixed /\ WorseIsNotDearer /\ DiscountIsBest

(* What is laid out in space stays where it can be: books in their boxes,   *)
(* flaws in their pictures.                                                 *)
PlacesAreRight ==
  /\ DeskTypeOK /\ ParcelIsSound /\ NoBookIsLost /\ StackFitsBox /\ FewerBooksNoLargerBox
  /\ SightingsSurvive /\ HandwritingIsOnItsPage
=============================================================================
