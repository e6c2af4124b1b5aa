------------------------------ MODULE Parcels ------------------------------
(***************************************************************************)
(* How the books of a parcel are laid into boxes: the extreme-point        *)
(* heuristic of packing3d.py and the agent that calls it.  Lengths are     *)
(* tenths of a millimetre and weights grams, rounded where the code keeps  *)
(* a decimal.                                                              *)
(***************************************************************************)
EXTENDS Integers, SequencesExt

CONSTANT Catalogue  \* the boxes in use, by volume: l, w, h and g, the weight allowed

CatalogBox == [l : Nat, w : Nat, h : Nat, g : Nat]

(* No box is lower than the cushion.                                        *)
ASSUME ParcelsAssumption ==
  Catalogue \in Seq(CatalogBox) \ {<< >>} /\ \A k \in DOMAIN Catalogue : Catalogue[k].h >= 120

(* BOX_CATALOG, by volume.                                                  *)
BoxCatalog ==
  LET sizes == <<
     <<2500, 1500, 500, 2000>>, <<2500, 1500, 600, 3000>>, <<2200, 1900, 900, 5000>>, <<3000, 2000, 700, 4000>>,
     <<3000, 2000, 900, 5000>>, <<2700, 1800, 1500, 7000>>, <<3500, 2500, 1000, 7000>>, <<3500, 2500, 1400, 8500>>,
     <<3400, 2500, 2100, 10000>>, <<4000, 3000, 1600, 10000>>, <<4000, 3000, 2000, 12000>>, <<4100, 3100, 2800, 15000>>,
     <<4800, 3800, 3400, 20000>>, <<5300, 4100, 4000, 25000>>, <<6000, 4500, 4500, 30000>>, <<6500, 5000, 5000, 35000>> >>
  IN [k \in DOMAIN sizes |->
        [l |-> sizes[k][1], w |-> sizes[k][2], h |-> sizes[k][3], g |-> sizes[k][4]]]

-----------------------------------------------------------------------------
(* The agent's estimates for a book *)

Thickness(b) == Max({30, (b.pages * (IF b.colour THEN 8 ELSE 5)) \div 10
                           + IF b.hard THEN 60 ELSE 0})

Weight(b) == (b.pages * ((b.l * b.w) \div 10000) * (IF b.colour THEN 120 ELSE 80)) \div 20000
               + IF b.hard THEN 150 ELSE 50

(* Mutant of Keys: the book's own id, which two copies share.               *)
KeyById(books, i) == <<books[i].id, 0>>

(* "<id>#<position>": books may come with the same id.                      *)
Keys(books, i) == <<books[i].id, i>>

Items(books) ==
  {[key |-> Keys(books, i), n |-> i, l |-> books[i].l, w |-> books[i].w,
    h |-> Thickness(books[i]), g |-> Weight(books[i])] : i \in DOMAIN books}

(* The cushion, chosen before the box: honeycomb paper all around when      *)
(* there is a hard cover, else an air pillow on top.                        *)
Cushion(books) == IF \E i \in DOMAIN books : books[i].hard
                  THEN [side |-> 120, top |-> 120]
                  ELSE [side |-> 0, top |-> 90]

(* Mutant of Inner: the cushion above the books is forgotten.               *)
InnerUncushioned(box, cushion) ==
  [l |-> box.l - 2 * cushion.side, w |-> box.w - 2 * cushion.side, h |-> box.h, g |-> box.g]

Inner(box, cushion) ==
  [l |-> box.l - 2 * cushion.side, w |-> box.w - 2 * cushion.side,
   h |-> box.h - cushion.top, g |-> box.g]

-----------------------------------------------------------------------------
(* pack_into_box *)

Overlapping(a, al, b, bl) == Max({0, Min({a + al, b + bl}) - Max({a, b})})

Collides(p, placed) ==
  \E q \in placed : /\ Overlapping(p.x, p.l, q.x, q.l) > 0
                    /\ Overlapping(p.y, p.w, q.y, q.w) > 0
                    /\ Overlapping(p.z, p.h, q.z, q.h) > 0

(* Three quarters of the base rest on what lies directly below.             *)
Shared(p, q)      == Overlapping(p.x, p.l, q.x, q.l) * Overlapping(p.y, p.w, q.y, q.w)
Carried(p, below) == MapThenSumSet(LAMBDA q : Shared(p, q), below)

Supported(p, placed) ==
  p.z = 0 \/ 4 * Carried(p, {q \in placed : q.z + q.h = p.z}) >= 3 * p.l * p.w

Inside(p, box) == p.x + p.l <= box.l /\ p.y + p.w <= box.w /\ p.z + p.h <= box.h

Put(it, e, rotated) ==
  [key |-> it.key, x |-> e[1], y |-> e[2], z |-> e[3], h |-> it.h,
   l |-> IF rotated THEN it.w ELSE it.l, w |-> IF rotated THEN it.l ELSE it.w]

(* Mutant of Fits: a book may hang in the air.                              *)
FitsUnsupported(p, box, placed) == Inside(p, box) /\ ~Collides(p, placed)

Fits(p, box, placed) == Inside(p, box) /\ ~Collides(p, placed) /\ Supported(p, placed)

(* The lowest, then the backmost, then the leftmost point.                  *)
Before(e, f) == \/ e[3] < f[3]
                \/ e[3] = f[3] /\ e[2] < f[2]
                \/ e[3] = f[3] /\ e[2] = f[2] /\ e[1] <= f[1]

Lowest(points) == CHOOSE e \in points : \A f \in points : Before(e, f)

(* _prune_eps: a point outside the box or inside a book is dropped.         *)
Within(e, p) == /\ e[1] >= p.x /\ e[1] < p.x + p.l
                /\ e[2] >= p.y /\ e[2] < p.y + p.w
                /\ e[3] >= p.z /\ e[3] < p.z + p.h

Pruned(points, box, placed) ==
  {e \in points : /\ e[1] < box.l /\ e[2] < box.w /\ e[3] < box.h
                  /\ ~\E p \in placed : Within(e, p)}

Lay(st, it, box) ==
  LET spots == {e \in st.points : \E r \in BOOLEAN : Fits(Put(it, e, r), box, st.placed)}
      e     == Lowest(spots)
      p     == Put(it, e, ~Fits(Put(it, e, FALSE), box, st.placed))
      all   == st.placed \cup {p}
  IN IF st.g + it.g > box.g \/ spots = {}
     THEN [st EXCEPT !.left = @ \cup {it}]
     ELSE [st EXCEPT !.placed = all, !.g = @ + it.g,
                     !.points = Pruned(@ \cup {<<p.x + p.l, p.y, p.z>>, <<p.x, p.y + p.w, p.z>>,
                                               <<p.x, p.y, p.z + p.h>>}, box, all)]

(* Largest base, then heaviest, then thickest first; equals as they came.   *)
Heavier(i, j) ==
  LET fi == i.l * i.w  fj == j.l * j.w IN
  \/ fi > fj
  \/ fi = fj /\ i.g > j.g
  \/ fi = fj /\ i.g = j.g /\ i.h > j.h
  \/ fi = fj /\ i.g = j.g /\ i.h = j.h /\ i.n < j.n

Lightest(items) == CHOOSE i \in items : \A j \in items \ {i} : Heavier(j, i)

Empty == [placed |-> {}, points |-> {<<0, 0, 0>>}, g |-> 0, left |-> {}]

Pack(items, box) ==
  LET laid[s \in SUBSET items] ==
        IF s = {} THEN Empty ELSE Lay(laid[s \ {Lightest(s)}], Lightest(s), box)
  IN IF box.l <= 0 \/ box.w <= 0 \/ box.h <= 0 THEN [Empty EXCEPT !.left = items]
     ELSE laid[items]

-----------------------------------------------------------------------------
(* recommend_and_pack *)

Carton(k, r) == [box |-> k, placed |-> r.placed, left |-> r.left, g |-> r.g]

Remaining(items, placed) == {i \in items : \A p \in placed : p.key # i.key}

(* One more master carton for what is left, until nothing is left or        *)
(* nothing can be placed.                                                   *)
Split(items, cushion) ==
  LET master == Len(Catalogue)
      cartons[s \in SUBSET items] ==
        LET r == Pack(s, Inner(Catalogue[master], cushion)) IN
        IF s = {} THEN << >>
        ELSE << Carton(master, r) >>
               \o IF r.placed = {} THEN << >> ELSE cartons[Remaining(s, r.placed)]
  IN cartons[items]

(* The smallest box that takes everything, else master cartons.             *)
PackParcel(books) ==
  LET cushion == Cushion(books)
      items   == Items(books)
      Whole(k) == Pack(items, Inner(Catalogue[k], cushion)).left = {}
      whole   == {k \in DOMAIN Catalogue : Whole(k)}
      k       == CHOOSE b \in whole : \A c \in whole : b <= c
  IN IF whole = {} THEN Split(items, cushion)
     ELSE << Carton(k, Pack(items, Inner(Catalogue[k], cushion))) >>

(* calculate and evaluate: the stack of the first box, and the warning that *)
(* it is higher than the box.                                               *)
StackHeight(c) == IF c.placed = {} THEN 0
                  ELSE CHOOSE h \in {p.z + p.h : p \in c.placed} :
                         \A p \in c.placed : p.z + p.h <= h

Overflows(c, cushion) == StackHeight(c) + cushion.top > Catalogue[c.box].h
-----------------------------------------------------------------------------
(* recommend_optimal_box: the estimate behind POST /inventory/bin-pack, from *)
(* volume, weight and the largest sides alone.                              *)

Formats == { <<2250, 1520>>, <<1880, 1280>>, <<2570, 1880>> }
Format(b) == IF <<b.l, b.w>> \in Formats THEN <<b.l, b.w>> ELSE <<2250, 1520>>

Volume(l, w, h) == ((l \div 10) * (w \div 10) * h) \div 10  \* in cubic millimetres

FitsFootprint(l, w, box) == \/ l <= box.l /\ w <= box.w
                            \/ l <= box.w /\ w <= box.l

(* The book as the estimate sees it.                                        *)
Formatted(b)  == [b EXCEPT !.l = Format(b)[1], !.w = Format(b)[2]]
BookVolume(b) == Volume(Format(b)[1], Format(b)[2], Thickness(b))

TotalVolume(books) == MapThenSumSet(LAMBDA i : BookVolume(books[i]), DOMAIN books)
TotalWeight(books) == MapThenSumSet(LAMBDA i : Weight(Formatted(books[i])), DOMAIN books)
Side(books, n)     == Max({Format(books[i])[n] : i \in DOMAIN books})

Fitting(books) ==
  {k \in DOMAIN BoxCatalog :
     LET box == BoxCatalog[k] IN
     /\ FitsFootprint(Side(books, 1), Side(books, 2), box)
     /\ Volume(box.l, box.w, box.h) >= TotalVolume(books) + (3 * TotalVolume(books)) \div 20
     /\ TotalWeight(books) <= box.g}

(* Mutant of RecommendBox: what fits no box gets the first one.             *)
RecommendOrFirst(books) == IF Fitting(books) = {} THEN 1 ELSE Min(Fitting(books))

(* The smallest that fits, else the master carton.                          *)
RecommendBox(books) ==
  IF Fitting(books) = {} THEN Len(BoxCatalog) ELSE Min(Fitting(books))
=============================================================================
