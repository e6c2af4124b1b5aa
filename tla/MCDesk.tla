------------------------------ MODULE MCDesk ------------------------------
(* Values of the constants of Desk for TLC.  The catalogue is cut to three  *)
(* of its sixteen boxes, so that a few books need a second carton; the list *)
(* prices include one that the fixed discount does not divide.              *)
EXTENDS Desk

SmallCatalogue == << BoxCatalog[1], BoxCatalog[4], BoxCatalog[5] >>

Book(id, l, w, pages, hard) ==
  [id |-> id, l |-> l, w |-> w, pages |-> pages, colour |-> FALSE, hard |-> hard]

SomeBooks == { Book("B01", 2250, 1520, 600, FALSE), Book("B01", 1280, 880, 400, FALSE),
               Book("B02", 2570, 1880, 500, TRUE),  Book("B03", 1880, 1280, 300, FALSE),
               Book("B04", 3200, 2400, 200, FALSE) }

(* Up to encyclopaedias, which no box holds by the dozen of kilograms.      *)
BulkyBooks == { Book("B01", 2250, 1520, 600, FALSE), Book("B02", 2570, 1880, 20000, TRUE),
                Book("B03", 1880, 1280, 300, FALSE), Book("B04", 3200, 2400, 4000, TRUE) }

SomeLines ==
  [isNew : {TRUE}, list : {0, 10020, 10050}, score : {Unscored}, days : {1},
   category : {"Novel"}, quantity : {0, 3}]
  \cup [isNew : {FALSE}, list : {13320}, score : {15, 68, 100, Unscored}, days : {0, 365},
        category : {"Textbook", "Magazine"}, quantity : {2}]

SomeChances == { [d \in Discounts |-> 50], [d \in Discounts |-> d + 10],
                 [d \in Discounts |-> IF d = 40 THEN 90 ELSE 30] }

SomeTags == [list : {1100, 9900, 13320, 20000}, category : Categories,
             score : {Unscored, 0, 60, 85, 100}, days : {0, 120, 365, 900},
             premium : {0, 7, 20}]

Sight(box, score, label) == [box |-> box, score |-> score, label |-> label]

Frames == { << 100, 100, 300, 300 >>, << 160, 100, 360, 300 >>, << 40, 100, 240, 300 >>,
            << 0, 0, 920, 900 >>, << 0, 0, 1000, 800 >>, << 0, 0, 800, 1000 >> }
Sights(scores, labels) == { Sight(b, s, l) : b \in Frames, s \in scores, l \in labels }

(* Two sightings of the first model, at most one of each other.             *)
SomeSeen ==
  [recall : {<< >>} \cup { << a, b >> : a \in Sights({60}, {"ripped"}), b \in Sights({15, 70}, {"ripped"}) },
   precision : {<< >>} \cup { << a >> : a \in Sights({20, 65, 80}, {"ripped", "Wornout"}) },
   doodle : {<< >>} \cup { << a >> : a \in Sights({75}, {"doodle_scribble"}) }]

SomeLoaded  == { ToSet(Models), {"recall", "doodle"} }
SomeSizes   == { << 640, 480 >>, << 333, 1000 >> }
SomeRegions == [1..4 -> {-20, 300, 999, 1100}]
SomeFound   == { << 0, 0, 1000, 1000 >>, << 10, 10, 60, 500 >>, << 999, 0, 1000, 1000 >> }

Verdict(action, pace, grade) == [action |-> action, pace |-> pace, grade |-> grade]
SomeVerdicts == { Verdict("APPROVE", "fast", "MINT"), Verdict("APPROVE", "slow", "MINT"),
                  Verdict("REJECT", "fast", "MINT") }

DeskSymmetry == Permutations(Scanners) \cup Permutations(Batches)
=============================================================================
