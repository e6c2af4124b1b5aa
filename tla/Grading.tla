------------------------------ MODULE Grading -------------------------------
(***************************************************************************)
(* The deterministic part of a judgement: what the defects reported for a  *)
(* book cost it (the UBCI matrix), which reports cannot be believed, and   *)
(* the grade a score stands for. No state, no LLM.                         *)
(*                                                                         *)
(* A defect is a record; its box is in the 0..1000 coordinates of its      *)
(* picture, and NoBox when the reader gave none. A report that names no    *)
(* picture is one of picture 0. A list of defects is a set here: nothing   *)
(* below depends on the order, except which of two fatal defects is named  *)
(* first.                                                                  *)
(***************************************************************************)
EXTENDS Integers, FiniteSets, FiniteSetsExt

NoBox == << >>
X1(d) == d.box[1]
Y1(d) == d.box[2]
X2(d) == d.box[3]
Y2(d) == d.box[4]
HasBox(d) == d.box # NoBox
Least(a, b) == IF a <= b THEN a ELSE b
Most(a, b)  == IF a >= b THEN a ELSE b

-----------------------------------------------------------------------------
(* Areas.                                                                   *)
Area(b) == (b[3] - b[1]) * (b[4] - b[2])

Overlap(a, b) ==
  Most(0, Least(a[3], b[3]) - Most(a[1], b[1]))
    * Most(0, Least(a[4], b[4]) - Most(a[2], b[2]))

(* The two boxes' intersection is at least pct % of their union.            *)
SameBox(a, b, pct) ==
  /\ a # NoBox /\ b # NoBox /\ Overlap(a, b) > 0
  /\ Overlap(a, b) * 100 >= pct * (Area(a) + Area(b) - Overlap(a, b))

(* The reader may swap the two ends of a box.                               *)
Upright(b) == << Least(b[1], b[3]), Least(b[2], b[4]), Most(b[1], b[3]), Most(b[2], b[4]) >>

(* round() of Python: a half goes to the even neighbour.                    *)
Percent(area) ==
  LET q == area \div 10000
      r == area % 10000
  IN  IF r > 5000 \/ (r = 5000 /\ q % 2 = 1) THEN q + 1 ELSE q

(* The share of the picture a defect covers: the reader's own figure, else  *)
(* the area of the box, else a default.                                     *)
EffectiveRatio(d, default) ==
  IF d.ratio > 0 THEN d.ratio
  ELSE IF ~HasBox(d) \/ X2(d) <= X1(d) \/ Y2(d) <= Y1(d) THEN default
  ELSE Most(1, Percent(Area(d.box)))

-----------------------------------------------------------------------------
(* The matrix: points for a share below 5 %, below 15 %, and above.         *)
Matrix ==
  [ SCRATCH |-> << 2, 5, 10 >>,  TEAR   |-> << 5, 10, 15 >>, CRUSH     |-> << 3, 5, 10 >>,
    STICKER |-> << 2, 3, 5 >>,   SPINE  |-> << 5, 5, 10 >>,  BINDING   |-> << 10, 10, 10 >>,
    STAIN   |-> << 5, 10, 20 >>, WEAR   |-> << 3, 5, 10 >>,  SIGNATURE |-> << 10, 10, 10 >>,
    STAMP   |-> << 15, 15, 15 >>, MISC  |-> << 2, 5, 8 >> ]
DiscolorByLevel == << 2, 5, 10 >>
EdgeWearStep == 2
EdgeWearCap  == 15
WorkbookCap  == 15
FatalShare   == 15

(* What a reader or a detector may report.                                  *)
Kinds    == DOMAIN Matrix \cup { "WET", "DOODLE", "DISCOLOR" }
BoxType  == Int \X Int \X Int \X Int
FlawType ==
  [ type : Kinds, ratio : Int, box : {NoBox} \cup BoxType, image : Int, level : Int, pages : Int,
    overlap : BOOLEAN, conf : Int, suspect : BOOLEAN, copied : BOOLEAN, ungrounded : BOOLEAN ]

Tier(kind, ratio) ==
  Matrix[kind][IF ratio < 5 THEN 1 ELSE IF ratio < 15 THEN 2 ELSE 3]

Weighted(points, d) == IF d.overlap THEN (points * 3) \div 2 ELSE points

-----------------------------------------------------------------------------
(* Edge wear counts corners of the book, not reports: the same corner shows *)
(* in the front picture (0), mirrored in the back picture (1), and without  *)
(* a side in any other picture.                                             *)
Worn(ds) == { d \in ds : d.type = "WEAR" /\ ~d.suspect }

RowOf(d) == IF ~HasBox(d) THEN "MID"
            ELSE IF Y1(d) + Y2(d) < 666 THEN "TOP"
            ELSE IF Y1(d) + Y2(d) > 1334 THEN "BOTTOM" ELSE "MID"

SideOf(d) == IF (X1(d) + X2(d) < 1000) <=> (d.image = 0) THEN "L" ELSE "R"

CoverCorners(ds) ==
  { << RowOf(d), SideOf(d) >> : d \in { e \in Worn(ds) : HasBox(e) /\ e.image \in {0, 1} } }

LooseRows(ds) == { RowOf(d) : d \in { e \in Worn(ds) : ~(HasBox(e) /\ e.image \in {0, 1}) } }

WornCorners(ds) ==
  CoverCorners(ds)
    \cup { << r, "SIDE" >> : r \in LooseRows(ds) \ { c[1] : c \in CoverCorners(ds) } }

WearRatio(ds) == Max({0} \cup { EffectiveRatio(d, 0) : d \in Worn(ds) })

WearDeduction(ds) ==
  IF Worn(ds) = {} THEN 0
  ELSE Least(EdgeWearCap, Tier("WEAR", WearRatio(ds))
                           + (Most(1, Cardinality(WornCorners(ds))) - 1) * EdgeWearStep)

-----------------------------------------------------------------------------
(* Handwriting counts once in a workbook, and page by page elsewhere.       *)
Writing(d) == Weighted(IF d.pages > 5 THEN 15 ELSE 10, d)

DoodleDeduction(ds, workbook) ==
  LET written == { d \in ds : d.type = "DOODLE" /\ ~d.suspect }
  IN  IF workbook THEN IF written = {} THEN 0 ELSE WorkbookCap
      ELSE MapThenSumSet(Writing, written)

(* A defect that is charged by itself.                                      *)
SingleDeduction(d) ==
  IF d.type \in {"WEAR", "DOODLE", "WET"} \/ d.suspect THEN 0
  ELSE CASE d.type = "STAIN"    -> Tier("STAIN", EffectiveRatio(d, 5))
         [] d.type = "DISCOLOR" -> DiscolorByLevel[Least(3, Most(1, d.level))]
         [] OTHER               -> Weighted(Tier(d.type, EffectiveRatio(d, 5)), d)

Deduction(ds, workbook) ==
  WearDeduction(ds) + DoodleDeduction(ds, workbook) + MapThenSumSet(SingleDeduction, ds)

(* Water damage and a broken binding end the assessment.                    *)
Fatal(ds) ==
  \E d \in ds : /\ ~d.suspect
                /\ \/ d.type = "WET"
                   \/ d.type = "BINDING" /\ EffectiveRatio(d, 5) >= FatalShare

(* Mutant of Score: a fatal flaw costs 100 points, below zero.              *)
FatalCosts100(ds, workbook) == 100 - Deduction(ds, workbook) - (IF Fatal(ds) THEN 100 ELSE 0)

Score(ds, workbook) == IF Fatal(ds) THEN 0 ELSE Most(0, 100 - Deduction(ds, workbook))

-----------------------------------------------------------------------------
(* Reports that cannot be believed: figures copied from the detector or all *)
(* alike, and boxes that were made up (a full frame, the same box in two    *)
(* pictures, a staircase of equal boxes).                                   *)
FromDetector(d, candidates) ==
  \E c \in candidates : c.image = d.image /\ SameBox(d.box, c.box, 90)

Alike(ds, candidates) ==
  LET own == { d \in ds : ~FromDetector(d, candidates) }
  IN  Cardinality(own) > 1 /\ Cardinality({ d.conf : d \in own }) = 1

Copied(d, ds, candidates) ==
  \/ d.conf \in { c.conf : c \in candidates }
  \/ ~FromDetector(d, candidates) /\ Alike(ds, candidates)

FullFrame(d) == d.type \notin {"WET", "DISCOLOR"} /\ Area(d.box) >= 880000

Staircase(boxes) ==
  \E a, b \in boxes :
    boxes = { << a[1] + i * (b[1] - a[1]), a[2] + i * (b[2] - a[2]),
                 a[3] + i * (b[1] - a[1]), a[4] + i * (b[2] - a[2]) >>
                : i \in 0..(Cardinality(boxes) - 1) }

(* Mutant of Ungrounded: only a full frame is suspicious.                   *)
OnlyFullFrame(d, ds, candidates) == HasBox(d) /\ ~FromDetector(d, candidates) /\ FullFrame(d)

Ungrounded(d, ds, candidates) ==
  LET own   == { e \in ds : HasBox(e) /\ ~FromDetector(e, candidates) }
      sized == { e.box : e \in { f \in own : /\ X2(f) - X1(f) = X2(d) - X1(d)
                                              /\ Y2(f) - Y1(f) = Y2(d) - Y1(d) } }
  IN  /\ d \in own
      /\ \/ FullFrame(d)
         \/ \E e \in own : e.box = d.box /\ e.image # d.image
         \/ Cardinality(sized) > 2 /\ Staircase(sized)

(* Mutant of Sound: a reading without a charge passes.                      *)
SoundAtFullScore(ds, images, score) ==
  /\ \A d \in ds : /\ HasBox(d) /\ ~d.copied /\ ~d.ungrounded
                   /\ images > 0 => d.image \in 0..(images - 1)
  /\ ds = {} => score >= 100

(* Critic stage A: the reading and the score must tell the same story.      *)
Sound(ds, images, score) ==
  /\ \A d \in ds : /\ HasBox(d) /\ ~d.copied /\ ~d.ungrounded
                   /\ images > 0 => d.image \in 0..(images - 1)
  /\ ds # {} => score # 100
  /\ ds = {} => score >= 100

-----------------------------------------------------------------------------
(* Grades.                                                                  *)
Bands == [MINT |-> << 95, 100 >>, GOOD |-> << 85, 94 >>, NORMAL |-> << 65, 84 >>, REJECT |-> << 0, 64 >>]
NoScore == -1

GradeOf(score) ==
  IF score = NoScore THEN "NORMAL"
  ELSE CHOOSE g \in DOMAIN Bands : Bands[g][1] <= score /\ score <= Bands[g][2]

(* The score a human's grade leaves on the row.                             *)
ClampToGrade(score, grade) ==
  IF score = NoScore THEN Bands[grade][2]
  ELSE Most(Bands[grade][1], Least(Bands[grade][2], score))
=============================================================================
