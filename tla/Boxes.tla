------------------------------- MODULE Boxes --------------------------------
(***************************************************************************)
(* Where the detectors see a flaw: the fusion of the boxes of three models *)
(* on a cover (wbf_detector.py), and the handwriting found on a page that  *)
(* was cut out of its picture first.  Boxes are left, top, right, bottom   *)
(* in thousandths, scores percent.                                         *)
(***************************************************************************)
EXTENDS Integers, SequencesExt

Models   == << "recall", "precision", "doodle" >>
MinScore == [recall |-> 12, precision |-> 25, doodle |-> 20]  \* conf of each model
Weight2  == [recall |-> 2, precision |-> 3, doodle |-> 2]     \* its weight, in halves
Labels   == { "Wornout", "ripped", "doodle_scribble" }

Surface(b)   == (b[3] - b[1]) * (b[4] - b[2])
Common(a, b) == Max({0, Min({a[3], b[3]}) - Max({a[1], b[1]})})
                * Max({0, Min({a[4], b[4]}) - Max({a[2], b[2]})})

Touch(a, b) == a[1] <= b[3] /\ b[1] <= a[3] /\ a[2] <= b[4] /\ b[2] <= a[4]

(* calculate_iou, at least one half.                                        *)
Meet(a, b) == Common(a, b) > 0 /\ 3 * Common(a, b) >= Surface(a) + Surface(b)

(* What the loaded models see; the handwriting model knows one label.       *)
Pool(seen, loaded) ==
  UNION { { [n |-> i, model |-> m, box |-> seen[m][i].box, score |-> seen[m][i].score,
             label |-> IF m = "doodle" THEN "doodle_scribble" ELSE seen[m][i].label]
            : i \in { k \in DOMAIN seen[m] : seen[m][k].score >= MinScore[m] } } : m \in loaded }

(* The surest first, then in the order of the models.                       *)
Turn(m) == CHOOSE i \in 1..3 : Models[i] = m

Surer(a, b) ==
  \/ a.score > b.score
  \/ a.score = b.score /\ Turn(a.model) < Turn(b.model)
  \/ a.score = b.score /\ a.model = b.model /\ a.n < b.n

Faintest(pool) == CHOOSE b \in pool : \A a \in pool \ {b} : Surer(a, b)

(* Mutant of Joins: whatever the label.                                     *)
JoinsAnyLabel(cluster, b) == Meet(cluster[1].box, b.box)

(* A box is compared with the surest of a cluster only.                     *)
Joins(cluster, b) == cluster[1].label = b.label /\ Meet(cluster[1].box, b.box)

(* It joins the first cluster that it can, or begins one.                   *)
Assigned(clusters, b) ==
  LET home == { k \in DOMAIN clusters : Joins(clusters[k], b) }
  IN IF home = {} THEN Append(clusters, << b >>)
     ELSE [clusters EXCEPT ![Min(home)] = Append(@, b)]

Clusters(pool) ==
  LET built[s \in SUBSET pool] ==
        IF s = {} THEN << >> ELSE Assigned(built[s \ {Faintest(s)}], Faintest(s))
  IN built[pool]

(* The weighted mean of the boxes, the best of the scores.                  *)
Mass(cluster)      == MapThenSumSet(LAMBDA i : Weight2[cluster[i].model], DOMAIN cluster)
Moment(cluster, k) == MapThenSumSet(LAMBDA i : Weight2[cluster[i].model] * cluster[i].box[k], DOMAIN cluster)

Fused(cluster) ==
  [label |-> cluster[1].label, score |-> cluster[1].score,
   box |-> [k \in 1..4 |-> Moment(cluster, k) \div Mass(cluster)]]

(* detect_defects_wbf: no candidate below CANDIDATE_MIN_CONF, none that     *)
(* fills the picture.                                                       *)
Candidates(seen, loaded) ==
  { f \in { Fused(c) : c \in ToSet(Clusters(Pool(seen, loaded))) } :
      f.score >= 40 /\ Surface(f.box) <= 800000 }

-----------------------------------------------------------------------------
(* The page of a picture of w by h pixels, where the page detector or else  *)
(* the reader puts it, and handwriting found in the crop.                   *)

(* Mutant of Cut: the region is believed.                                   *)
CutAsGiven(lo, hi, size) == << Max({0, (lo * size) \div 1000}), Min({size, (hi * size) \div 1000}) >>

Cut(lo, hi, size) ==
  LET from == Max({0, Min({size - 1, (lo * size) \div 1000})})
  IN << from, Max({from + 1, Min({size, (hi * size) \div 1000})}) >>

Crop(region, w, h) ==
  LET x == Cut(region[1], region[3], w)
      y == Cut(region[2], region[4], h)
  IN << x[1], y[1], x[2], y[2] >>

(* Thousandths of the crop, in thousandths of the picture.                  *)
Outward(crop, b, w, h) ==
  LET X(v) == (1000 * crop[1] + v * (crop[3] - crop[1])) \div w
      Y(v) == (1000 * crop[2] + v * (crop[4] - crop[2])) \div h
  IN << X(b[1]), Y(b[2]), X(b[3]), Y(b[4]) >>

(* The share is taken of the crop, not of the picture.                      *)
Handwriting(region, w, h, found) ==
  { [box |-> Outward(Crop(region, w, h), b, w, h), ratio |-> Max({1, Surface(b) \div 10000})]
    : b \in { f \in found : Surface(f) <= 800000 } }
=============================================================================
