----------------------------- MODULE MCEvidence -----------------------------
(* Two verifications of one attachment; two reviewers of one job, two       *)
(* decisions and two readings of the book.                                  *)
EXTENDS Evidence, TLC

CONSTANTS r1, r2

Ordinary == [sig |-> "jpg", plain |-> FALSE, cut |-> FALSE, size |-> MiB, zip |-> NoZip, macro |-> FALSE,
             active |-> FALSE, pixels |-> 12000000, tail |-> "metadata"]
Part     == [size |-> 3 * MiB, escapes |-> FALSE, program |-> FALSE, zip |-> NoZip]
Report   == [Ordinary EXCEPT !.sig = "zip", !.pixels = Unread, !.tail = "none",
                             !.zip = [size |-> MiB, entries |-> {Part, [Part EXCEPT !.size = MiB]}]]

(* A photograph, one that is too large, notes, and documents.               *)
MCFiles ==
  { Ordinary,
    [Ordinary EXCEPT !.pixels = 80000000],
    [Ordinary EXCEPT !.sig = "unknown", !.plain = TRUE, !.cut = TRUE, !.size = 5000, !.pixels = Unread, !.tail = "none"],
    Report,
    [Report EXCEPT !.macro = TRUE] }

MCNames ==
  { [ext |-> "jpg", odd |-> FALSE], [ext |-> "docx", odd |-> FALSE], [ext |-> "txt", odd |-> FALSE],
    [ext |-> "csv", odd |-> FALSE], [ext |-> "jpg", odd |-> TRUE] }

-----------------------------------------------------------------------------
(* A workbook written in twice, with a stain that the evidence check        *)
(* dismissed; no reading. A reviewer does nothing, or everything at once.   *)
Flaw(type, ratio, box, image) ==
  [type |-> type, ratio |-> ratio, box |-> box, image |-> image, level |-> 1, pages |-> 1,
   overlap |-> FALSE, conf |-> 80, suspect |-> FALSE, excluded |-> FALSE]
Doubted == [Flaw("STAIN", 20, << 300, 600, 420, 700 >>, 1) EXCEPT !.suspect = TRUE]
Handwritten(i) == Flaw("DOODLE", 1, << 10, 10, 60, 60 >>, i)
Reading(reports) == [failed |-> FALSE, reports |-> reports]
MCReadings ==
  { Reading(<< Handwritten(0), Doubted, Handwritten(1) >>), [failed |-> TRUE, reports |-> << >>] }
MCProposals == << [type |-> "SCRATCH", box |-> << 500, 500, 700, 700 >>, image |-> 1, conf |-> 60] >>
MCEdits == { NoEdit,
  [NoEdit EXCEPT !.out = {1}, !.adopt = << 1 >>, !.move = 2 :> << 0, 0, 500, 500 >>, 
                   !.draw = << [type |-> "STAMP", box |-> << 5, 5, 30, 30 >>, image |-> 0] >>] }

(* A grade written in another case, and one that puts a book aside and that *)
(* the bands do not know.                                                   *)
MCGrades == { "good", "POOR" }
MCUpper  == [g \in MCGrades \cup DOMAIN Bands |-> IF g = "good" THEN "GOOD" ELSE g]

EvidenceSymmetry == Permutations(Reviewers) \cup Permutations(Calls)
=============================================================================
