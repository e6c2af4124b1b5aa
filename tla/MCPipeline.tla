----------------------------- MODULE MCPipeline -----------------------------
(* A job and its tasks; two inspections of a job of two pictures.           *)
EXTENDS Pipeline, MCInspection

Flaw(type, ratio, box, image, conf) ==
  [type |-> type, ratio |-> ratio, box |-> box, image |-> image, level |-> 1, pages |-> 1,
   overlap |-> FALSE, conf |-> conf, suspect |-> FALSE, copied |-> FALSE, ungrounded |-> FALSE]

Here  == << 100, 100, 200, 200 >>
There == << 300, 600, 420, 700 >>

MCDefects ==
  { Flaw("STAIN", 20, << 200, 100, 100, 200 >>, 0, 90), \* -20: the detector's box, flipped
    [Flaw("TEAR", 20, There, 0, 80) EXCEPT !.overlap = TRUE], \* -22
    Flaw("STICKER", 20, There, 1, 70), \* the same box in another picture
    Flaw("WET", 0, NoBox, 1, 60) }     \* fatal, and cannot be placed

MCHits       == { {}, { Flaw("DOODLE", 1, << 10, 10, 60, 60 >>, 1, 85) } }
MCCandidates == { {}, { [image |-> 0, box |-> Here, conf |-> 85] } }

Answer(found, accepted, bearer, liability, cited) ==
  [status |-> found, accepted |-> accepted, bearer |-> bearer, liability |-> liability,
   human |-> FALSE, cited |-> cited]
MCUnreadable == { {}, {0, 1} }
MCRulings ==
  { Answer("LLM_ERROR", "NULL", "NULL", "UNDETERMINED", FALSE),
    Answer("OK", "YES", "CUSTOMER", "UNDETERMINED", TRUE),
    Answer("OK", "YES", "SELLER", "WAREHOUSE", FALSE) }
=============================================================================
