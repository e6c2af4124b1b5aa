------------------------------ MODULE Evidence ------------------------------
(***************************************************************************)
(* The evidence a book is judged by: the pictures that are handed in       *)
(* (Uploads), and what reviewers make of the reports on them (Review).     *)
(* The two share no data, so that no order of their steps can matter: each *)
(* is explored while nothing has happened in the other.                    *)
(***************************************************************************)
EXTENDS Uploads, Review

EvidenceInit == Init /\ ReviewInit

NothingUploaded == /\ \A k \in Keys : form[k] = NoForm
                   /\ call = [c \in Calls |-> Idle]
NothingReviewed == /\ readings = 1 /\ decisions = 0 /\ ai.pc = "idle" /\ row.source = "PENDING_HITL"
                   /\ sheet = [r \in Reviewers |-> Closed]

EvidenceNext ==
  \/ NothingReviewed /\ Next /\ UNCHANGED reviewVars
  \/ NothingUploaded /\ ReviewNext /\ UNCHANGED vars

EvidenceSpec == EvidenceInit /\ [][EvidenceNext]_<<vars, reviewVars>>
=============================================================================
