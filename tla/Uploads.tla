------------------------------ MODULE Uploads -------------------------------
(***************************************************************************)
(* Attachments of the board. The server signs a form for one key of the    *)
(* quarantine; the browser sends the file straight to S3, as often as it   *)
(* likes while the form is valid; then it asks the server to verify the    *)
(* key: four or five calls to S3, one after the other, none of them in a   *)
(* transaction. A file that passes is copied to attachments/ and deleted   *)
(* from the quarantine, another one is deleted.                            *)
(***************************************************************************)
EXTENDS Scan

CONSTANTS
  Keys,   \* keys the server may draw (uuid4)
  Users,
  Names,  \* file names users choose
  Files,  \* files users choose
  Calls   \* bound: verifications

ASSUME UploadsAssumption ==
  /\ "NOBODY" \notin Users /\ "NONE" \notin Keys
  /\ \A f \in Files :
       /\ DOMAIN f = { "sig", "plain", "cut", "size", "zip", "macro", "active", "pixels", "tail" }
       /\ f.size \in Nat

Attachable == Pictures \cup Documents
NoFile == [size |-> 0]
NoForm == [owner |-> "NOBODY", ext |-> "NONE", open |-> FALSE]

VARIABLES
  form,    \* form of a key: its owner, the extension in the key, still valid?
  held,    \* quarantine: the file under a key
  clean,   \* attachments/: the file under a key
  call,    \* what a verification is about to do, and what it has read
  told,    \* history: keys whose owner was told CLEAN
  sent,    \* history: the file that reached S3 last under a key
  resent,  \* history: keys sent again while a verification of them was under way
  swapped  \* history: those among them sent again between a scan and its copy

vars == << form, held, clean, call, told, sent, resent, swapped >>

Idle == [pc |-> "idle", key |-> "NONE", size |-> 0]

Init ==
  /\ form = [k \in Keys |-> NoForm] /\ held = [k \in Keys |-> NoFile] /\ clean = [k \in Keys |-> NoFile]
  /\ call = [c \in Calls |-> Idle]
  /\ told = {} /\ sent = [k \in Keys |-> NoFile] /\ resent = {} /\ swapped = {}

Verifying(k) == \E c \in Calls : call[c].key = k /\ call[c].pc # "idle"
Scanned(k)   == \E c \in Calls : call[c].key = k /\ call[c].pc = "copy"

-----------------------------------------------------------------------------
(* POST /uploads/attachment/presign                                         *)
Presign(u, k) ==
  /\ form[k] = NoForm
  /\ \E name \in Names :
       /\ Named(name, Attachable) # Refused
       /\ form' = [form EXCEPT ![k] = [owner |-> u, ext |-> Named(name, Attachable), open |-> TRUE]]
  /\ UNCHANGED << held, clean, call, told, sent, resent, swapped >>

(* S3 takes what the policy of the form admits.                             *)
Send(k) ==
  /\ form[k].open
  /\ \E f \in Files :
       /\ f.size \in 1..MaxBytes
       /\ held' = [held EXCEPT ![k] = f] /\ sent' = [sent EXCEPT ![k] = f]
  /\ resent' = IF Verifying(k) THEN resent \cup {k} ELSE resent
  /\ swapped' = IF Scanned(k) THEN swapped \cup {k} ELSE swapped
  /\ UNCHANGED << form, clean, call, told >>

(* After five minutes.                                                      *)
Expire(k) ==
  /\ form[k].open /\ form' = [form EXCEPT ![k].open = FALSE]
  /\ UNCHANGED << held, clean, call, told, sent, resent, swapped >>

-----------------------------------------------------------------------------
(* POST /uploads/attachment/verify                                          *)
At(c, pc)   == call[c].pc = pc
Goto(c, pc) == call' = [call EXCEPT ![c].pc = pc]
Stop(c)     == call' = [call EXCEPT ![c] = Idle]

(* head_object, for a key of the caller's own quarantine.                   *)
Begin(c, u, k) ==
  /\ At(c, "idle") /\ form[k].owner = u /\ held[k] # NoFile
  /\ call' = [call EXCEPT ![c] =
                [pc |-> IF held[k].size > MaxBytes THEN "drop" ELSE "get", key |-> k, size |-> held[k].size]]
  /\ UNCHANGED << form, held, clean, told, sent, resent, swapped >>

(* Mutant of Get: the findings of the scan are only reported.               *)
GetAndReport(c) ==
  /\ At(c, "get")
  /\ IF held[call[c].key] = NoFile THEN Stop(c) ELSE Goto(c, "copy")
  /\ UNCHANGED << form, held, clean, told, sent, resent, swapped >>

(* get_object, and the scan of what came.                                   *)
Get(c) ==
  LET k == call[c].key IN
  /\ At(c, "get")
  /\ IF held[k] = NoFile THEN Stop(c)
     ELSE Goto(c, IF Passes(held[k], form[k].ext, call[c].size) THEN "copy" ELSE "drop")
  /\ UNCHANGED << form, held, clean, told, sent, resent, swapped >>

(* Mutant of Copy: a key that is gone was promoted by another call.         *)
CopyOrDone(c) ==
  LET k == call[c].key IN
  /\ At(c, "copy")
  /\ Goto(c, "clear") /\ clean' = IF held[k] = NoFile THEN clean ELSE [clean EXCEPT ![k] = held[k]]
  /\ UNCHANGED << form, held, told, sent, resent, swapped >>

(* copy_object copies what is there now.                                    *)
Copy(c) ==
  LET k == call[c].key IN
  /\ At(c, "copy")
  /\ IF held[k] = NoFile THEN Stop(c) /\ UNCHANGED clean
     ELSE Goto(c, "clear") /\ clean' = [clean EXCEPT ![k] = held[k]]
  /\ UNCHANGED << form, held, told, sent, resent, swapped >>

(* delete_object after the copy, and the answer.                            *)
Clear(c) ==
  LET k == call[c].key IN
  /\ At(c, "clear") /\ Stop(c)
  /\ held' = [held EXCEPT ![k] = NoFile] /\ told' = told \cup {k}
  /\ UNCHANGED << form, clean, sent, resent, swapped >>

(* delete_object of a file that did not pass.                               *)
Drop(c) ==
  LET k == call[c].key IN
  /\ At(c, "drop") /\ Stop(c)
  /\ held' = [held EXCEPT ![k] = NoFile]
  /\ UNCHANGED << form, clean, told, sent, resent, swapped >>

(* Mutant of Break: a verification that fails clears the quarantine.        *)
BreakAndClear(c) ==
  /\ ~At(c, "idle") /\ Stop(c)
  /\ held' = [held EXCEPT ![call[c].key] = NoFile]
  /\ UNCHANGED << form, clean, told, sent, resent, swapped >>

(* A call to S3 fails, or the process ends: what was done stays done.       *)
Break(c) ==
  /\ ~At(c, "idle") /\ Stop(c)
  /\ UNCHANGED << form, held, clean, told, sent, resent, swapped >>

Next ==
  \/ \E k \in Keys : Send(k) \/ Expire(k) \/ \E u \in Users : Presign(u, k)
  \/ \E c \in Calls : \/ Get(c) \/ Copy(c) \/ Clear(c) \/ Drop(c) \/ Break(c)
                      \/ \E u \in Users, k \in Keys : Begin(c, u, k)

Spec == Init /\ [][Next]_vars

-----------------------------------------------------------------------------
(* Properties *)

TypeOK ==
  /\ \A k \in Keys : /\ form[k].owner \in Users \cup {"NOBODY"} /\ form[k].open \in BOOLEAN
                     /\ form[k].ext \in Attachable \cup {"NONE"}
                     /\ {held[k], clean[k], sent[k]} \subseteq Files \cup {NoFile}
  /\ \A c \in Calls : /\ call[c].pc \in {"idle", "get", "copy", "clear", "drop"}
                      /\ call[c].key \in Keys \cup {"NONE"} /\ call[c].size \in 0..MaxBytes
  /\ told \subseteq Keys /\ resent \subseteq Keys /\ swapped \subseteq resent

(* "The scan takes place in the quarantine only, so that there is no window *)
(* in which an unverified file is exposed" (the comment on the structure of *)
(* attachments): what is served has passed the scan. The code does not keep *)
(* it: the copy takes what is there by then.                                *)
NothingUnscannedServed == \A k \in Keys : clean[k] # NoFile => Passes(clean[k], form[k].ext, clean[k].size)

(* What holds of it: only what passed is served, whichever of the racing    *)
(* verifications of a key copies, clears or drops first, and whatever is    *)
(* sent before a scan; but for a file sent between a scan and its copy.     *)
ServedWasScanned ==
  \A k \in Keys \ swapped : clean[k] # NoFile => Passes(clean[k], form[k].ext, clean[k].size)

(* A file its owner was told is clean can be opened from then on, whatever  *)
(* other verifications of the key do.                                       *)
ToldIsServed == \A k \in told : clean[k] # NoFile

Harmless(f, ext) == Passes([f EXCEPT !.cut = FALSE], ext, f.size)

(* A harmless file that has reached S3 is not lost between quarantine and   *)
(* attachments/, wherever a call breaks off. Two exceptions: it was sent    *)
(* while another file of its key was being verified, whose verdict then     *)
(* falls on it; or it is a text whose byte 4096 lies inside a character.    *)
PromotionLosesNothing ==
  \A k \in Keys \ resent :
    sent[k] # NoFile /\ Harmless(sent[k], form[k].ext) =>
      \/ sent[k] \in {held[k], clean[k]}
      \/ form[k].ext = "txt" /\ sent[k].cut

(* Attachments are neither served unscanned nor lost on the way.            *)
FilesAreSafe == TypeOK /\ ServedWasScanned /\ ToldIsServed /\ PromotionLosesNothing
=============================================================================
