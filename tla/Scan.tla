-------------------------------- MODULE Scan --------------------------------
(***************************************************************************)
(* What the scan of an attachment decides from its bytes, and what is made *)
(* of its name. A file is a record of what the checks look for:            *)
(*                                                                         *)
(*   sig     what its first bytes say it is, "program" or "unknown"        *)
(*   plain   it is text without NUL bytes                                  *)
(*   cut     its byte 4096 lies inside a character                         *)
(*   size    bytes                                                         *)
(*   zip     its archive, or NoZip when it cannot be opened as one         *)
(*   macro   the archive holds a macro part                                *)
(*   active  a PDF with something that runs                                *)
(*   pixels  of the picture, or Unread when its header is not understood   *)
(*   tail    what follows the end of the picture                           *)
(***************************************************************************)
EXTENDS Integers, FiniteSets, FiniteSetsExt

Refused == "REFUSED"
Unread  == -1
NoZip   == [size |-> 0, entries |-> {}]
MiB     == 1024 * 1024

MaxBytes  == 5 * MiB
MaxPixels == 50000000
MaxTotal  == 200 * MiB
MaxRatio  == 100

Pictures  == { "jpg", "jpeg", "png", "webp", "heic" }
Documents == { "pdf", "doc", "docx", "xls", "xlsx", "ppt", "pptx", "hwp", "txt" }
Office    == { "docx", "xlsx", "pptx" }

(* Mutant of Named: the list of extensions is not consulted.                *)
NamedAnyhow(name, allowed) == name.ext

(* A name is what the rules about names distinguish: the extension it shows,*)
(* whether trailing dots hide it, and whether it holds characters that do   *)
(* not show or a second, runnable extension.                                *)
Named(name, allowed) ==
  IF name.odd \/ name.ext \notin allowed THEN Refused ELSE name.ext

TypesOf(ext) ==
  CASE ext \in {"jpg", "jpeg"}              -> {"jpg"}
    [] ext \in Office                       -> {"zip"}
    [] ext \in {"doc", "xls", "ppt", "hwp"} -> {"ole"}
    [] ext = "txt"                          -> {}
    [] OTHER                                -> {ext}

SignatureFits(f, ext) == f.sig # "program" /\ (ext = "txt" \/ f.sig \in TypesOf(ext))

(* Only the first 4096 bytes are decoded.                                   *)
IsPlain(f, ext) == ext = "txt" => f.plain /\ ~f.cut

NoMacro(f, ext) == ext \in Office => f.zip # NoZip /\ ~f.macro

(* One level of an archive; its entries have a size, the two marks, and     *)
(* the archive they are themselves.                                         *)
LevelIsSafe(zip) ==
  LET total == MapThenSumSet(LAMBDA e : e.size, zip.entries) IN
  /\ total <= MaxTotal /\ (zip.size > 0 => total <= MaxRatio * zip.size)
  /\ \A e \in zip.entries : ~e.escapes /\ ~e.program

(* Archives in the archive are opened, those within them are not.           *)
ArchiveIsSafe(f, ext) ==
  ext \in Office => LevelIsSafe(f.zip) /\ \A e \in f.zip.entries : LevelIsSafe(e.zip)

IsPassive(f, ext) == ext = "pdf" => ~f.active

PixelsFit(f, ext) == ext \in Pictures => f.pixels <= MaxPixels

(* A PNG ends where it ends; a JPEG may carry what its maker appended.      *)
NoPayload(f, ext) ==
  /\ ext = "png" => f.tail \in {"none", "padding"}
  /\ ext \in {"jpg", "jpeg"} => f.tail # "payload"

Passes(f, ext, declared) ==
  /\ SignatureFits(f, ext) /\ IsPlain(f, ext) /\ NoMacro(f, ext) /\ ArchiveIsSafe(f, ext)
  /\ IsPassive(f, ext) /\ PixelsFit(f, ext) /\ NoPayload(f, ext)
  /\ f.size = declared
=============================================================================
