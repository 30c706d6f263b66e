--------------------------- MODULE MCExportDrawing ---------------------------
(***************************************************************************)
(* The parts of the export chain that compute without waiting: the events  *)
(* of jsPDF, the pages it draws, the file it writes of them, and a path    *)
(* that canvg reads.  They are checked one at a time, in working, beside   *)
(* the others at rest: of the events only the listeners of the plugins     *)
(* matter to a file, which PdfFile has.                                    *)
(*                                                                         *)
(* One channel, as those of a document are independent, with two           *)
(* callbacks; three of the twelve standard fonts, a family whose plain     *)
(* font has a variant, one whose plain font has none and two styles of one *)
(* family, the one format listed with its wide side first and a name that  *)
(* is no format; a file of two fonts, up to three pages, five elements,    *)
(* each of which may be an image, and three outputs; paths of up to four   *)
(* groups, with two groups of coordinates for every letter, multiples of   *)
(* three for the thirds that addQuadraticCurve takes.                      *)
(***************************************************************************)
EXTENDS PubSub, PdfPages, PdfFile, CanvgPath

CONSTANTS f, g

VARIABLE working

MCFonts == <<
  [family |-> "Helvetica", variant |-> "", fontName |-> "helvetica", fontStyle |-> "normal"],
  [family |-> "Times", variant |-> "Roman", fontName |-> "times", fontStyle |-> "normal"],
  [family |-> "Times", variant |-> "Bold", fontName |-> "times", fontStyle |-> "bold"] >>
MCFormats == [ledger |-> <<1224, 792>>]

One == {<< <<3, 0>> >>, << <<6, 9>> >>}
Two == {<< <<0, 9>>, <<6, 3>> >>, << <<3, -6>>, <<9, 0>> >>}
Three == {<< <<0, 3>>, <<6, 9>>, <<9, 6>> >>, << <<9, 0>>, <<0, 6>>, <<3, 3>> >>}
MCGroups ==
  [c \in {"M", "L", "H", "V", "T", "S", "Q", "C"} |->
     CASE c \in {"M", "L", "H", "V", "T"} -> One
       [] c \in {"S", "Q"} -> Two
       [] c = "C" -> Three]

Symmetry == Permutations({f, g})

DrawingInit ==
  /\ working \in {"events", "pages", "file", "path"}
  /\ PubSubInit /\ PagesInit /\ FileInit /\ PathInit
  /\ working # "pages" => media = [orientation |-> "p", size |-> PageSize("p", "ledger")]

OnEvents(A) == working = "events" /\ A
             /\ UNCHANGED <<working, pagesVars, fileVars, pathVars>>
OnPages(A) == working = "pages" /\ A
             /\ UNCHANGED <<working, pubSubVars, fileVars, pathVars>>
OnFile(A) == working = "file" /\ A
             /\ UNCHANGED <<working, pubSubVars, pagesVars, pathVars>>
OnPath(A) == working = "path" /\ A
             /\ UNCHANGED <<working, pubSubVars, pagesVars, fileVars>>

DrawingNext ==
  \/ OnEvents(PubSubNext)
  \/ OnPages(PagesNext)
  \/ OnFile(FileNext)
  \/ OnPath(PathNext)

DrawingSpec ==
  DrawingInit /\ [][DrawingNext]_<<working, pubSubVars, pagesVars, fileVars, pathVars>>
=============================================================================
