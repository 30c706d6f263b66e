------------------------------ MODULE PdfPages ------------------------------
(***************************************************************************)
(* The pages of a jsPDF document while a program draws on them.  Every     *)
(* call writes operators to the page under way; what the page looks like   *)
(* is decided by a viewer, which reads the operators of one page in order  *)
(* and starts each page with its own defaults.                             *)
(***************************************************************************)
EXTENDS Naturals, Sequences

CONSTANTS
  StandardFonts,  \* addFonts' table: family, variant, fontName, fontStyle
  Formats,        \* pageFormats: the name of a format to <<width, height>>
  OtherFormats,   \* format arguments that are no names of pageFormats
  NoSize,         \* the side that a string that is no format has
  Colors, Black,  \* colours, and the one a document begins with
  Widths, Thin,   \* line widths, and the one of the variable lineWidth
  Sizes, Sixteen, \* font sizes, and the first one
  Styles,         \* values of CapJoinStyles: 0 is butt, miter
  MaxCalls        \* bound: calls of the drawing interface

ASSUME PagesAssumption ==
  /\ Black \in Colors /\ Thin \in Widths /\ Sixteen \in Sizes /\ 0 \in Styles
  /\ 1 \in DOMAIN StandardFonts /\ MaxCalls \in Nat
  /\ Formats \in [DOMAIN Formats -> Nat \X Nat] /\ NoSize \notin Nat
  /\ OtherFormats \cap DOMAIN Formats = {}

VARIABLES
  media,        \* <<pageWidth, pageHeight>> with the orientation and format
  pages,        \* pages: the operators written to each page
  activeFontKey, activeFontSize, textColor, lineCapID, lineJoinID,
  asked,        \* history: the settings the program asked for last
  onPage,       \* history: those asked for since the page began
  wanted,       \* history: for each element of each page where it is
                \* written, and asked and onPage when it was
  calls         \* calls made, up to MaxCalls

set == <<activeFontKey, activeFontSize, textColor, lineCapID, lineJoinID>>
pagesVars == <<media, pages, set, asked, onPage, wanted, calls>>

FontKeys == DOMAIN StandardFonts
FontNames == {StandardFonts[k].family : k \in FontKeys}
             \cup {StandardFonts[k].fontName : k \in FontKeys}
FontStyles == {StandardFonts[k].variant : k \in FontKeys}
              \cup {StandardFonts[k].fontStyle : k \in FontKeys}

(* fontmap after addFonts: each font under its name and style, and under   *)
(* the two parts of its PostScript name.                                   *)
FontMap(name, style) ==
  {k \in FontKeys :
     \/ StandardFonts[k].fontName = name /\ StandardFonts[k].fontStyle = style
     \/ StandardFonts[k].family = name /\ StandardFonts[k].variant = style}

(* The operators a page is made of; a path stands for its construction and *)
(* its painting operator, a text for its BT .. ET.                         *)
Setting == [op : {"w"}, value : Widths] \cup [op : {"G", "g"}, value : Colors]
           \cup [op : {"J", "j"}, value : Styles]
Element == [op : {"path"}, style : {"S", "f", "B"}]
           \cup [op : {"text"}, font : FontKeys, size : Sizes, value : Colors]

Look == [font : FontKeys, size : Sizes, text : Colors, stroke : Colors,
         fill : Colors, width : Widths, cap : Styles, join : Styles]

PagesTypeOK ==
  /\ pages \in Seq(Seq(Setting \cup Element)) /\ pages # <<>>
  /\ activeFontKey \in FontKeys /\ activeFontSize \in Sizes
  /\ textColor \in Colors /\ lineCapID \in Styles /\ lineJoinID \in Styles
  /\ {asked, onPage} \subseteq Look
  /\ wanted \in Seq(Seq([at : Nat, asked : Look, onPage : Look]))
  /\ Len(wanted) = Len(pages) /\ calls \in 0 .. MaxCalls

-----------------------------------------------------------------------------
(* The constructor's page size: a named format, or two sides; a string     *)
(* that names no format is indexed like an array, without an error.        *)
PageSize(orientation, format) ==
  LET size == IF format \in DOMAIN Formats THEN Formats[format]
              ELSE <<NoSize, NoSize>>
      short == IF size[1] # NoSize /\ size[1] > size[2]
               THEN <<size[2], size[1]>> ELSE size
  IN  IF orientation = "p" THEN short ELSE <<short[2], short[1]>>

FirstLook == [font |-> 1, size |-> Sixteen, text |-> Black, stroke |-> Black,
              fill |-> Black, width |-> Thin, cap |-> 0, join |-> 0]

(* _addPage: the operators a page begins with.  lineWidth and drawColor    *)
(* are never assigned.                                                     *)
PageStart ==
  <<[op |-> "w", value |-> Thin], [op |-> "G", value |-> Black]>>
  \o (IF lineCapID # 0 THEN <<[op |-> "J", value |-> lineCapID]>> ELSE <<>>)
  \o (IF lineJoinID # 0 THEN <<[op |-> "j", value |-> lineJoinID]>> ELSE <<>>)

PagesInit ==
  /\ activeFontKey = 1 /\ activeFontSize = Sixteen /\ textColor = Black
  /\ lineCapID = 0 /\ lineJoinID = 0
  /\ \E o \in {"p", "l"}, f \in DOMAIN Formats \cup OtherFormats :
       media = [orientation |-> o, size |-> PageSize(o, f)]
  /\ pages = <<PageStart>> /\ wanted = << <<>> >>
  /\ asked = FirstLook /\ onPage = FirstLook
  /\ calls = 0

Call == calls < MaxCalls /\ calls' = calls + 1 /\ UNCHANGED media

(* out, while outToPages is set.                                           *)
WriteOp(op) == pages' = [pages EXCEPT ![Len(pages)] = Append(@, op)]

Asking(field, value) ==
  /\ asked' = [asked EXCEPT ![field] = value]
  /\ onPage' = [onPage EXCEPT ![field] = value]

(* A setting that is written to the page and nowhere else.                 *)
Emit(op, field, value) ==
  /\ Call
  /\ WriteOp([op |-> op, value |-> value])
  /\ Asking(field, value)
  /\ UNCHANGED <<set, wanted>>

SetLineWidth(w) == Emit("w", "width", w)

SetDrawColor(c) == Emit("G", "stroke", c)

SetFillColor(c) == Emit("g", "fill", c)

SetLineCap(s) ==
  /\ Call
  /\ lineCapID' = s
  /\ WriteOp([op |-> "J", value |-> s])
  /\ Asking("cap", s)
  /\ UNCHANGED <<activeFontKey, activeFontSize, textColor, lineJoinID, wanted>>

SetLineJoin(s) ==
  /\ Call
  /\ lineJoinID' = s
  /\ WriteOp([op |-> "j", value |-> s])
  /\ Asking("join", s)
  /\ UNCHANGED <<activeFontKey, activeFontSize, textColor, lineCapID, wanted>>

(* Mutant: the colour is written to the page and not kept.               *)
SetTextColorEmits(c) ==
  /\ Call
  /\ WriteOp([op |-> "g", value |-> c])
  /\ Asking("text", c)
  /\ UNCHANGED <<activeFontKey, activeFontSize, textColor, lineCapID, lineJoinID, wanted>>

(* The settings of text are kept in the document and written with a text.  *)
SetTextColor(c) ==
  /\ Call
  /\ textColor' = c
  /\ Asking("text", c)
  /\ UNCHANGED <<activeFontKey, activeFontSize, lineCapID, lineJoinID, pages, wanted>>

SetFontSize(s) ==
  /\ Call
  /\ activeFontSize' = s
  /\ Asking("size", s)
  /\ UNCHANGED <<activeFontKey, textColor, lineCapID, lineJoinID, pages, wanted>>

(* A font is selected, when getFont finds it; getFont throws, and nothing  *)
(* changes, when the name does not have the style.                         *)
Select(name, style) ==
  /\ Call
  /\ activeFontKey' \in FontMap(name, style)
  /\ Asking("font", activeFontKey')
  /\ UNCHANGED <<activeFontSize, textColor, lineCapID, lineJoinID, pages, wanted>>

SetFont(name, style) == Select(name, style)

SetFontStyle(style) == Select(StandardFonts[activeFontKey].fontName, style)

(* An element is drawn: what the program has asked for it is noted.        *)
Draw(op) ==
  /\ Call
  /\ WriteOp(op)
  /\ wanted' = [wanted EXCEPT
       ![Len(wanted)] = Append(@, [at |-> Len(pages[Len(pages)]) + 1,
                                   asked |-> asked, onPage |-> onPage])]
  /\ UNCHANGED <<set, asked>>

(* line, lines, rect, triangle, roundedRect, ellipse, circle.              *)
Path(style) == Draw([op |-> "path", style |-> style]) /\ UNCHANGED onPage

(* text: the colour of a text is a fill colour, and outlasts the text.     *)
Text ==
  /\ Draw([op |-> "text", font |-> activeFontKey, size |-> activeFontSize,
           value |-> textColor])
  /\ onPage' = [onPage EXCEPT !.fill = textColor]

AddPage ==
  /\ Call
  /\ pages' = Append(pages, PageStart)
  /\ wanted' = Append(wanted, <<>>)
  /\ onPage' = [asked EXCEPT !.stroke = Black, !.fill = Black, !.width = Thin]
  /\ UNCHANGED <<set, asked>>

PagesNext ==
  \/ \E w \in Widths : SetLineWidth(w)
  \/ \E c \in Colors : SetDrawColor(c) \/ SetFillColor(c) \/ SetTextColor(c)
  \/ \E s \in Styles : SetLineCap(s) \/ SetLineJoin(s)
  \/ \E s \in Sizes : SetFontSize(s)
  \/ \E s \in FontStyles : SetFontStyle(s) \/ \E n \in FontNames : SetFont(n, s)
  \/ \E s \in {"S", "f", "B"} : Path(s)
  \/ Text \/ AddPage

PagesSpec == PagesInit /\ [][PagesNext]_pagesVars

-----------------------------------------------------------------------------
(* A viewer: the graphics state after an operator.                         *)
Apply(look, op) ==
  CASE op.op = "w" -> [look EXCEPT !.width = op.value]
    [] op.op = "G" -> [look EXCEPT !.stroke = op.value]
    [] op.op = "g" -> [look EXCEPT !.fill = op.value]
    [] op.op = "J" -> [look EXCEPT !.cap = op.value]
    [] op.op = "j" -> [look EXCEPT !.join = op.value]
    [] op.op = "text" -> [look EXCEPT !.fill = op.value, !.text = op.value,
                                      !.font = op.font, !.size = op.size]
    [] OTHER -> look

(* The graphics state after each operator of a page, from the defaults on. *)
Viewed(page) ==
  LET look[k \in 0 .. Len(page)] ==
        IF k = 0 THEN FirstLook ELSE Apply(look[k - 1], page[k])
  IN  look

(* The elements of one kind, by page and number, and the graphics state in *)
(* which one is painted.                                                   *)
ElementsOf(kind) ==
  {pe \in UNION {{p} \X DOMAIN wanted[p] : p \in DOMAIN pages} :
     pages[pe[1]][wanted[pe[1]][pe[2]].at].op = kind}

Seen(p, e) == Viewed(pages[p])[wanted[p][e].at]

(* Every text is seen in the font, size and colour that the program asked  *)
(* for last, on whatever page it asked: text keeps no default per page.    *)
TextAsAsked ==
  \A pe \in ElementsOf("text") :
    LET seen == Seen(pe[1], pe[2])
        want == wanted[pe[1]][pe[2]].asked
    IN  <<seen.font, seen.size, seen.text>> = <<want.font, want.size, want.text>>

(* Caps and joins of lines outlast the page they were set on: a new page   *)
(* resurrects them.                                                        *)
CapsAndJoinsAsAsked ==
  \A pe \in ElementsOf("path") :
    LET seen == Seen(pe[1], pe[2])
        want == wanted[pe[1]][pe[2]].asked
    IN  <<seen.cap, seen.join>> = <<want.cap, want.join>>

(* Stroke colour, fill colour and line width are those last asked for on   *)
(* the page, or the first ones of the document: no page inherits them from *)
(* the page before, and a text replaces the fill colour by its own.        *)
PaintOfThePage ==
  \A pe \in ElementsOf("path") :
    LET seen == Seen(pe[1], pe[2])
        want == wanted[pe[1]][pe[2]].onPage
    IN  <<seen.stroke, seen.fill, seen.width>>
          = <<want.stroke, want.fill, want.width>>

(* A portrait page is not wider than high, a landscape page not higher     *)
(* than wide, whichever way round the format lists its sides.              *)
PageIsOriented ==
  media.size # <<NoSize, NoSize>> =>
    IF media.orientation = "p" THEN media.size[1] <= media.size[2]
    ELSE media.size[1] >= media.size[2]

(* What a reader sees of a document, compared with what the calls asked    *)
(* for.                                                                    *)
SeenAsAsked ==
  /\ PagesTypeOK
  /\ TextAsAsked
  /\ CapsAndJoinsAsAsked
  /\ PaintOfThePage
  /\ PageIsOriented
=============================================================================
