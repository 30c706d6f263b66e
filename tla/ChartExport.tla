----------------------------- MODULE ChartExport -----------------------------
(***************************************************************************)
(* Exporting a chart as a file (amexport.js).  An export copies the SVG    *)
(* elements of the chart into a buffer, draws them one after the other on  *)
(* a canvas and turns the canvas into the format asked for.  With the      *)
(* browser as renderer each element is loaded as an image first, and the   *)
(* user can start another export meanwhile; buffer, counter and canvas are *)
(* fields of the one AmExport object of the chart.                         *)
(***************************************************************************)
EXTENDS Naturals, Sequences

CONSTANTS
  Exports,   \* calls of output, by number
  MaxSvgs,   \* bound: svg elements of the chart when an export starts
  ExportFormats, \* formats asked for: "svg", "image/svg+xml", "pdf", "png", "jpg"
  Renders    \* cfg.render: "browser", or "canvg" when canvg is loaded

ASSUME ExportAssumption ==
  /\ Exports \subseteq Nat \ {0} /\ MaxSvgs \in Nat
  /\ ExportFormats \subseteq {"svg", "image/svg+xml", "pdf", "png", "jpg"}
  /\ Renders \subseteq {"browser", "canvg"}

VARIABLES
  buffer,   \* processing.buffer: <<export, index>> of each element copied
  drawn,    \* processing.drawn
  canvas,   \* this.canvas: the export that created it, 0 for none
  cfg,      \* format and render of each export
  count,    \* how many elements the chart had when the export started
  chain,    \* where drawItWhenItsLoaded of each export is
  loading,  \* the element whose image an export waits for
  painted,  \* what was painted on the canvas each export created
  result,   \* what its callback turned into the file: canvas and elements
  overlap,  \* history: exports under way while another one started
  broken    \* history: exports that met an image that did not load

exportVars == <<buffer, drawn, canvas, cfg, count, chain, loading, painted, result,
          overlap, broken>>

NoCfg == [format |-> "none", render |-> "none"]
NoElement == <<0, 0>>
NoResult == [canvas |-> 0, elements |-> <<>>]

SvgElements == (Exports \X (1 .. MaxSvgs))
Own(e, n) == [i \in 1 .. n |-> <<e, i>>]

ExportTypeOK ==
  /\ buffer \in Seq(SvgElements) /\ drawn \in Nat /\ canvas \in Exports \cup {0}
  /\ cfg \in [Exports -> [format : ExportFormats, render : Renders] \cup {NoCfg}]
  /\ count \in [Exports -> 0 .. MaxSvgs]
  /\ chain \in [Exports -> {"idle", "loading", "calledBack", "failed"}]
  /\ loading \in [Exports -> SvgElements \cup {NoElement}]
  /\ \A e \in Exports :
       /\ painted[e] \in Seq(SvgElements) /\ result[e].elements \in Seq(SvgElements)
       /\ chain[e] = "loading" => loading[e] # NoElement
  /\ overlap \cup broken \subseteq Exports

ExportInit ==
  /\ buffer = <<>> /\ drawn = 0 /\ canvas = 0
  /\ cfg = [e \in Exports |-> NoCfg] /\ count = [e \in Exports |-> 0]
  /\ chain = [e \in Exports |-> "idle"]
  /\ loading = [e \in Exports |-> NoElement]
  /\ painted = [e \in Exports |-> <<>>]
  /\ result = [e \in Exports |-> NoResult]
  /\ overlap = {} /\ broken = {}

-----------------------------------------------------------------------------
IsSvg(format) == format \in {"svg", "image/svg+xml"}

(* internalCallback: an SVG file is made of the buffer, any other of the   *)
(* canvas the AmExport object has now.                                     *)
InternalCallback(e, format, buf, can, paint) ==
  result' = [result EXCEPT ![e] =
    IF IsSvg(format) THEN [canvas |-> can, elements |-> buf]
    ELSE [canvas |-> can, elements |-> paint[can]]]

Ends(e, how) == chain' = [chain EXCEPT ![e] = how] /\ UNCHANGED loading

(* drawItWhenItsLoaded of export e, with `buf`, `n`, `can` and `paint` the *)
(* buffer, the counter, the canvas and what has been painted by now.       *)
DrawItWhenItsLoaded(e, c, buf, n, can, paint) ==
  \/ /\ n = Len(buf) \/ c.format = "svg"
     /\ InternalCallback(e, c.format, buf, can, paint)
     /\ Ends(e, "calledBack")
     /\ drawn' = n /\ painted' = paint
  \* the buffer of another export is shorter: buffer[0] of undefined throws
  \/ /\ n > Len(buf) /\ c.format # "svg"
     /\ Ends(e, "failed")
     /\ drawn' = n /\ painted' = paint /\ UNCHANGED result
  \/ /\ n < Len(buf) /\ c.format # "svg" /\ c.render = "browser"
     /\ chain' = [chain EXCEPT ![e] = "loading"]
     /\ loading' = [loading EXCEPT ![e] = buf[n + 1]]
     /\ drawn' = n /\ painted' = paint /\ UNCHANGED result
  \* canvg renders at once and calls back, so all the rest is drawn here
  \/ /\ n < Len(buf) /\ c.format # "svg" /\ c.render = "canvg"
     /\ painted' = [paint EXCEPT ![e] = @ \o SubSeq(buf, n + 1, Len(buf))]
     /\ drawn' = Len(buf)
     /\ InternalCallback(e, c.format, buf, can, painted')
     /\ Ends(e, "calledBack")

Exporting == {e \in Exports : chain[e] = "loading"}

(* Mutant: the buffer of the last export is not emptied.                 *)
OutputAppends(e, n, c) ==
  /\ chain[e] = "idle" /\ \A d \in Exports : d < e => chain[d] # "idle"
  /\ buffer' = buffer \o Own(e, n) /\ canvas' = e
  /\ cfg' = [cfg EXCEPT ![e] = c] /\ count' = [count EXCEPT ![e] = n]
  /\ overlap' = overlap \cup
       (IF Exporting = {} THEN {} ELSE Exporting \cup {e})
  /\ DrawItWhenItsLoaded(e, c, buffer \o Own(e, n), 0, e, painted)
  /\ UNCHANGED broken

(* output and generateOutput: the fields are reset for this export,        *)
(* whatever the others are doing.  Exports are numbered as they start.     *)
OutputChart(e, n, c) ==
  /\ chain[e] = "idle" /\ \A d \in Exports : d < e => chain[d] # "idle"
  /\ buffer' = Own(e, n) /\ canvas' = e
  /\ cfg' = [cfg EXCEPT ![e] = c] /\ count' = [count EXCEPT ![e] = n]
  /\ overlap' = overlap \cup
       (IF Exporting = {} THEN {} ELSE Exporting \cup {e})
  /\ DrawItWhenItsLoaded(e, c, Own(e, n), 0, e, painted)
  /\ UNCHANGED broken

(* The image is painted on the canvas of the export that waits for it, and *)
(* the shared counter goes on from where it is.                            *)
Paint(e) == [painted EXCEPT ![e] = Append(@, loading[e])]

SvgImageLoaded(e) ==
  /\ chain[e] = "loading"
  /\ DrawItWhenItsLoaded(e, cfg[e], buffer, drawn + 1, canvas, Paint(e))
  /\ UNCHANGED <<buffer, canvas, cfg, count, overlap, broken>>

(* onerror: drawImage paints nothing of a broken image, or throws.         *)
SvgImageFails(e) ==
  /\ chain[e] = "loading"
  /\ \/ DrawItWhenItsLoaded(e, cfg[e], buffer, drawn + 1, canvas, painted)
     \/ Ends(e, "failed") /\ UNCHANGED <<drawn, painted, result>>
  /\ broken' = broken \cup {e}
  /\ UNCHANGED <<buffer, canvas, cfg, count, overlap>>

SvgImageReports(e) == SvgImageLoaded(e) \/ SvgImageFails(e)

ExportNext ==
  \/ \E e \in Exports, n \in 0 .. MaxSvgs :
       \E c \in [format : ExportFormats, render : Renders] : OutputChart(e, n, c)
  \/ \E e \in Exports : SvgImageReports(e)

(* The browser reports for every image whether it could be loaded.         *)
ExportSpec ==
  /\ ExportInit /\ [][ExportNext]_exportVars
  /\ \A e \in Exports : WF_exportVars(SvgImageReports(e))

-----------------------------------------------------------------------------
Called(e) == chain[e] = "calledBack"

(* An export that no other one overlapped makes its file of its own canvas *)
(* and of its own elements in the order of the chart: of all of them when  *)
(* every image loaded.                                                     *)
AloneShowsOwn ==
  \A e \in Exports : Called(e) /\ e \notin overlap =>
    /\ result[e].canvas = e
    /\ e \notin broken => result[e].elements = Own(e, count[e])
    /\ \A i, j \in DOMAIN result[e].elements :
         /\ result[e].elements[i][1] = e
         /\ i < j => result[e].elements[i][2] < result[e].elements[j][2]

(* An export that is drawn in one go, as svg or by canvg, has all its own  *)
(* elements, even if exports that load images are under way.               *)
AtomicIsWhole ==
  \A e \in Exports :
    Called(e) /\ (cfg[e].format = "svg" \/ cfg[e].render = "canvg") =>
      result[e] = [canvas |-> e, elements |-> Own(e, count[e])]

(* However the exports overlap, no element is painted twice on a canvas.   *)
PaintedOnce ==
  \A e \in Exports : \A i, j \in DOMAIN painted[e] :
    i < j => painted[e][i] # painted[e][j]

(* What an export promises: its own picture when alone, a whole picture    *)
(* when it waits for nothing, and each image painted once.                 *)
ExportsApart ==
  /\ ExportTypeOK
  /\ AloneShowsOwn
  /\ AtomicIsWhole
  /\ PaintedOnce

(* An export that waits for an image ends: it calls back or throws.        *)
ExportsEnd ==
  \A e \in Exports : chain[e] = "loading" ~> chain[e] # "loading"
=============================================================================
