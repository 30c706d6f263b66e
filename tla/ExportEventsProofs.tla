------------------------- MODULE ExportEventsProofs -------------------------
(***************************************************************************)
(* Proofs about what a chart's export waits for, for any exports, images,  *)
(* renderings, savers and numbers of events: exports stay apart, a picture *)
(* is drawn by one loop and in turn, a file keeps what was saved under its *)
(* name, and an animation ends as it began.                                *)
(***************************************************************************)
EXTENDS ChartExport, FileSaver, CanvgLoop, CanvgAnimation,
        InductionLemmas, SequenceTheorems, TLAPS

-----------------------------------------------------------------------------
(* The export menu                                                         *)

(* The chart export                                                        *)

(* Elements are painted in the order of the exports and, of one export, in *)
(* that of the chart.                                                      *)
Before(x, y) == x[1] < y[1] \/ (x[1] = y[1] /\ x[2] < y[2])

ExportFields ==
  /\ ExportTypeOK
  /\ painted \in [Exports -> Seq(SvgElements)]
  /\ result \in [Exports -> [canvas : Exports \cup {0}, elements : Seq(SvgElements)]]

(* The fields of the AmExport object are those of the last export begun.   *)
LastBegun ==
  /\ \A e \in Exports : chain[e] # "idle" <=> e <= canvas
  /\ canvas = 0 => buffer = <<>>
  /\ canvas # 0 => buffer = Own(canvas, count[canvas])

(* What an export has painted and what it waits for.                       *)
Paints(e) ==
  /\ chain[e] = "idle" => painted[e] = <<>>
  /\ \A i, j \in DOMAIN painted[e] : i < j => Before(painted[e][i], painted[e][j])
  /\ chain[e] = "loading" =>
       /\ cfg[e].format # "svg" /\ cfg[e].render = "browser"
       /\ loading[e][1] <= canvas
       /\ loading[e][1] = canvas => loading[e][2] <= drawn + 1
       /\ \A i \in DOMAIN painted[e] : Before(painted[e][i], loading[e])

(* An export beside which no other one runs has the fields for itself.     *)
LoadsAlone(e) ==
  chain[e] = "loading" /\ e \notin overlap =>
    /\ canvas = e
    /\ \A d \in Exports : chain[d] = "loading" => d = e
    /\ drawn < count[e] /\ loading[e] = <<e, drawn + 1>>
    /\ \A i \in DOMAIN painted[e] : painted[e][i][1] = e /\ painted[e][i][2] <= drawn
    /\ e \notin broken => painted[e] = Own(e, drawn)

ExportInv ==
  /\ ExportFields
  /\ LastBegun
  /\ \A e \in Exports : Paints(e) /\ LoadsAlone(e)
  /\ AloneShowsOwn
  /\ AtomicIsWhole

-----------------------------------------------------------------------------
(* Sequences of own elements                                               *)

LEMMA OwnElements ==
  ASSUME NEW e \in Exports, NEW n \in 0 .. MaxSvgs
  PROVE  /\ Own(e, n) \in Seq(SvgElements) /\ Len(Own(e, n)) = n
         /\ DOMAIN Own(e, n) = 1 .. n
         /\ \A i \in 1 .. n : Own(e, n)[i] = <<e, i>> /\ Own(e, n)[i] \in SvgElements
         /\ n = 0 => Own(e, n) = <<>>
<1>1. Own(e, n) \in [1 .. n -> SvgElements]
  BY ExportAssumption DEF Own, SvgElements
<1>2. QED
  BY <1>1, ExportAssumption DEF Own

LEMMA OwnGrows ==
  ASSUME NEW e, NEW n \in Nat
  PROVE  Append(Own(e, n), <<e, n + 1>>) = Own(e, n + 1)
<1>1. Own(e, n) \in Seq({<<e, i>> : i \in Nat}) /\ Len(Own(e, n)) = n
  BY DEF Own
<1>2. QED
  BY <1>1 DEF Own

LEMMA OwnWhole ==
  ASSUME NEW e \in Exports, NEW n \in 0 .. MaxSvgs
  PROVE  <<>> \o SubSeq(Own(e, n), 0 + 1, Len(Own(e, n))) = Own(e, n)
<1>1. Own(e, n) \in Seq(SvgElements) /\ Len(Own(e, n)) = n
  BY OwnElements
<1>2. QED
  BY <1>1, OwnElements, SubSeqFull

-----------------------------------------------------------------------------
(* The inductive invariant: initially                                      *)

LEMMA ExportInvInit == ExportInit => ExportInv
<1> SUFFICES ASSUME ExportInit PROVE ExportInv
  OBVIOUS
<1>1. ExportFields
  <2>1. NoResult \in [canvas : Exports \cup {0}, elements : Seq(SvgElements)]
    BY DEF NoResult
  <2>2. ExportTypeOK
    <3>1. /\ buffer \in Seq(SvgElements) /\ drawn \in Nat /\ canvas \in Exports \cup {0}
          /\ count \in [Exports -> 0 .. MaxSvgs]
          /\ loading \in [Exports -> SvgElements \cup {NoElement}]
      BY ExportAssumption DEF ExportInit
    <3>2. cfg \in [Exports -> [format : ExportFormats, render : Renders] \cup {NoCfg}]
      BY DEF ExportInit
    <3>3. chain \in [Exports -> {"idle", "loading", "calledBack", "failed"}]
      BY DEF ExportInit
    <3>4. \A e \in Exports :
            /\ painted[e] \in Seq(SvgElements) /\ result[e].elements \in Seq(SvgElements)
            /\ chain[e] = "loading" => loading[e] # NoElement
      <4> SUFFICES ASSUME NEW e \in Exports
                   PROVE  /\ painted[e] \in Seq(SvgElements)
                          /\ result[e].elements \in Seq(SvgElements)
                          /\ chain[e] = "loading" => loading[e] # NoElement
        OBVIOUS
      <4>1. painted[e] = <<>> /\ result[e] = NoResult /\ chain[e] = "idle"
        BY Zenon DEF ExportInit
      <4>2. QED
        BY <2>1, <4>1
    <3>5. QED
      BY <3>1, <3>2, <3>3, <3>4 DEF ExportInit, ExportTypeOK
  <2>3. QED
    BY <2>1, <2>2 DEF ExportInit, ExportFields
<1>2. LastBegun
  BY ExportAssumption DEF ExportInit, LastBegun
<1>3. \A e \in Exports : Paints(e) /\ LoadsAlone(e)
  <2>1. \A e \in Exports : chain[e] = "idle" /\ painted[e] = <<>>
    BY Zenon DEF ExportInit
  <2>2. ASSUME NEW e \in Exports PROVE Paints(e)
    BY <2>1 DEF Paints
  <2>3. ASSUME NEW e \in Exports PROVE LoadsAlone(e)
    BY <2>1 DEF LoadsAlone
  <2>4. QED
    BY <2>2, <2>3
<1>4. AloneShowsOwn /\ AtomicIsWhole
  BY DEF ExportInit, AloneShowsOwn, AtomicIsWhole, Called
<1>5. QED
  BY <1>1, <1>2, <1>3, <1>4 DEF ExportInv

-----------------------------------------------------------------------------
(* What a report of the browser does, in terms of the fields before it     *)

(* The image is drawn or not, and export e calls back, throws, or waits    *)
(* for the next element of the buffer.                                     *)
CallsBack(e, paint) ==
  /\ drawn + 1 = Len(buffer) /\ drawn' = drawn + 1 /\ painted' = paint
  /\ chain' = [chain EXCEPT ![e] = "calledBack"] /\ loading' = loading
  /\ result' = [result EXCEPT ![e] =
       [canvas |-> canvas, elements |-> IF IsSvg(cfg[e].format) THEN buffer ELSE paint[canvas]]]

Throws(e, paint) ==
  /\ drawn' \in {drawn, drawn + 1} /\ painted' = paint
  /\ chain' = [chain EXCEPT ![e] = "failed"]
  /\ UNCHANGED <<loading, result>>

GoesOn(e, paint) ==
  /\ drawn + 1 < Len(buffer) /\ drawn' = drawn + 1 /\ painted' = paint
  /\ chain' = [chain EXCEPT ![e] = "loading"]
  /\ loading' = [loading EXCEPT ![e] = buffer[drawn + 2]]
  /\ UNCHANGED result

Report(e, paint) ==
  /\ chain[e] = "loading"
  /\ CallsBack(e, paint) \/ Throws(e, paint) \/ GoesOn(e, paint)
  /\ UNCHANGED <<buffer, canvas, cfg, count, overlap>>
  /\ broken \subseteq broken' /\ broken' \subseteq broken \cup {e}
  /\ paint = Paint(e) \/ (paint = painted /\ e \in broken')

LEMMA ReportCases ==
  ASSUME ExportInv, NEW e \in Exports, SvgImageReports(e)
  PROVE  \E paint \in {painted, Paint(e)} : Report(e, paint)
<1>1. chain[e] = "loading" /\ cfg[e].format # "svg" /\ cfg[e].render = "browser"
  BY DEF SvgImageReports, SvgImageLoaded, SvgImageFails, ExportInv, Paints
<1>2. drawn \in Nat
  BY DEF ExportInv, ExportFields, ExportTypeOK
<1>3. ASSUME NEW paint, DrawItWhenItsLoaded(e, cfg[e], buffer, drawn + 1, canvas, paint)
      PROVE  CallsBack(e, paint) \/ Throws(e, paint) \/ GoesOn(e, paint)
  <2>1. CASE /\ drawn + 1 = Len(buffer)
             /\ InternalCallback(e, cfg[e].format, buffer, canvas, paint)
             /\ Ends(e, "calledBack")
             /\ drawn' = drawn + 1 /\ painted' = paint
    BY <2>1 DEF InternalCallback, Ends, CallsBack
  <2>2. CASE /\ Ends(e, "failed")
             /\ drawn' = drawn + 1 /\ painted' = paint /\ UNCHANGED result
    BY <2>2 DEF Ends, Throws
  <2>3. CASE /\ drawn + 1 < Len(buffer)
             /\ chain' = [chain EXCEPT ![e] = "loading"]
             /\ loading' = [loading EXCEPT ![e] = buffer[drawn + 1 + 1]]
             /\ drawn' = drawn + 1 /\ painted' = paint /\ UNCHANGED result
    BY <1>2, <2>3 DEF GoesOn
  <2>4. QED
    BY <1>1, <1>3, <2>1, <2>2, <2>3 DEF DrawItWhenItsLoaded
<1>4. CASE SvgImageLoaded(e)
  BY <1>1, <1>3, <1>4 DEF SvgImageLoaded, Report
<1>5. CASE SvgImageFails(e)
  <2>1. CASE DrawItWhenItsLoaded(e, cfg[e], buffer, drawn + 1, canvas, painted)
    BY <1>1, <1>3, <1>5, <2>1 DEF SvgImageFails, Report
  <2>2. CASE Ends(e, "failed") /\ UNCHANGED <<drawn, painted, result>>
    <3>1. Throws(e, painted)
      BY <2>2 DEF Ends, Throws
    <3>2. QED
      BY <1>1, <1>5, <3>1 DEF SvgImageFails, Report
  <2>3. QED
    BY <1>5, <2>1, <2>2 DEF SvgImageFails
<1>6. QED
  BY <1>4, <1>5 DEF SvgImageReports

-----------------------------------------------------------------------------
(* The inductive invariant: a report of the browser                        *)

(* What the proofs use of a report: export e waits for loading[e], paints  *)
(* at most that, and no other export is disturbed.                         *)
LEMMA ReportFacts ==
  ASSUME ExportInv, NEW e \in Exports, NEW paint, Report(e, paint)
  PROVE  /\ loading[e] \in SvgElements
         /\ paint \in [Exports -> Seq(SvgElements)] /\ painted' = paint
         /\ paint[e] = painted[e] \/ paint[e] = Append(painted[e], loading[e])
         /\ e \notin broken' => paint[e] = Append(painted[e], loading[e])
         /\ canvas \in Exports /\ e <= canvas /\ buffer = Own(canvas, count[canvas])
         /\ \A d \in Exports \ {e} :
              /\ chain'[d] = chain[d] /\ loading'[d] = loading[d]
              /\ paint[d] = painted[d] /\ result'[d] = result[d]
              /\ d \in broken' <=> d \in broken
<1>1. ExportFields /\ LastBegun /\ chain[e] = "loading"
  BY DEF ExportInv, Report
<1>2. loading[e] \in SvgElements
  BY <1>1 DEF ExportFields, ExportTypeOK
<1>3. /\ paint \in [Exports -> Seq(SvgElements)]
      /\ paint[e] = painted[e] \/ paint[e] = Append(painted[e], loading[e])
      /\ e \notin broken' => paint[e] = Append(painted[e], loading[e])
      /\ \A d \in Exports \ {e} : paint[d] = painted[d]
  <2>1. painted \in [Exports -> Seq(SvgElements)]
    BY <1>1 DEF ExportFields
  <2>2. Append(painted[e], loading[e]) \in Seq(SvgElements)
    BY <1>2, <2>1
  <2>3. CASE paint = painted /\ e \in broken'
    BY <2>1, <2>3
  <2>4. CASE paint = Paint(e)
    BY <2>1, <2>2, <2>4 DEF Paint
  <2>5. QED
    BY <2>3, <2>4 DEF Report
<1>4. canvas \in Exports /\ e <= canvas /\ buffer = Own(canvas, count[canvas])
  BY <1>1, ExportAssumption DEF ExportFields, ExportTypeOK, LastBegun
<1>5. painted' = paint
  BY DEF Report, CallsBack, Throws, GoesOn
<1>6. ASSUME NEW d \in Exports \ {e}
      PROVE  /\ chain'[d] = chain[d] /\ loading'[d] = loading[d] /\ result'[d] = result[d]
             /\ d \in broken' <=> d \in broken
  <2>1. chain'[d] = chain[d] /\ loading'[d] = loading[d] /\ result'[d] = result[d]
    BY <1>1 DEF Report, CallsBack, Throws, GoesOn, ExportFields, ExportTypeOK
  <2>2. QED
    BY <2>1 DEF Report
<1>7. QED
  BY <1>2, <1>3, <1>4, <1>5, <1>6

LEMMA ReportTypeOK ==
  ASSUME ExportInv, NEW e \in Exports, NEW paint, Report(e, paint)
  PROVE  ExportFields'
<1>1. ExportFields /\ ExportTypeOK /\ chain[e] = "loading"
  BY DEF ExportInv, ExportFields, Report
<1>2. /\ buffer' \in Seq(SvgElements) /\ canvas' \in Exports \cup {0}
      /\ cfg' \in [Exports -> [format : ExportFormats, render : Renders] \cup {NoCfg}]
      /\ count' \in [Exports -> 0 .. MaxSvgs] /\ overlap' \cup broken' \subseteq Exports
  BY <1>1 DEF ExportTypeOK, Report
<1>3. drawn' \in Nat
  BY <1>1 DEF ExportTypeOK, Report, CallsBack, Throws, GoesOn
<1>4. chain' \in [Exports -> {"idle", "loading", "calledBack", "failed"}]
  BY <1>1 DEF ExportTypeOK, Report, CallsBack, Throws, GoesOn
<1>5. painted' \in [Exports -> Seq(SvgElements)]
  BY ReportFacts
<1>6. loading' \in [Exports -> SvgElements \cup {NoElement}] /\ (chain'[e] = "loading" => loading'[e] # NoElement)
  <2>1. CASE GoesOn(e, paint)
    <3>1. buffer[drawn + 2] \in SvgElements
      BY <1>1, <2>1 DEF GoesOn, ExportTypeOK
    <3>2. NoElement \notin SvgElements
      BY ExportAssumption DEF NoElement, SvgElements
    <3>3. QED
      BY <1>1, <2>1, <3>1, <3>2 DEF GoesOn, ExportTypeOK
  <2>2. CASE CallsBack(e, paint) \/ Throws(e, paint)
    BY <1>1, <2>2 DEF CallsBack, Throws, ExportTypeOK
  <2>3. QED
    BY <2>1, <2>2 DEF Report
<1>7. result' \in [Exports -> [canvas : Exports \cup {0}, elements : Seq(SvgElements)]]
  <2>1. CASE CallsBack(e, paint)
    <3>1. paint[canvas] \in Seq(SvgElements) /\ buffer \in Seq(SvgElements) /\ canvas \in Exports
      BY <1>1, ReportFacts DEF ExportTypeOK
    <3>2. QED
      BY <1>1, <2>1, <3>1 DEF CallsBack, ExportFields
  <2>2. CASE Throws(e, paint) \/ GoesOn(e, paint)
    BY <1>1, <2>2 DEF Throws, GoesOn, ExportFields
  <2>3. QED
    BY <2>1, <2>2 DEF Report
<1>8. \A d \in Exports : chain'[d] = "loading" => loading'[d] # NoElement
  <2>1. ASSUME NEW d \in Exports, d # e
        PROVE  chain'[d] = "loading" => loading'[d] # NoElement
    BY <1>1, <2>1, ReportFacts DEF ExportTypeOK
  <2>2. QED
    BY <1>6, <2>1
<1>9. QED
  BY <1>2, <1>3, <1>4, <1>5, <1>6, <1>7, <1>8 DEF ExportFields, ExportTypeOK

LEMMA ReportLastBegun ==
  ASSUME ExportInv, NEW e \in Exports, NEW paint, Report(e, paint)
  PROVE  LastBegun'
<1>1. ExportFields /\ ExportTypeOK /\ LastBegun /\ chain[e] = "loading"
  BY DEF ExportInv, ExportFields, Report
<1>2. chain'[e] # "idle"
  BY <1>1 DEF ExportTypeOK, Report, CallsBack, Throws, GoesOn
<1>3. \A d \in Exports : chain'[d] # "idle" <=> chain[d] # "idle"
  BY <1>1, <1>2, ReportFacts
<1>4. QED
  BY <1>1, <1>3 DEF LastBegun, Report

LEMMA AppendElements ==
  ASSUME NEW S, NEW p \in Seq(S), NEW l \in S
  PROVE  /\ Len(p) \in Nat /\ DOMAIN p = 1 .. Len(p)
         /\ DOMAIN Append(p, l) = 1 .. Len(p) + 1
         /\ \A i \in 1 .. Len(p) : p[i] \in S /\ Append(p, l)[i] = p[i]
         /\ Append(p, l)[Len(p) + 1] = l
OBVIOUS

LEMMA ReportPaints ==
  ASSUME ExportInv, NEW e \in Exports, NEW paint, Report(e, paint), NEW d \in Exports
  PROVE  Paints(d)'
<1>1. /\ ExportTypeOK /\ Paints(d) /\ chain[e] = "loading" /\ ExportAssumption
      /\ painted \in [Exports -> Seq(SvgElements)]
  BY ExportAssumption DEF ExportInv, ExportFields, Report
<1>2. drawn \in Nat /\ drawn' \in {drawn, drawn + 1} /\ canvas' = canvas /\ cfg' = cfg
  BY <1>1 DEF ExportTypeOK, Report, CallsBack, Throws, GoesOn
<1>3. CASE d # e
  <2>1. loading[d] \in SvgElements \cup {NoElement} /\ canvas \in Nat
    BY <1>1, ReportFacts DEF ExportTypeOK, ExportAssumption
  <2>2. loading[d][2] \in Nat
    BY <1>1, <2>1 DEF SvgElements, NoElement, ExportAssumption
  <2>3. painted'[d] = painted[d] /\ chain'[d] = chain[d] /\ loading'[d] = loading[d]
    BY <1>3, ReportFacts
  <2>4. QED
    BY <1>1, <1>2, <2>2, <2>3 DEF Paints
<1>4. CASE d = e
  <2> DEFINE p == painted[e]
             l == loading[e]
  <2>1. /\ p \in Seq(SvgElements) /\ l \in SvgElements
        /\ painted'[e] = p \/ painted'[e] = Append(p, l)
        /\ \A i, j \in DOMAIN p : i < j => Before(p[i], p[j])
        /\ \A i \in DOMAIN p : Before(p[i], l)
        /\ l[1] <= canvas /\ (l[1] = canvas => l[2] <= drawn + 1)
    BY <1>1, <1>4, ReportFacts DEF Paints
  <2> HIDE DEF p, l
  <2>2. \A i, j \in DOMAIN painted'[e] : i < j => Before(painted'[e][i], painted'[e][j])
    <3>1. CASE painted'[e] = p
      BY <2>1, <3>1
    <3>2. CASE painted'[e] = Append(p, l)
      BY <2>1, <3>2, AppendElements
    <3>3. QED
      BY <2>1, <3>1, <3>2
  <2>3. chain'[e] # "idle"
    BY <1>1 DEF ExportTypeOK, Report, CallsBack, Throws, GoesOn
  <2>4. ASSUME chain'[e] = "loading"
        PROVE  /\ cfg[e].format # "svg" /\ cfg[e].render = "browser"
               /\ loading'[e][1] <= canvas
               /\ loading'[e][1] = canvas => loading'[e][2] <= drawn' + 1
               /\ \A i \in DOMAIN painted'[e] : Before(painted'[e][i], loading'[e])
    <3>1. GoesOn(e, paint)
      BY <1>1, <2>4 DEF ExportTypeOK, Report, CallsBack, Throws
    <3>2. /\ canvas \in Exports /\ count[canvas] \in 0 .. MaxSvgs
          /\ buffer = Own(canvas, count[canvas])
      BY <1>1, ReportFacts DEF ExportTypeOK
    <3>3. drawn + 2 \in 1 .. count[canvas]
      BY <1>2, <3>1, <3>2, OwnElements, ExportAssumption DEF GoesOn
    <3>4. loading'[e] = <<canvas, drawn + 2>>
      <4>1. loading'[e] = buffer[drawn + 2]
        BY <1>1, <3>1 DEF GoesOn, ExportTypeOK
      <4>2. QED
        BY <3>2, <3>3, <4>1, OwnElements
    <3>5. /\ loading'[e][1] = canvas /\ loading'[e][2] = drawn + 2 /\ canvas \in Nat
          /\ drawn' = drawn + 1
      BY <3>1, <3>2, <3>4, ExportAssumption DEF GoesOn
    <3>6. ASSUME NEW x \in SvgElements PROVE x[1] \in Nat /\ x[2] \in Nat
      <4>1. PICK d1 \in Exports, n \in 1 .. MaxSvgs : x = <<d1, n>>
        BY DEF SvgElements
      <4>2. QED
        BY <4>1, ExportAssumption
    <3>6a. l[1] \in Nat /\ l[2] \in Nat /\ Before(l, loading'[e])
      BY <1>2, <2>1, <3>5, <3>6 DEF Before
    <3>7. ASSUME NEW i \in DOMAIN p PROVE Before(p[i], loading'[e])
      <4>1. Before(p[i], l)
        BY <2>1
      <4>2. p[i] \in SvgElements
        <5>1. DOMAIN p = 1 .. Len(p)
          BY <2>1
        <5>2. QED
          BY <2>1, <5>1
      <4>3. p[i][1] \in Nat /\ p[i][2] \in Nat
        BY <3>6, <4>2
      <4>4. QED
        BY <1>2, <3>5, <3>6a, <4>1, <4>3 DEF Before
    <3>8. \A i \in DOMAIN painted'[e] : Before(painted'[e][i], loading'[e])
      <4>1. CASE painted'[e] = p
        BY <3>7, <4>1
      <4>2. CASE painted'[e] = Append(p, l)
        BY <2>1, <3>6a, <3>7, <4>2, AppendElements
      <4>3. QED
        BY <2>1, <4>1, <4>2
    <3>9. QED
      BY <1>1, <1>2, <1>4, <3>5, <3>8 DEF Paints
  <2>5. QED
    BY <1>2, <1>4, <2>2, <2>3, <2>4 DEF Paints
<1>5. QED
  BY <1>3, <1>4

(* Only the export itself can go on alone: another one that waits would    *)
(* have been overlapped by it.                                             *)
LEMMA ReportLoadsAlone ==
  ASSUME ExportInv, NEW e \in Exports, NEW paint, Report(e, paint), NEW d \in Exports
  PROVE  LoadsAlone(d)'
<1> SUFFICES ASSUME chain'[d] = "loading", d \notin overlap
             PROVE  /\ canvas = d
                    /\ \A c \in Exports : chain'[c] = "loading" => c = d
                    /\ drawn' < count[d] /\ loading'[d] = <<d, drawn' + 1>>
                    /\ \A i \in DOMAIN painted'[d] :
                         painted'[d][i][1] = d /\ painted'[d][i][2] <= drawn'
                    /\ d \notin broken' => painted'[d] = Own(d, drawn')
  BY DEF LoadsAlone, Report
<1>1. ExportTypeOK /\ chain[e] = "loading" /\ canvas' = canvas
  BY DEF ExportInv, ExportFields, Report
<1>2. chain[d] = "loading"
  BY <1>1, ReportFacts
<1>3. LoadsAlone(d)
  BY DEF ExportInv
<1>4. /\ canvas = d /\ d = e /\ \A c \in Exports : chain[c] = "loading" => c = d
      /\ drawn < count[d] /\ loading[d] = <<d, drawn + 1>>
      /\ \A i \in DOMAIN painted[d] : painted[d][i][1] = d /\ painted[d][i][2] <= drawn
      /\ d \notin broken => painted[d] = Own(d, drawn)
  BY <1>1, <1>2, <1>3 DEF LoadsAlone
<1>5. GoesOn(e, paint)
  BY <1>1, <1>4 DEF ExportTypeOK, Report, CallsBack, Throws
<1>6. drawn \in Nat /\ drawn' = drawn + 1 /\ count[d] \in 0 .. MaxSvgs /\ MaxSvgs \in Nat
  BY <1>1, <1>5, ExportAssumption DEF ExportTypeOK, GoesOn
<1>7. drawn + 2 \in 1 .. count[d] /\ loading'[d] = <<d, drawn + 2>>
  <2>1. drawn + 2 \in 1 .. count[d]
    BY <1>4, <1>5, <1>6, ReportFacts, OwnElements DEF GoesOn
  <2>2. loading'[d] = buffer[drawn + 2]
    BY <1>1, <1>4, <1>5 DEF GoesOn, ExportTypeOK
  <2>3. QED
    <3>1. buffer = Own(d, count[d])
      BY <1>4, ReportFacts
    <3>2. Own(d, count[d])[drawn + 2] = <<d, drawn + 2>>
      BY <1>6, <2>1, OwnElements
    <3>3. QED
      BY <2>1, <2>2, <3>1, <3>2
<1>8. \A c \in Exports : chain'[c] = "loading" => c = d
  BY <1>4, ReportFacts
<1>9. \A i \in DOMAIN painted'[d] :
         painted'[d][i][1] = d /\ painted'[d][i][2] <= drawn + 1
  <2> DEFINE p == painted[d]
             l == <<d, drawn + 1>>
  <2>1. /\ p \in Seq(SvgElements) /\ l \in SvgElements
        /\ painted'[d] = p \/ painted'[d] = Append(p, l)
        /\ \A i \in DOMAIN p : p[i][1] = d /\ p[i][2] <= drawn
    BY <1>4, ReportFacts DEF ExportInv, ExportFields
  <2>2. l[1] = d /\ l[2] = drawn + 1
    OBVIOUS
  <2> HIDE DEF p, l
  <2>3. ASSUME NEW i \in DOMAIN p PROVE p[i][2] <= drawn + 1
    <3>1. p[i] \in SvgElements /\ p[i][2] <= drawn
      BY <2>1, AppendElements
    <3>2. p[i][2] \in Nat
      BY <3>1 DEF SvgElements
    <3>3. QED
      BY <1>6, <3>1, <3>2
  <2>4. CASE painted'[d] = p
    BY <2>1, <2>3, <2>4
  <2>5. CASE painted'[d] = Append(p, l)
    BY <1>6, <2>1, <2>2, <2>3, <2>5, AppendElements
  <2>6. QED
    BY <2>1, <2>4, <2>5
<1>10. ASSUME d \notin broken' PROVE painted'[d] = Own(d, drawn + 1)
  <2>1. painted[d] = Own(d, drawn) /\ painted'[d] = Append(painted[d], <<d, drawn + 1>>)
    BY <1>4, <1>10, ReportFacts DEF Report
  <2>2. QED
    BY <1>6, <2>1, OwnGrows
<1>11. QED
  BY <1>4, <1>6, <1>7, <1>8, <1>9, <1>10

LEMMA ReportResults ==
  ASSUME ExportInv, NEW e \in Exports, NEW paint, Report(e, paint)
  PROVE  AloneShowsOwn' /\ AtomicIsWhole'
<1>1. /\ ExportTypeOK /\ AloneShowsOwn /\ AtomicIsWhole /\ chain[e] = "loading"
      /\ result \in [Exports -> [canvas : Exports \cup {0}, elements : Seq(SvgElements)]]
      /\ cfg[e].format # "svg" /\ cfg[e].render = "browser"
      /\ cfg' = cfg /\ count' = count /\ overlap' = overlap
  BY DEF ExportInv, ExportFields, Report, Paints
<1>2. ASSUME NEW d \in Exports, d # e
      PROVE  /\ chain'[d] = chain[d] /\ result'[d] = result[d]
             /\ d \in broken' <=> d \in broken
  BY <1>2, ReportFacts
<1>3. AtomicIsWhole'
  BY <1>1, <1>2 DEF AtomicIsWhole, Called
<1>4. ASSUME chain'[e] = "calledBack", e \notin overlap
      PROVE  /\ result'[e].canvas = e
             /\ e \notin broken' => result'[e].elements = Own(e, count[e])
             /\ \A i, j \in DOMAIN result'[e].elements :
                  /\ result'[e].elements[i][1] = e
                  /\ i < j => result'[e].elements[i][2] < result'[e].elements[j][2]
  <2>1. CallsBack(e, paint)
    BY <1>1, <1>4 DEF Report, Throws, GoesOn, ExportTypeOK
  <2>2. /\ canvas = e /\ drawn < count[e] /\ loading[e] = <<e, drawn + 1>>
        /\ \A i \in DOMAIN painted[e] : painted[e][i][1] = e /\ painted[e][i][2] <= drawn
        /\ e \notin broken => painted[e] = Own(e, drawn)
    BY <1>1, <1>4 DEF LoadsAlone, ExportInv
  <2>3. count[e] \in 0 .. MaxSvgs /\ drawn \in Nat /\ MaxSvgs \in Nat
    BY <1>1, ExportAssumption DEF ExportTypeOK
  <2>4. buffer = Own(e, count[e]) /\ drawn + 1 = count[e]
    BY <2>1, <2>2, <2>3, ReportFacts, OwnElements DEF CallsBack
  <2>5. result'[e] = [canvas |-> e, elements |-> IF IsSvg(cfg[e].format) THEN buffer ELSE paint[e]]
    BY <1>1, <2>1, <2>2 DEF CallsBack
  <2>6. CASE IsSvg(cfg[e].format)
    <3>1. result'[e].canvas = e /\ result'[e].elements = Own(e, count[e])
      BY <2>4, <2>5, <2>6
    <3> DEFINE own == Own(e, count[e])
               n == count[e]
    <3>2. DOMAIN own = 1 .. n /\ \A i \in 1 .. n : own[i] = <<e, i>>
      BY <2>3, OwnElements
    <3> HIDE DEF own, n
    <3>3. \A i, j \in DOMAIN own : own[i][1] = e /\ (i < j => own[i][2] < own[j][2])
      BY <3>2
    <3>4. QED
      BY <3>1, <3>3 DEF own
  <2>7. CASE ~ IsSvg(cfg[e].format)
    <3>1. result'[e].canvas = e /\ result'[e].elements = paint[e]
      BY <2>5, <2>7
    <3>2. painted' = paint /\ paint[e] \in Seq(SvgElements)
      BY ReportFacts
    <3>3. ASSUME e \notin broken' PROVE paint[e] = Own(e, count[e])
      <4>1. painted[e] = Own(e, drawn) /\ paint[e] = Append(painted[e], <<e, drawn + 1>>)
        BY <2>2, <3>3, ReportFacts DEF Report
      <4>2. QED
        BY <2>3, <2>4, <4>1, OwnGrows
    <3>4. \A i, j \in DOMAIN paint[e] : i < j => Before(paint[e][i], paint[e][j])
      BY <3>2, ReportPaints DEF Paints
    <3>5. \A i \in DOMAIN paint[e] : paint[e][i][1] = e
      <4> DEFINE p == painted[e]
                 l == <<e, drawn + 1>>
      <4>1. /\ p \in Seq(SvgElements) /\ l \in SvgElements
            /\ paint[e] = p \/ paint[e] = Append(p, l)
            /\ l[1] = e /\ \A i \in DOMAIN p : p[i][1] = e
        <5>1. l \in SvgElements /\ l[1] = e /\ (paint[e] = p \/ paint[e] = Append(p, l))
          BY <2>2, ReportFacts
        <5>2. p \in Seq(SvgElements)
          BY DEF ExportInv, ExportFields
        <5>3. QED
          BY <2>2, <5>1, <5>2
      <4> HIDE DEF p, l
      <4>2. CASE paint[e] = p
        BY <4>1, <4>2
      <4>3. CASE paint[e] = Append(p, l)
        BY <4>1, <4>3, AppendElements
      <4>4. QED
        BY <4>1, <4>2, <4>3
    <3>6. \A i, j \in DOMAIN paint[e] : i < j => paint[e][i][2] < paint[e][j][2]
      BY <3>4, <3>5, ExportAssumption DEF Before
    <3>7. QED
      BY <3>1, <3>3, <3>5, <3>6
  <2>8. QED
    BY <2>6, <2>7
<1>5. ASSUME NEW d \in Exports, chain'[d] = "calledBack", d \notin overlap
      PROVE  /\ result'[d].canvas = d
             /\ d \notin broken' => result'[d].elements = Own(d, count[d])
             /\ \A i, j \in DOMAIN result'[d].elements :
                  /\ result'[d].elements[i][1] = d
                  /\ i < j => result'[d].elements[i][2] < result'[d].elements[j][2]
  <2>1. CASE d = e
    BY <1>4, <1>5, <2>1
  <2>2. CASE d # e
    BY <1>1, <1>2, <1>5, <2>2 DEF AloneShowsOwn, Called
  <2>3. QED
    BY <2>1, <2>2
<1>6. AloneShowsOwn'
  BY <1>1, <1>5 DEF AloneShowsOwn, Called
<1>7. QED
  BY <1>3, <1>6

-----------------------------------------------------------------------------
(* The inductive invariant: the start of an export                         *)

(* The new export has the file of its own elements at once, or waits for   *)
(* the first of them.                                                      *)
DoneAtOnce(e, n) ==
  /\ chain' = [chain EXCEPT ![e] = "calledBack"] /\ loading' = loading
  /\ drawn' \in Nat
  /\ painted' = painted \/ painted' = [painted EXCEPT ![e] = Own(e, n)]
  /\ result' = [result EXCEPT ![e] = [canvas |-> e, elements |-> Own(e, n)]]

WaitsForFirst(e, n, c) ==
  /\ n # 0 /\ c.format # "svg" /\ c.render = "browser"
  /\ chain' = [chain EXCEPT ![e] = "loading"]
  /\ loading' = [loading EXCEPT ![e] = <<e, 1>>]
  /\ drawn' = 0 /\ painted' = painted /\ result' = result

LEMMA OutputCases ==
  ASSUME ExportInv, NEW e \in Exports, NEW n \in 0 .. MaxSvgs,
         NEW c \in [format : ExportFormats, render : Renders], OutputChart(e, n, c)
  PROVE  /\ chain[e] = "idle" /\ painted[e] = <<>>
         /\ DoneAtOnce(e, n) \/ WaitsForFirst(e, n, c)
<1>1. /\ painted \in [Exports -> Seq(SvgElements)] /\ ExportTypeOK
      /\ result \in [Exports -> [canvas : Exports \cup {0}, elements : Seq(SvgElements)]]
  BY DEF ExportInv, ExportFields
<1>2. chain[e] = "idle" /\ painted[e] = <<>>
  BY DEF OutputChart, ExportInv, Paints
<1>3. /\ Own(e, n) \in Seq(SvgElements) /\ Len(Own(e, n)) = n /\ n \in Nat
      /\ DrawItWhenItsLoaded(e, c, Own(e, n), 0, e, painted)
  BY OwnElements, ExportAssumption DEF OutputChart
<1>4. CASE /\ 0 = n \/ c.format = "svg"
           /\ InternalCallback(e, c.format, Own(e, n), e, painted)
           /\ Ends(e, "calledBack")
           /\ drawn' = 0 /\ painted' = painted
  <2>1. (IF IsSvg(c.format) THEN Own(e, n) ELSE painted[e]) = Own(e, n)
    BY <1>2, <1>4, OwnElements DEF IsSvg
  <2>2. result' = [result EXCEPT ![e] = [canvas |-> e, elements |-> Own(e, n)]]
    BY <1>4, <2>1 DEF InternalCallback
  <2>3. QED
    BY <1>2, <1>4, <2>2 DEF DoneAtOnce, Ends
<1>5. CASE /\ 0 < n /\ c.format # "svg" /\ c.render = "browser"
           /\ chain' = [chain EXCEPT ![e] = "loading"]
           /\ loading' = [loading EXCEPT ![e] = Own(e, n)[0 + 1]]
           /\ drawn' = 0 /\ painted' = painted /\ UNCHANGED result
  <2>1. Own(e, n)[0 + 1] = <<e, 1>>
    BY <1>3, <1>5, OwnElements
  <2>2. QED
    BY <1>2, <1>5, <2>1 DEF WaitsForFirst
<1>6. CASE /\ painted' = [painted EXCEPT ![e] = @ \o SubSeq(Own(e, n), 0 + 1, Len(Own(e, n)))]
           /\ drawn' = Len(Own(e, n))
           /\ InternalCallback(e, c.format, Own(e, n), e, painted')
           /\ Ends(e, "calledBack")
  <2>1. painted' = [painted EXCEPT ![e] = Own(e, n)]
    BY <1>2, <1>6, OwnWhole
  <2>2. (IF IsSvg(c.format) THEN Own(e, n) ELSE painted'[e]) = Own(e, n)
    BY <1>1, <2>1
  <2>3. result' = [result EXCEPT ![e] = [canvas |-> e, elements |-> Own(e, n)]]
    BY <1>6, <2>2 DEF InternalCallback
  <2>4. QED
    BY <1>2, <1>3, <1>6, <2>1, <2>3 DEF DoneAtOnce, Ends
<1>7. QED
  BY <1>2, <1>3, <1>4, <1>5, <1>6 DEF DrawItWhenItsLoaded

(* The other exports are not disturbed, and the fields are those of e.     *)
LEMMA OutputFacts ==
  ASSUME ExportInv, NEW e \in Exports, NEW n \in 0 .. MaxSvgs,
         NEW c \in [format : ExportFormats, render : Renders], OutputChart(e, n, c)
  PROVE  /\ buffer' = Own(e, n) /\ canvas' = e /\ broken' = broken
         /\ cfg' = [cfg EXCEPT ![e] = c] /\ cfg'[e] = c
         /\ count' = [count EXCEPT ![e] = n] /\ count'[e] = n
         /\ overlap \subseteq overlap' /\ overlap' \subseteq overlap \cup Exporting \cup {e}
         /\ Exporting # {} => Exporting \subseteq overlap' /\ e \in overlap'
         /\ \A d \in Exports : chain[d] # "idle" => d < e
         /\ \A d \in Exports \ {e} :
              /\ chain'[d] = chain[d] /\ loading'[d] = loading[d]
              /\ painted'[d] = painted[d] /\ result'[d] = result[d]
              /\ cfg'[d] = cfg[d] /\ count'[d] = count[d]
<1>1. ExportFields /\ ExportTypeOK /\ LastBegun
  BY DEF ExportInv, ExportFields
<1>2. /\ buffer' = Own(e, n) /\ canvas' = e /\ broken' = broken
      /\ cfg' = [cfg EXCEPT ![e] = c] /\ count' = [count EXCEPT ![e] = n]
      /\ overlap \subseteq overlap' /\ overlap' \subseteq overlap \cup Exporting \cup {e}
      /\ Exporting # {} => Exporting \subseteq overlap' /\ e \in overlap'
  BY DEF OutputChart
<1>3. cfg'[e] = c /\ count'[e] = n /\ \A d \in Exports \ {e} : cfg'[d] = cfg[d] /\ count'[d] = count[d]
  BY <1>1, <1>2 DEF ExportTypeOK
<1>4. \A d \in Exports : chain[d] # "idle" => d < e
  BY <1>1, ExportAssumption DEF OutputChart, LastBegun, ExportTypeOK
<1>5. ASSUME NEW d \in Exports \ {e}
      PROVE  /\ chain'[d] = chain[d] /\ loading'[d] = loading[d]
             /\ painted'[d] = painted[d] /\ result'[d] = result[d]
  <2>1. CASE DoneAtOnce(e, n)
    BY <1>1, <2>1 DEF DoneAtOnce, ExportFields, ExportTypeOK
  <2>2. CASE WaitsForFirst(e, n, c)
    BY <1>1, <2>2 DEF WaitsForFirst, ExportFields, ExportTypeOK
  <2>3. QED
    BY <2>1, <2>2, OutputCases
<1>6. QED
  BY <1>2, <1>3, <1>4, <1>5

LEMMA OutputTypeOK ==
  ASSUME ExportInv, NEW e \in Exports, NEW n \in 0 .. MaxSvgs,
         NEW c \in [format : ExportFormats, render : Renders], OutputChart(e, n, c)
  PROVE  ExportFields'
<1>1. /\ ExportTypeOK /\ painted \in [Exports -> Seq(SvgElements)]
      /\ result \in [Exports -> [canvas : Exports \cup {0}, elements : Seq(SvgElements)]]
  BY DEF ExportInv, ExportFields
<1>2. /\ buffer' \in Seq(SvgElements) /\ canvas' \in Exports \cup {0}
      /\ count' \in [Exports -> 0 .. MaxSvgs] /\ overlap' \cup broken' \subseteq Exports
  <2>1. /\ buffer' = Own(e, n) /\ canvas' = e /\ broken' = broken
        /\ count' = [count EXCEPT ![e] = n]
        /\ overlap' \subseteq overlap \cup Exporting \cup {e}
    BY OutputFacts
  <2>2. QED
    BY <1>1, <2>1, OwnElements DEF ExportTypeOK, Exporting
<1>3. cfg' \in [Exports -> [format : ExportFormats, render : Renders] \cup {NoCfg}]
  <2>1. cfg' = [cfg EXCEPT ![e] = c]
    BY OutputFacts
  <2>2. QED
    BY <1>1, <2>1 DEF ExportTypeOK
<1>4. drawn' \in Nat /\ chain' \in [Exports -> {"idle", "loading", "calledBack", "failed"}]
  <2>1. CASE DoneAtOnce(e, n)
    BY <1>1, <2>1 DEF DoneAtOnce, ExportTypeOK
  <2>2. CASE WaitsForFirst(e, n, c)
    BY <1>1, <2>2 DEF WaitsForFirst, ExportTypeOK
  <2>3. QED
    BY <2>1, <2>2, OutputCases
<1>5. painted' \in [Exports -> Seq(SvgElements)]
  <2>1. painted' = painted \/ painted' = [painted EXCEPT ![e] = Own(e, n)]
    BY OutputCases DEF DoneAtOnce, WaitsForFirst
  <2>2. Own(e, n) \in Seq(SvgElements)
    BY OwnElements
  <2>3. QED
    BY <1>1, <2>1, <2>2
<1>6. result' \in [Exports -> [canvas : Exports \cup {0}, elements : Seq(SvgElements)]]
  <2>1. [canvas |-> e, elements |-> Own(e, n)] \in [canvas : Exports \cup {0}, elements : Seq(SvgElements)]
    BY OwnElements
  <2>2. QED
    <3>1. result' = result
          \/ result' = [result EXCEPT ![e] = [canvas |-> e, elements |-> Own(e, n)]]
      BY OutputCases DEF DoneAtOnce, WaitsForFirst
    <3>2. QED
      BY <1>1, <2>1, <3>1
<1>7. loading' \in [Exports -> SvgElements \cup {NoElement}]
  <2>1. n # 0 => <<e, 1>> \in SvgElements
    BY ExportAssumption DEF SvgElements
  <2>2. CASE DoneAtOnce(e, n)
    BY <1>1, <2>2 DEF DoneAtOnce, ExportTypeOK
  <2>3. CASE WaitsForFirst(e, n, c)
    BY <1>1, <2>1, <2>3 DEF WaitsForFirst, ExportTypeOK
  <2>4. QED
    BY <2>2, <2>3, OutputCases
<1>8. ASSUME NEW d \in Exports, chain'[d] = "loading" PROVE loading'[d] # NoElement
  <2>1. CASE d # e
    BY <1>1, <1>8, <2>1, OutputFacts DEF ExportTypeOK
  <2>2. CASE d = e
    <3>1. WaitsForFirst(e, n, c)
      BY <1>1, <1>8, <2>2, OutputCases DEF DoneAtOnce, ExportTypeOK
    <3>2. loading'[d] = <<e, 1>>
      BY <1>1, <2>2, <3>1 DEF WaitsForFirst, ExportTypeOK
    <3>3. QED
      BY <3>2, ExportAssumption DEF NoElement
  <2>3. QED
    BY <2>1, <2>2
<1>9. QED
  BY <1>2, <1>3, <1>4, <1>5, <1>6, <1>7, <1>8 DEF ExportFields, ExportTypeOK

LEMMA OutputPaints ==
  ASSUME ExportInv, NEW e \in Exports, NEW n \in 0 .. MaxSvgs,
         NEW c \in [format : ExportFormats, render : Renders], OutputChart(e, n, c),
         NEW d \in Exports
  PROVE  Paints(d)' /\ LoadsAlone(d)'
<1>1. /\ ExportTypeOK /\ LastBegun /\ Paints(d) /\ LoadsAlone(d)
      /\ painted \in [Exports -> Seq(SvgElements)] /\ canvas' = e
  BY OutputFacts DEF ExportInv, ExportFields
<1>2. CASE d # e
  <2>1. /\ chain'[d] = chain[d] /\ loading'[d] = loading[d] /\ painted'[d] = painted[d]
        /\ cfg'[d] = cfg[d]
    BY <1>2, OutputFacts
  <2>2. ASSUME chain[d] = "loading"
        PROVE  loading[d][1] < e /\ d \in overlap'
    <3>1. canvas < e /\ canvas \in Nat /\ loading[d][1] <= canvas /\ loading[d] \in SvgElements
      BY <1>1, <2>2, OutputFacts, ExportAssumption DEF LastBegun, ExportTypeOK, Paints
    <3>2. loading[d][1] \in Nat
      BY <3>1, ExportAssumption DEF SvgElements
    <3>3. d \in overlap'
      BY <2>2, OutputFacts DEF Exporting
    <3>4. QED
      BY <3>1, <3>2, <3>3, ExportAssumption
  <2>3. ASSUME chain[d] = "loading"
        PROVE  loading[d][1] <= e /\ loading[d][1] # e
    <3>1. loading[d] \in SvgElements
      BY <1>1, <2>3 DEF ExportTypeOK
    <3>2. loading[d][1] \in Nat /\ e \in Nat
      BY <3>1, ExportAssumption DEF SvgElements
    <3>3. QED
      BY <2>2, <2>3, <3>2
  <2>4. Paints(d)'
    BY <1>1, <2>1, <2>3 DEF Paints
  <2>5. LoadsAlone(d)'
    BY <2>1, <2>2 DEF LoadsAlone
  <2>6. QED
    BY <2>4, <2>5
<1>3. CASE d = e /\ DoneAtOnce(e, n)
  <2>1. chain'[d] = "calledBack" /\ (painted'[d] = <<>> \/ painted'[d] = Own(e, n))
    BY <1>1, <1>3, OutputCases DEF DoneAtOnce, ExportTypeOK
  <2>2. \A i, j \in DOMAIN painted'[d] : i < j => Before(painted'[d][i], painted'[d][j])
    <3>1. CASE painted'[d] = <<>>
      BY <3>1
    <3>2. CASE painted'[d] = Own(e, n)
      BY <3>2, OwnElements DEF Before
    <3>3. QED
      BY <2>1, <3>1, <3>2
  <2>3. QED
    BY <2>1, <2>2 DEF Paints, LoadsAlone
<1>4. CASE d = e /\ WaitsForFirst(e, n, c)
  <2>1. /\ chain'[d] = "loading" /\ loading'[d] = <<e, 1>> /\ drawn' = 0 /\ painted'[d] = <<>>
        /\ cfg'[d].format # "svg" /\ cfg'[d].render = "browser" /\ count'[d] = n /\ n # 0
    <3>1. painted[e] = <<>> /\ cfg'[e] = c /\ count'[e] = n
      BY OutputCases, OutputFacts
    <3>2. QED
      BY <1>1, <1>4, <3>1 DEF WaitsForFirst, ExportTypeOK
  <2>2. e \in Nat /\ n \in Nat
    BY ExportAssumption
  <2>3. Paints(d)'
    BY <1>1, <1>4, <2>1, <2>2 DEF Paints
  <2>4. ASSUME d \notin overlap'
        PROVE  \A b \in Exports : chain'[b] = "loading" => b = d
    <3>1. Exporting = {}
      BY <1>4, <2>4, OutputFacts
    <3>2. QED
      BY <1>4, <3>1, OutputFacts DEF Exporting
  <2>5. painted'[d] = Own(d, 0)
    BY <2>1, OwnElements, ExportAssumption
  <2>6. LoadsAlone(d)'
    BY <1>1, <1>4, <2>1, <2>2, <2>4, <2>5 DEF LoadsAlone
  <2>7. QED
    BY <2>3, <2>6
<1>5. QED
  BY <1>2, <1>3, <1>4, OutputCases

LEMMA OutputResults ==
  ASSUME ExportInv, NEW e \in Exports, NEW n \in 0 .. MaxSvgs,
         NEW c \in [format : ExportFormats, render : Renders], OutputChart(e, n, c)
  PROVE  LastBegun' /\ AloneShowsOwn' /\ AtomicIsWhole'
<1>1. /\ ExportTypeOK /\ LastBegun /\ AloneShowsOwn /\ AtomicIsWhole
      /\ result \in [Exports -> [canvas : Exports \cup {0}, elements : Seq(SvgElements)]]
  BY DEF ExportInv, ExportFields
<1>2. chain'[e] # "idle" /\ (chain'[e] = "calledBack" => result'[e] = [canvas |-> e, elements |-> Own(e, n)])
  <2>1. CASE DoneAtOnce(e, n)
    BY <1>1, <2>1 DEF DoneAtOnce, ExportTypeOK
  <2>2. CASE WaitsForFirst(e, n, c)
    BY <1>1, <2>2 DEF WaitsForFirst, ExportTypeOK
  <2>3. QED
    BY <2>1, <2>2, OutputCases
<1>3. LastBegun'
  <2>1. /\ e # 0 /\ e \in Nat /\ canvas' = e /\ buffer' = Own(e, count'[e])
        /\ \A d \in Exports : chain[d] # "idle" => d < e
    BY OutputFacts, ExportAssumption
  <2>2. ASSUME NEW d \in Exports PROVE chain'[d] # "idle" <=> d <= e
    <3>1. CASE d = e
      BY <1>2, <2>1, <3>1
    <3>2. CASE d # e
      <4>1. chain'[d] = chain[d] /\ (d < e => chain[d] # "idle")
        <5>1. chain'[d] = chain[d]
          BY <3>2, OutputFacts
        <5>2. QED
          BY <5>1 DEF OutputChart
      <4>2. QED
        BY <2>1, <3>2, <4>1, ExportAssumption
    <3>3. QED
      BY <3>1, <3>2
  <2>3. QED
    BY <2>1, <2>2 DEF LastBegun
<1>4. ASSUME NEW d \in Exports, d # e
      PROVE  /\ chain'[d] = chain[d] /\ result'[d] = result[d]
             /\ cfg'[d] = cfg[d] /\ count'[d] = count[d]
             /\ d \in broken' <=> d \in broken
             /\ d \notin overlap' => d \notin overlap
  BY <1>4, OutputFacts
<1>5. AtomicIsWhole'
  <2>1. count'[e] = n
    BY OutputFacts
  <2>2. QED
    BY <1>1, <1>2, <1>4, <2>1 DEF AtomicIsWhole, Called
<1>6. ASSUME NEW d \in Exports, chain'[d] = "calledBack", d \notin overlap'
      PROVE  /\ result'[d].canvas = d
             /\ d \notin broken' => result'[d].elements = Own(d, count'[d])
             /\ \A i, j \in DOMAIN result'[d].elements :
                  /\ result'[d].elements[i][1] = d
                  /\ i < j => result'[d].elements[i][2] < result'[d].elements[j][2]
  <2>1. CASE d # e
    BY <1>1, <1>4, <1>6, <2>1 DEF AloneShowsOwn, Called
  <2>2. CASE d = e
    <3>1. result'[d].canvas = d /\ result'[d].elements = Own(d, n) /\ count'[d] = n
      BY <1>2, <1>6, <2>2, OutputFacts
    <3>2. QED
      BY <3>1, OwnElements, ExportAssumption
  <2>3. QED
    BY <2>1, <2>2
<1>7. AloneShowsOwn'
  BY <1>6 DEF AloneShowsOwn, Called
<1>8. QED
  BY <1>3, <1>5, <1>7

-----------------------------------------------------------------------------
(* The exports                                                             *)

LEMMA ExportInvStep == ExportInv /\ [ExportNext]_exportVars => ExportInv'
<1> SUFFICES ASSUME ExportInv, [ExportNext]_exportVars PROVE ExportInv'
  OBVIOUS
<1>1. ASSUME NEW e \in Exports, NEW n \in 0 .. MaxSvgs,
             NEW c \in [format : ExportFormats, render : Renders], OutputChart(e, n, c)
      PROVE  ExportInv'
  BY <1>1, OutputTypeOK, OutputPaints, OutputResults DEF ExportInv
<1>2. ASSUME NEW e \in Exports, SvgImageReports(e) PROVE ExportInv'
  <2>1. PICK paint \in {painted, Paint(e)} : Report(e, paint)
    BY <1>2, ReportCases
  <2>2. QED
    BY <2>1, ReportTypeOK, ReportLastBegun, ReportPaints, ReportLoadsAlone, ReportResults
      DEF ExportInv
<1>3. CASE UNCHANGED exportVars
  <2>1. ExportFields' /\ LastBegun'
    BY <1>3 DEF exportVars, ExportInv, ExportFields, ExportTypeOK, LastBegun
  <2>2. ASSUME NEW e \in Exports PROVE Paints(e)' /\ LoadsAlone(e)'
    BY <1>3 DEF exportVars, ExportInv, Paints, LoadsAlone
  <2>3. AloneShowsOwn' /\ AtomicIsWhole'
    BY <1>3 DEF exportVars, ExportInv, AloneShowsOwn, AtomicIsWhole, Called
  <2>4. QED
    BY <2>1, <2>2, <2>3 DEF ExportInv
<1>4. QED
  BY <1>1, <1>2, <1>3 DEF ExportNext

LEMMA ExportInvApart == ExportInv => ExportsApart
<1> SUFFICES ASSUME ExportInv PROVE ExportsApart
  OBVIOUS
<1>1. PaintedOnce
  <2> SUFFICES ASSUME NEW e \in Exports,
                      NEW i \in DOMAIN painted[e], NEW j \in DOMAIN painted[e], i < j
               PROVE  painted[e][i] # painted[e][j]
    BY DEF PaintedOnce
  <2>1. Before(painted[e][i], painted[e][j])
    BY DEF ExportInv, Paints
  <2>2. painted[e][i] \in SvgElements
    BY AppendElements DEF ExportInv, ExportFields
  <2>3. painted[e][i][1] \in Nat /\ painted[e][i][2] \in Nat
    BY <2>2, ExportAssumption DEF SvgElements
  <2>4. QED
    BY <2>1, <2>3 DEF Before
<1>2. QED
  BY <1>1 DEF ExportInv, ExportFields, ExportsApart

(* However exports overlap, the one that runs alone delivers its own       *)
(* picture, one that waits for nothing a whole picture, and no image is    *)
(* painted on a canvas twice, in every reachable state of amexport.        *)
THEOREM ExportsStayApart == ExportSpec => []ExportsApart
  BY ExportInvInit, ExportInvStep, ExportInvApart, PTL DEF ExportSpec

-----------------------------------------------------------------------------
(* The loop of a picture                                                   *)

Frames == Renderings \X {"interval", "events"}

LoopFields ==
  /\ svg \in Renderings \cup {0} /\ listener \in Renderings \cup {0}
  /\ opts \in [Renderings -> Options \cup {NoOptions}]
  /\ timer \in [Renderings -> {"none", "set", "cleared"}]
  /\ images \in [Renderings -> 0 .. MaxImages]
  /\ events \in [Renderings -> 0 .. MaxEvents]
  /\ called \in [Renderings -> {0, 1}]
  /\ waiting \in [Renderings -> BOOLEAN] /\ first \in [Renderings -> BOOLEAN]
  /\ stack \in Seq(Frames)

(* A rendering before its canvg(), and one before its first drawing.       *)
NotYet(r) ==
  /\ opts[r] = NoOptions =>
       svg # r /\ timer[r] = "none" /\ images[r] = 0 /\ called[r] = 0
  /\ first[r] => called[r] = 0 /\ waiting[r]

(* The drawings under way are first ones of different renderings.  All but *)
(* one from an interval have their own interval still to set, and are on   *)
(* the canvas unless a callback replaced them.                             *)
Nested ==
  /\ \A i, j \in 1 .. Len(stack) : i # j => stack[i][1] # stack[j][1]
  /\ \A i \in 1 .. Len(stack) :
       /\ called[stack[i][1]] = 1
       /\ i > 1 => stack[i][2] = "interval"
       /\ stack[i][2] = "interval" =>
            timer[stack[i][1]] = "none" /\ stack[i][1] \in {svg} \cup inside

LoopInv ==
  /\ LoopFields
  /\ \A r \in Renderings : NotYet(r)
  /\ Nested
  /\ OneLoop
  /\ CallbackSeesImages

-----------------------------------------------------------------------------
LEMMA FrameFacts ==
  ASSUME LoopFields
  PROVE  /\ Len(stack) \in Nat
         /\ \A i \in 1 .. Len(stack) :
              /\ stack[i] \in Frames /\ stack[i][1] \in Renderings
              /\ stack[i][2] \in {"interval", "events"}
BY DEF LoopFields, Frames

LEMMA LoopInvInit == LoopInit => LoopInv
<1> SUFFICES ASSUME LoopInit PROVE LoopInv
  OBVIOUS
<1>1. LoopFields
  <2>1. stack \in Seq(Frames)
    BY DEF LoopInit
  <2>2. QED
    BY <2>1, LoopAssumption DEF LoopInit, LoopFields
<1>2. ASSUME NEW r \in Renderings
      PROVE  /\ NotYet(r) /\ called[r] = 0 /\ timer[r] = "none"
  BY <1>2, LoopAssumption DEF LoopInit, NotYet
<1>3. Len(stack) = 0
  BY DEF LoopInit
<1>4. QED
  BY <1>1, <1>2, <1>3 DEF LoopInv, Nested, OneLoop, Running, CallbackSeesImages

LEMMA LoopInvDrawn == LoopInv => DrawnInTurn
<1> SUFFICES ASSUME LoopInv PROVE DrawnInTurn
  OBVIOUS
<1>1. \A i \in 1 .. Len(stack) :
         /\ stack[i] \in Renderings \X {"interval", "events"}
         /\ called[stack[i][1]] = 1
         /\ i > 1 => stack[i][2] = "interval"
  BY FrameFacts DEF LoopInv, Nested, Frames
<1>2. ASSUME NEW r \in Renderings
      PROVE  /\ called[r] <= 1 /\ (called[r] = 1 => ~first[r])
             /\ ~waiting[r] /\ timer[r] # "none" => ~first[r]
  BY DEF LoopInv, LoopFields, NotYet
<1>3. LoopTypeOK
  BY <1>1, <1>2 DEF LoopInv, LoopFields, LoopTypeOK
<1>4. QED
  BY <1>3 DEF LoopInv, DrawnInTurn

-----------------------------------------------------------------------------
(* A drawing for the first time, from canvg() or from the interval.        *)
LEMMA FirstDrawPushes ==
  ASSUME LoopInv, NEW r \in Renderings, NEW after \in {"interval", "events"},
         FirstDraw(r, after)
  PROVE  /\ called[r] = 0 /\ first' \in [Renderings -> BOOLEAN] /\ ~first'[r]
         /\ called' \in [Renderings -> {0, 1}] /\ called'[r] = 1
         /\ \A q \in Renderings \ {r} : called'[q] = called[q] /\ first'[q] = first[q]
         /\ stack' \in Seq(Frames) /\ Len(stack') = Len(stack) + 1 /\ Len(stack) \in Nat
         /\ \A i \in 1 .. Len(stack) : stack'[i] = stack[i]
         /\ stack'[Len(stack) + 1] = <<r, after>>
         /\ \A i \in 1 .. Len(stack) : stack[i][1] \in Renderings \ {r}
<1>1. LoopFields /\ NotYet(r) /\ Nested /\ stack \in Seq(Frames) /\ <<r, after>> \in Frames
  BY DEF LoopInv, LoopFields, Frames
<1>2. called[r] = 0 /\ called \in [Renderings -> {0, 1}] /\ first \in [Renderings -> BOOLEAN]
  BY <1>1 DEF LoopFields, NotYet, FirstDraw
<1>3. /\ called' \in [Renderings -> {0, 1}] /\ called'[r] = 1
      /\ \A q \in Renderings \ {r} : called'[q] = called[q]
  BY <1>2 DEF FirstDraw
<1>4. /\ first' \in [Renderings -> BOOLEAN] /\ ~first'[r]
      /\ \A q \in Renderings \ {r} : first'[q] = first[q]
  BY <1>2 DEF FirstDraw
<1>5. /\ stack' \in Seq(Frames) /\ Len(stack') = Len(stack) + 1 /\ Len(stack) \in Nat
      /\ \A i \in 1 .. Len(stack) : stack'[i] = stack[i]
      /\ stack'[Len(stack) + 1] = <<r, after>>
  BY <1>1 DEF FirstDraw
<1>6. \A i \in 1 .. Len(stack) : stack[i][1] \in Renderings \ {r}
  BY <1>1, <1>2, FrameFacts DEF Nested
<1>7. QED
  BY <1>2, <1>3, <1>4, <1>5, <1>6

LEMMA PopElements ==
  ASSUME NEW S, NEW s \in Seq(S), Len(s) > 0
  PROVE  /\ SubSeq(s, 1, Len(s) - 1) \in Seq(S)
         /\ Len(SubSeq(s, 1, Len(s) - 1)) = Len(s) - 1
         /\ \A i \in 1 .. Len(s) - 1 : SubSeq(s, 1, Len(s) - 1)[i] = s[i]
<1> DEFINE n == Len(s) - 1
<1>1. n \in Nat /\ \A i \in 1 .. n : s[i] \in S /\ 1 + i - 1 = i
  OBVIOUS
<1> HIDE DEF n
<1>2. n \in Int /\ n - 1 + 1 = n /\ (IF 1 <= n THEN n - 1 + 1 ELSE 0) = n /\ 1 \in Int
  BY <1>1
<1>3. /\ SubSeq(s, 1, n) \in Seq(S)
      /\ Len(SubSeq(s, 1, n)) = IF 1 <= n THEN n - 1 + 1 ELSE 0
      /\ \A i \in 1 .. n - 1 + 1 : SubSeq(s, 1, n)[i] = s[1 + i - 1]
  BY <1>1, <1>2, SubSeqProperties
<1>4. SubSeq(s, 1, n) \in Seq(S) /\ Len(SubSeq(s, 1, n)) = n
  BY <1>2, <1>3
<1>5. \A i \in 1 .. n : SubSeq(s, 1, n)[i] = s[i]
  BY <1>1, <1>2, <1>3
<1>6. QED
  BY <1>4, <1>5 DEF n

LEMMA ReturnKeeps ==
  ASSUME LoopInv, DrawReturns
  PROVE  LoopInv' /\ NewestStays
<1> DEFINE k == Len(stack)
           top == stack[k][1]
<1>1. /\ LoopFields /\ Nested /\ OneLoop /\ CallbackSeesImages
      /\ \A r \in Renderings : NotYet(r)
  BY DEF LoopInv
<1>2. /\ k \in Nat /\ k > 0 /\ k \in 1 .. k /\ top \in Renderings /\ stack[k] \in Frames
      /\ called[top] = 1 /\ stack[k][2] \in {"interval", "events"}
  <2>1. k \in Nat /\ k > 0
    BY <1>1 DEF DrawReturns, LoopFields
  <2>2. k \in 1 .. k
    BY <2>1
  <2>3. QED
    BY <1>1, <2>1, <2>2, FrameFacts DEF Nested
<1>3. /\ stack' = SubSeq(stack, 1, k - 1)
      /\ UNCHANGED <<opts, svg, listener, images, waiting, first, called, shown, inside, early>>
      /\ stack[k][2] = "interval" => SetInterval(top)
      /\ stack[k][2] # "interval" => RunEvents(top)
  BY DEF DrawReturns
<1>4. /\ stack' \in Seq(Frames) /\ Len(stack') = k - 1
      /\ \A i \in 1 .. k - 1 : stack'[i] = stack[i] /\ i \in 1 .. k /\ i # k
  <2>1. stack \in Seq(Frames)
    BY <1>1 DEF LoopFields
  <2>2. \A i \in 1 .. k - 1 : i \in 1 .. k /\ i # k
    BY <1>2
  <2>3. QED
    BY <1>2, <1>3, <2>1, <2>2, PopElements
<1>5. /\ timer' \in [Renderings -> {"none", "set", "cleared"}]
      /\ events' \in [Renderings -> 0 .. MaxEvents]
      /\ \A q \in Renderings \ {top} : timer'[q] = timer[q]
      /\ timer'[top] = timer[top] \/ (timer'[top] = "set" /\ top \in {svg} \cup inside)
  <2>1. CASE stack[k][2] = "interval"
    <3>1. top \in {svg} \cup inside
      BY <1>1, <1>2, <2>1 DEF Nested
    <3>2. QED
      BY <1>1, <1>2, <1>3, <2>1, <3>1 DEF LoopFields, SetInterval
  <2>2. CASE stack[k][2] = "events"
    BY <1>1, <1>2, <1>3, <2>2, LoopAssumption DEF LoopFields, RunEvents
  <2>3. QED
    BY <1>2, <2>1, <2>2
<1> HIDE DEF k, top
<1>6. LoopFields'
  BY <1>1, <1>3, <1>4, <1>5 DEF LoopFields
<1>7. ASSUME NEW r \in Renderings PROVE NotYet(r)'
  <2>1. CASE r = top
    BY <1>1, <1>2, <1>3, <2>1 DEF NotYet
  <2>2. CASE r # top
    BY <1>1, <1>3, <1>5, <2>2 DEF NotYet
  <2>3. QED
    BY <2>1, <2>2
<1>8. Nested'
  <2>1. ASSUME NEW i \in 1 .. k - 1
        PROVE  /\ called'[stack'[i][1]] = 1
               /\ i > 1 => stack'[i][2] = "interval"
               /\ stack'[i][2] = "interval" =>
                    timer'[stack'[i][1]] = "none" /\ stack'[i][1] \in {svg} \cup inside
    <3>1. stack'[i] = stack[i] /\ i \in 1 .. k /\ i # k /\ k \in 1 .. k
      BY <1>2, <1>4
    <3>2. stack[i][1] # top /\ stack[i][1] \in Renderings
      BY <1>1, <3>1, FrameFacts DEF Nested, k, top
    <3>3. timer'[stack[i][1]] = timer[stack[i][1]]
      BY <1>5, <3>2
    <3>4. /\ called[stack[i][1]] = 1
          /\ i > 1 => stack[i][2] = "interval"
          /\ stack[i][2] = "interval" =>
               timer[stack[i][1]] = "none" /\ stack[i][1] \in {svg} \cup inside
      BY <1>1, <3>1, Zenon DEF Nested, k
    <3>5. called' = called /\ svg' = svg /\ inside' = inside
      BY <1>3
    <3>6. QED
      BY <3>1, <3>3, <3>4, <3>5, Zenon
  <2>2. \A i, j \in 1 .. k - 1 : i # j => stack'[i][1] # stack'[j][1]
    <3>1. \A i, j \in 1 .. k : i # j => stack[i][1] # stack[j][1]
      BY <1>1 DEF Nested, k
    <3>2. \A i \in 1 .. k - 1 : stack'[i] = stack[i] /\ i \in 1 .. k
      BY <1>4
    <3>3. QED
      BY <3>1, <3>2, Zenon
  <2>3. QED
    BY <1>3, <1>4, <2>1, <2>2 DEF Nested
<1>9. OneLoop'
  BY <1>1, <1>2, <1>3, <1>5 DEF OneLoop, Running
<1>10. CallbackSeesImages' /\ NewestStays
  BY <1>1, <1>3 DEF CallbackSeesImages, NewestStays
<1>11. QED
  BY <1>6, <1>7, <1>8, <1>9, <1>10 DEF LoopInv

LEMMA CanvgKeeps ==
  ASSUME LoopInv, NEW r \in Renderings, NEW n \in 0 .. MaxImages, NEW o \in Options,
         Canvg(r, n, o)
  PROVE  LoopInv' /\ NewestStays
<1>1. /\ LoopFields /\ Nested /\ OneLoop /\ CallbackSeesImages
      /\ \A q \in Renderings : NotYet(q)
  BY DEF LoopInv
<1>2. /\ opts[r] = NoOptions /\ svg # r /\ timer[r] = "none" /\ images[r] = 0 /\ called[r] = 0
      /\ svg' = r /\ opts' = [opts EXCEPT ![r] = o] /\ events' = events /\ r # 0
      /\ listener' = IF o.ignoreMouse THEN listener ELSE r
      /\ inside' = inside \cup {q \in {svg} \cap Drawing : timer[q] = "none"}
  BY <1>1, LoopAssumption DEF Canvg, NotYet
<1>3. /\ opts'[r] = o /\ \A q \in Renderings \ {r} : opts'[q] = opts[q]
      /\ o # NoOptions
  <2>1. o # NoOptions
    <3>1. DOMAIN o = {"ignoreMouse", "redraws"} /\ DOMAIN NoOptions = {"called"}
      BY DEF Options, NoOptions
    <3>2. "called" \notin {"ignoreMouse", "redraws"}
      OBVIOUS
    <3>3. QED
      BY <3>1, <3>2
  <2>2. QED
    BY <1>1, <1>2, <2>1 DEF LoopFields
(* The interval of the picture that is replaced stops, if it is set.       *)
<1>4. /\ Stop(timer) \in [Renderings -> {"none", "set", "cleared"}]
      /\ \A q \in Renderings \ {svg} : Stop(timer)[q] = timer[q]
      /\ svg # 0 => Stop(timer)[svg] # "set"
      /\ \A q \in Renderings : timer[q] = "none" => Stop(timer)[q] = "none"
      /\ \A q \in Renderings : Stop(timer)[q] = "set" => timer[q] = "set"
  BY <1>1 DEF LoopFields, Stop
<1>5. \A i \in 1 .. Len(stack) :
         /\ stack[i][1] \in Renderings \ {r}
         /\ stack[i][2] = "interval" => stack[i][1] \in {svg'} \cup inside'
  <2> SUFFICES ASSUME NEW i \in 1 .. Len(stack)
               PROVE  /\ stack[i][1] \in Renderings \ {r}
                      /\ stack[i][2] = "interval" => stack[i][1] \in inside'
    OBVIOUS
  <2>1. stack[i][1] \in Renderings /\ called[stack[i][1]] = 1
    BY <1>1, FrameFacts DEF Nested
  <2>2. stack[i][2] = "interval" =>
          timer[stack[i][1]] = "none" /\ stack[i][1] \in {svg} \cup inside
    BY <1>1 DEF Nested
  <2>3. stack[i][1] \in Drawing
    BY DEF Drawing
  <2>4. QED
    BY <1>2, <2>1, <2>2, <2>3
<1>6. CASE n = 0
  <2>1. /\ waiting' = [waiting EXCEPT ![r] = FALSE] /\ timer' = Stop(timer)
        /\ images' = images /\ FirstDraw(r, "interval")
    BY <1>6 DEF Canvg
  <2>2. /\ first' \in [Renderings -> BOOLEAN] /\ ~first'[r]
        /\ called' \in [Renderings -> {0, 1}] /\ called'[r] = 1
        /\ \A q \in Renderings \ {r} : called'[q] = called[q] /\ first'[q] = first[q]
        /\ stack' \in Seq(Frames) /\ Len(stack') = Len(stack) + 1 /\ Len(stack) \in Nat
        /\ \A i \in 1 .. Len(stack) : stack'[i] = stack[i]
        /\ stack'[Len(stack) + 1] = <<r, "interval">>
    BY <2>1, FirstDrawPushes
  <2>3. LoopFields'
    BY <1>1, <1>2, <1>4, <2>1, <2>2 DEF LoopFields
  <2>4. ASSUME NEW q \in Renderings PROVE NotYet(q)'
    <3>1. CASE q = r
      BY <1>3, <2>2, <3>1 DEF NotYet
    <3>2. CASE q # r
      <4>1. waiting'[q] = waiting[q] /\ opts'[q] = opts[q] /\ NotYet(q)
        BY <1>1, <1>3, <2>1, <3>2 DEF LoopFields
      <4>2. QED
        BY <1>2, <1>4, <2>1, <2>2, <3>2, <4>1 DEF NotYet
    <3>3. QED
      BY <3>1, <3>2
  <2>5. Nested'
    <3>1. ASSUME NEW i \in 1 .. Len(stack)
          PROVE  /\ called'[stack'[i][1]] = 1 /\ stack'[i][1] # r
                 /\ i > 1 => stack'[i][2] = "interval"
                 /\ stack'[i][2] = "interval" =>
                      timer'[stack'[i][1]] = "none" /\ stack'[i][1] \in {svg'} \cup inside'
      BY <1>1, <1>4, <1>5, <2>1, <2>2 DEF Nested
    <3>2. timer'[r] = "none" /\ r \in {svg'} \cup inside'
      BY <1>2, <1>4, <2>1
    <3> DEFINE k == Len(stack) + 1
    <3>4. stack'[k][1] = r /\ stack'[k][2] = "interval"
      BY <2>2
    <3>5. \A i \in 1 .. Len(stack') : i \in 1 .. Len(stack) \/ i = k
      BY <2>2
    <3> HIDE DEF k
    <3>6. \A i, j \in 1 .. Len(stack') : i # j => stack'[i][1] # stack'[j][1]
      <4> SUFFICES ASSUME NEW i \in 1 .. Len(stack'), NEW j \in 1 .. Len(stack'), i # j
                   PROVE  stack'[i][1] # stack'[j][1]
        OBVIOUS
      <4>1. CASE i \in 1 .. Len(stack) /\ j \in 1 .. Len(stack)
        BY <1>1, <2>2, <4>1 DEF Nested
      <4>2. CASE i = k \/ j = k
        BY <3>1, <3>4, <3>5, <4>2
      <4>3. QED
        BY <3>5, <4>1, <4>2
    <3>7. QED
      BY <2>2, <3>1, <3>2, <3>4, <3>5, <3>6 DEF Nested
  <2>6. OneLoop'
    <3>1. ASSUME NEW q \in Renderings, timer'[q] = "set"
          PROVE  q \in {svg'} \cup inside'
      <4>1. timer[q] = "set" /\ q # svg
        <5>1. Stop(timer)[q] = "set" /\ q # 0
          BY <2>1, <3>1, LoopAssumption
        <5>2. QED
          BY <1>4, <5>1
      <4>2. q \in inside
        BY <1>1, <4>1 DEF OneLoop, Running
      <4>3. QED
        BY <1>2, <4>2
    <3>2. QED
      BY <3>1 DEF OneLoop, Running
  <2>7. CallbackSeesImages'
    <3>1. early \subseteq early'
      BY <2>1 DEF FirstDraw
    <3>2. QED
      BY <1>1, <1>2, <1>3, <2>1, <2>2, <3>1 DEF CallbackSeesImages
  <2>8. NewestStays
    BY <1>2, <2>1 DEF NewestStays, FirstDraw
  <2>9. QED
    BY <2>3, <2>4, <2>5, <2>6, <2>7, <2>8 DEF LoopInv
<1>7. CASE n # 0
  <2>1. /\ images' = [images EXCEPT ![r] = n] /\ timer' = [Stop(timer) EXCEPT ![r] = "set"]
        /\ UNCHANGED <<waiting, first, stack, called, shown, early>>
    BY <1>7 DEF Canvg
  <2>2. /\ timer' \in [Renderings -> {"none", "set", "cleared"}]
        /\ \A q \in Renderings \ {r} : timer'[q] = Stop(timer)[q] /\ images'[q] = images[q]
    BY <1>1, <1>4, <2>1 DEF LoopFields
  <2>3. LoopFields'
    BY <1>1, <1>2, <2>1, <2>2 DEF LoopFields
  <2>4. ASSUME NEW q \in Renderings PROVE NotYet(q)'
    <3>1. CASE q = r
      BY <1>1, <1>3, <2>1, <3>1 DEF NotYet
    <3>2. CASE q # r
      BY <1>1, <1>2, <1>3, <1>4, <2>1, <2>2, <3>2 DEF NotYet
    <3>3. QED
      BY <3>1, <3>2
  <2>5. Nested'
    <3>1. ASSUME NEW i \in 1 .. Len(stack)
          PROVE  /\ called'[stack'[i][1]] = 1
                 /\ i > 1 => stack'[i][2] = "interval"
                 /\ stack'[i][2] = "interval" =>
                      timer'[stack'[i][1]] = "none" /\ stack'[i][1] \in {svg'} \cup inside'
      BY <1>1, <1>4, <1>5, <2>1, <2>2 DEF Nested
    <3>2. QED
      BY <1>1, <2>1, <3>1 DEF Nested
  <2>6. OneLoop'
    <3>1. ASSUME NEW q \in Renderings, timer'[q] = "set", q # r
          PROVE  q \in inside'
      <4>1. timer[q] = "set" /\ q # svg
        <5>1. Stop(timer)[q] = "set" /\ q # 0
          BY <2>2, <3>1, LoopAssumption
        <5>2. QED
          BY <1>4, <5>1
      <4>2. q \in inside
        BY <1>1, <4>1 DEF OneLoop, Running
      <4>3. QED
        BY <1>2, <4>2
    <3>2. QED
      BY <1>2, <3>1 DEF OneLoop, Running
  <2>7. CallbackSeesImages'
    BY <1>1, <1>2, <1>3, <2>1, <2>2 DEF CallbackSeesImages
  <2>8. QED
    BY <2>1, <2>3, <2>4, <2>5, <2>6, <2>7 DEF LoopInv, NewestStays
<1>8. QED
  BY <1>6, <1>7

LEMMA TickKeeps ==
  ASSUME LoopInv, NEW r \in Renderings, IntervalTick(r)
  PROVE  LoopInv' /\ NewestStays
<1>1. /\ LoopFields /\ Nested /\ OneLoop /\ CallbackSeesImages
      /\ \A q \in Renderings : NotYet(q)
  BY DEF LoopInv
<1>2. /\ stack = <<>> /\ Len(stack) = 0 /\ timer[r] = "set" /\ opts[r] # NoOptions /\ r \in {svg} \cup inside
      /\ waiting' = [waiting EXCEPT ![r] = waiting[r] /\ images[r] > 0]
      /\ UNCHANGED <<opts, svg, listener, timer, images, inside>>
  <2>1. stack = <<>> /\ timer[r] = "set"
    BY DEF IntervalTick
  <2>2. opts[r] # NoOptions /\ r \in {svg} \cup inside
    BY <1>1, <2>1 DEF NotYet, OneLoop, Running
  <2>3. QED
    BY <2>1, <2>2 DEF IntervalTick
<1>3. /\ waiting' \in [Renderings -> BOOLEAN]
      /\ \A q \in Renderings \ {r} : waiting'[q] = waiting[q]
      /\ waiting'[r] <=> (waiting[r] /\ images[r] > 0)
  BY <1>1, <1>2 DEF LoopFields
<1>4. PICK redraw \in {FALSE, opts[r].redraws} :
         IF NeedUpdate(r, redraw)
         THEN \/ FirstDraw(r, "events") /\ UNCHANGED events
              \/ DrawAgain(r)
         ELSE UNCHANGED <<first, events, stack, called, shown, early>>
  BY DEF IntervalTick
<1>5. CASE FirstDraw(r, "events") /\ UNCHANGED events /\ NeedUpdate(r, redraw)
  <2>1. /\ first' \in [Renderings -> BOOLEAN] /\ ~first'[r]
        /\ called' \in [Renderings -> {0, 1}] /\ called'[r] = 1
        /\ \A q \in Renderings \ {r} : called'[q] = called[q] /\ first'[q] = first[q]
        /\ stack' \in Seq(Frames) /\ Len(stack') = Len(stack) + 1
        /\ stack'[Len(stack) + 1] = <<r, "events">>
    BY <1>5, FirstDrawPushes
  <2>2. LoopFields'
    BY <1>1, <1>2, <1>3, <1>5, <2>1 DEF LoopFields
  <2>3. ASSUME NEW q \in Renderings PROVE NotYet(q)'
    <3>1. CASE q = r
      BY <1>2, <2>1, <3>1 DEF NotYet
    <3>2. CASE q # r
      BY <1>1, <1>2, <1>3, <2>1, <3>2 DEF NotYet
    <3>3. QED
      BY <3>1, <3>2
  <2>4. Nested'
    <3>1. Len(stack') = 1 /\ stack'[1] = <<r, "events">>
      BY <1>2, <2>1
    <3>2. QED
      <4>1. \A i \in 1 .. Len(stack') : i = 1
        BY <3>1
      <4>2. QED
        BY <2>1, <3>1, <4>1 DEF Nested
  <2>5. images[r] > 0 => r \in early' /\ (opts[r].redraws \/ ~opts[r].ignoreMouse)
    <3>1. images[r] > 0 => r \in early'
      BY <1>5 DEF FirstDraw
    <3>2. ASSUME images[r] > 0 PROVE opts[r].redraws \/ ~opts[r].ignoreMouse
      <4>1. images[r] # 0
        BY <1>1, <3>2 DEF LoopFields
      <4>2. redraw \/ ~opts[r].ignoreMouse
        BY <1>5, <4>1 DEF NeedUpdate
      <4>3. QED
        BY <4>2
    <3>3. QED
      BY <3>1, <3>2
  <2>6. CallbackSeesImages'
    <3>1. early \subseteq early'
      BY <1>5 DEF FirstDraw
    <3>2. QED
      BY <1>1, <1>2, <2>1, <2>5, <3>1 DEF CallbackSeesImages
  <2>7. OneLoop' /\ NewestStays
    <3>1. shown' = r
      BY <1>5 DEF FirstDraw
    <3>2. QED
      BY <1>1, <1>2, <3>1 DEF OneLoop, Running, NewestStays
  <2>8. QED
    BY <2>2, <2>3, <2>4, <2>6, <2>7 DEF LoopInv
<1>6. CASE DrawAgain(r)
  <2>1. /\ ~first[r] /\ shown' = r /\ UNCHANGED <<first, called, stack, early>>
        /\ events' = [events EXCEPT ![r] = 0]
    BY <1>6 DEF DrawAgain
  <2>2. events' \in [Renderings -> 0 .. MaxEvents]
    BY <1>1, <2>1, LoopAssumption DEF LoopFields
  <2>3. LoopFields'
    BY <1>1, <1>2, <1>3, <2>1, <2>2 DEF LoopFields
  <2>4. ASSUME NEW q \in Renderings PROVE NotYet(q)'
    BY <1>1, <1>2, <1>3, <2>1 DEF NotYet
  <2>5. Nested' /\ OneLoop' /\ CallbackSeesImages' /\ NewestStays
    BY <1>1, <1>2, <2>1 DEF Nested, OneLoop, Running, CallbackSeesImages, NewestStays
  <2>6. QED
    BY <2>3, <2>4, <2>5 DEF LoopInv
<1>7. CASE ~NeedUpdate(r, redraw) /\ UNCHANGED <<first, events, stack, called, shown, early>>
  <2>1. LoopFields'
    BY <1>1, <1>2, <1>3, <1>7 DEF LoopFields
  <2>2. ASSUME NEW q \in Renderings PROVE NotYet(q)'
    <3>1. waiting'[q] <=> waiting[q]
      <4>1. waiting[r] => images[r] # 0
        BY <1>7 DEF NeedUpdate
      <4>2. images[r] # 0 => images[r] > 0
        BY <1>1 DEF LoopFields
      <4>3. QED
        BY <1>3, <4>1, <4>2
    <3>2. QED
      BY <1>1, <1>2, <1>7, <3>1 DEF NotYet
  <2>3. Nested' /\ OneLoop' /\ CallbackSeesImages' /\ NewestStays
    BY <1>1, <1>2, <1>7 DEF Nested, OneLoop, Running, CallbackSeesImages, NewestStays
  <2>4. QED
    BY <2>1, <2>2, <2>3 DEF LoopInv
<1>8. QED
  BY <1>4, <1>5, <1>6, <1>7

LEMMA MouseEventKeeps ==
  ASSUME LoopInv, MouseEvent
  PROVE  LoopInv' /\ NewestStays
<1>1. /\ events' \in [Renderings -> 0 .. MaxEvents]
      /\ UNCHANGED <<opts, svg, listener, timer, images, waiting, first, stack,
                     called, shown, inside, early>>
  <2>1. listener \in Renderings /\ events \in [Renderings -> 0 .. MaxEvents]
    BY DEF MouseEvent, LoopInv, LoopFields
  <2>2. events[listener] + 1 \in 0 .. MaxEvents
    BY <2>1, LoopAssumption DEF MouseEvent
  <2>3. QED
    BY <2>1, <2>2 DEF MouseEvent
<1>2. LoopFields' /\ \A r \in Renderings : NotYet(r)'
  BY <1>1 DEF LoopInv, LoopFields, NotYet
<1>3. Nested' /\ OneLoop' /\ CallbackSeesImages' /\ NewestStays
  BY <1>1 DEF LoopInv, Nested, OneLoop, Running, CallbackSeesImages, NewestStays
<1>4. QED
  BY <1>2, <1>3 DEF LoopInv

LEMMA ImageLoadedKeeps ==
  ASSUME LoopInv, NEW r \in Renderings, ImageLoaded(r)
  PROVE  LoopInv' /\ NewestStays
<1>1. /\ images' \in [Renderings -> 0 .. MaxImages] /\ images[r] > 0
      /\ \A q \in Renderings : images'[q] > 0 => images[q] > 0
      /\ \A q \in Renderings : images[q] = 0 => images'[q] = 0
      /\ UNCHANGED <<opts, svg, listener, timer, waiting, first, events, stack,
                     called, shown, inside, early>>
  <2>1. images \in [Renderings -> 0 .. MaxImages] /\ images[r] > 0
    BY DEF ImageLoaded, LoopInv, LoopFields
  <2>2. images[r] - 1 \in 0 .. MaxImages
    BY <2>1, LoopAssumption
  <2>3. QED
    BY <2>1, <2>2 DEF ImageLoaded
<1>2. LoopFields' /\ \A q \in Renderings : NotYet(q)'
  BY <1>1 DEF LoopInv, LoopFields, NotYet
<1>3. Nested' /\ OneLoop' /\ CallbackSeesImages' /\ NewestStays
  BY <1>1 DEF LoopInv, Nested, OneLoop, Running, CallbackSeesImages, NewestStays
<1>4. QED
  BY <1>2, <1>3 DEF LoopInv

LEMMA LoopInvStep == LoopInv /\ [LoopNext]_loopVars => LoopInv' /\ NewestStays
<1> SUFFICES ASSUME LoopInv, [LoopNext]_loopVars PROVE LoopInv' /\ NewestStays
  OBVIOUS
<1>1. CASE LoopNext
  BY <1>1, CanvgKeeps, ReturnKeeps, MouseEventKeeps, TickKeeps, ImageLoadedKeeps DEF LoopNext
<1>2. CASE UNCHANGED loopVars
  <2>1. LoopFields' /\ \A r \in Renderings : NotYet(r)'
    BY <1>2 DEF loopVars, LoopInv, LoopFields, NotYet
  <2>2. Nested' /\ OneLoop' /\ CallbackSeesImages' /\ NewestStays
    BY <1>2 DEF loopVars, LoopInv, Nested, OneLoop, Running, CallbackSeesImages, NewestStays
  <2>3. QED
    BY <2>1, <2>2 DEF LoopInv
<1>3. QED
  BY <1>1, <1>2

(* For any sequence of pictures given to one canvas, one loop of canvg     *)
(* runs there, that of the last picture (but for a picture replaced from   *)
(* within its own canvg()), and a callback sees the images loaded.         *)
THEOREM PicturesDrawnInTurn == LoopSpec => []DrawnInTurn
  BY LoopInvInit, LoopInvStep, LoopInvDrawn, PTL DEF LoopSpec

(* No step draws a picture over the one that has replaced it on the        *)
(* canvas, with the same exception.                                        *)
THEOREM ReplacedPicturesStayAway == LoopSpec => ReplacedStaysAway
  BY LoopInvInit, LoopInvStep, PTL DEF LoopSpec, ReplacedStaysAway

-----------------------------------------------------------------------------
(* The file saver                                                          *)

PreWrite == {"filesystem", "directory", "lookup", "file", "writer"}

SaverFields ==
  /\ env \in [saveLink : BOOLEAN, fs : Fss]
  /\ at \in [Savers -> Waits \cup {"idle", "end", "gone"}]
  /\ readyState \in [Savers -> {"INIT", "WRITING", "DONE"}]
  /\ save \in [Savers -> [name : Names \cup {NoFile}, octet : BOOLEAN]]
  /\ dir \in [Names -> (SUBSET Savers) \cup {NoFile}]
  /\ queue \in Seq(QueueEntries) /\ urls \subseteq Savers
  /\ opened \in [Savers -> Seq(Ways)] /\ heard = [s \in Savers |-> heard[s]]
  /\ abortedAt \in [Savers -> Waits \cup {"no"}]
  /\ failed \subseteq Savers /\ shared \subseteq Savers

(* Where a save is, by what became of it so far.                           *)
Phase(s) ==
  /\ at[s] = "idle" => readyState[s] = "INIT" /\ s \notin shared
  /\ at[s] # "idle" => save[s].name \in Names
  /\ at[s] \in Waits \cup {"idle"} => opened[s] = <<>> /\ s \notin failed
  /\ at[s] \in PreWrite \cup {"idle"} /\ readyState[s] # "DONE" =>
       readyState[s] = "INIT" /\ abortedAt[s] = "no" /\ heard[s] = <<>>
  /\ at[s] \in PreWrite /\ readyState[s] = "DONE" => abortedAt[s] \in PreWrite
  /\ at[s] = "writing" => readyState[s] = "WRITING" /\ abortedAt[s] = "no"
  /\ at[s] = "aborting" => readyState[s] = "DONE" /\ abortedAt[s] = "writing"
  /\ readyState[s] = "WRITING" =>
       at[s] \in {"writing", "gone"} \/ (at[s] = "end" /\ ~HasTargetView(s))
  /\ abortedAt[s] \notin {"no", "writing"} /\ s \notin failed =>
       opened[s] = <<>> /\ heard[s] = <<"abort">>
  /\ Len(opened[s]) <= 2

(* Two saves of one name that are under way overlap.                       *)
OverlapsKnown ==
  \A s, t \in Savers :
    s # t /\ UnderWay(s) /\ UnderWay(t) /\ save[s].name = save[t].name => s \in shared

(* The file a save goes on to write is not there or empty, unless another  *)
(* one of its name overlaps.                                               *)
Prepared(s) ==
  at[s] \in {"file", "writer", "writing"} /\ readyState[s] # "DONE" /\ s \notin shared =>
    dir[save[s].name] \in {NoFile, {}}

ShowsBlob(s) ==
  \A i \in DOMAIN opened[s] :
    Undisturbed(s) /\ s \notin shared => opened[s][i].data = {s}

(* Whose file a file of the directory may be.                              *)
Accounts(s) ==
  /\ at[s] # "idle"
  /\ at[s] \in Waits \cup {"gone"} \/ ~Undisturbed(s) \/ ~HasTargetView(s)

Remembered ==
  /\ closed => urls = {} /\ queue = <<>> /\ \A s \in Savers : ~UnderWay(s)
  /\ ~closed => urls \subseteq Queued("url")
  /\ \A n \in Names : dir[n] # NoFile =>
       n \in Queued("file") \/ \E s \in Savers : save[s].name = n /\ Accounts(s)

SaverInv ==
  /\ SaverFields
  /\ \A s \in Savers : Phase(s) /\ Prepared(s) /\ ShowsBlob(s)
  /\ OverlapsKnown
  /\ Remembered

-----------------------------------------------------------------------------
(* The deletion queue                                                      *)

Held(q, kind) == {q[i][kind] : i \in {j \in 1 .. Len(q) : kind \in DOMAIN q[j]}}

LEMMA HeldAppend ==
  ASSUME NEW q \in Seq(QueueEntries), NEW e \in QueueEntries
  PROVE  /\ Append(q, e) \in Seq(QueueEntries)
         /\ \A kind : Held(q, kind) \subseteq Held(Append(q, e), kind)
         /\ \A kind \in DOMAIN e : e[kind] \in Held(Append(q, e), kind)
<1> DEFINE r == Append(q, e)
<1>1. /\ r \in Seq(QueueEntries) /\ Len(q) \in Nat /\ Len(r) = Len(q) + 1
      /\ \A i \in 1 .. Len(q) : r[i] = q[i]
      /\ r[Len(q) + 1] = e
  OBVIOUS
<1>2. 1 .. Len(q) \subseteq 1 .. Len(r) /\ Len(q) + 1 \in 1 .. Len(r)
  BY <1>1
<1> HIDE DEF r
<1>3. ASSUME NEW kind, NEW v \in Held(q, kind) PROVE v \in Held(r, kind)
  <2>1. PICK i \in 1 .. Len(q) : kind \in DOMAIN q[i] /\ v = q[i][kind]
    BY <1>3 DEF Held
  <2>2. i \in 1 .. Len(r) /\ kind \in DOMAIN r[i] /\ v = r[i][kind]
    BY <1>1, <1>2, <2>1
  <2>3. QED
    BY <2>2 DEF Held
<1>4. ASSUME NEW kind \in DOMAIN e PROVE e[kind] \in Held(r, kind)
  BY <1>1, <1>2 DEF Held
<1>5. QED
  BY <1>1, <1>3, <1>4 DEF r

LEMMA QueueUrl ==
  ASSUME NEW q \in Seq(QueueEntries), NEW s \in Savers
  PROVE  /\ Append(q, [url |-> s]) \in Seq(QueueEntries)
         /\ Held(q, "url") \cup {s} \subseteq Held(Append(q, [url |-> s]), "url")
         /\ Held(q, "file") \subseteq Held(Append(q, [url |-> s]), "file")
<1> DEFINE e == [url |-> s]
<1>1. e \in QueueEntries /\ "url" \in DOMAIN e /\ e["url"] = s
  BY DEF QueueEntries
<1> HIDE DEF e
<1>2. QED
  BY <1>1, HeldAppend DEF e

LEMMA QueueFile ==
  ASSUME NEW q \in Seq(QueueEntries), NEW n \in Names
  PROVE  /\ Append(q, [file |-> n]) \in Seq(QueueEntries)
         /\ Held(q, "file") \cup {n} \subseteq Held(Append(q, [file |-> n]), "file")
         /\ Held(q, "url") \subseteq Held(Append(q, [file |-> n]), "url")
<1> DEFINE e == [file |-> n]
<1>1. e \in QueueEntries /\ "file" \in DOMAIN e /\ e["file"] = n
  BY DEF QueueEntries
<1> HIDE DEF e
<1>2. QED
  BY <1>1, HeldAppend DEF e

-----------------------------------------------------------------------------
(* A callback or an abort of one save leaves the others where they are, and *)
(* touches one file of the directory at most.                              *)
Only(s) ==
  /\ UNCHANGED <<env, save, shared, closed>>
  /\ \A t \in Savers \ {s} :
       /\ at'[t] = at[t] /\ readyState'[t] = readyState[t] /\ opened'[t] = opened[t]
       /\ heard'[t] = heard[t] /\ abortedAt'[t] = abortedAt[t]
       /\ t \in failed' <=> t \in failed
  /\ \A n \in Names : n # save[s].name => dir'[n] = dir[n]

(* What the save itself has to keep.                                       *)
Keeps(s) ==
  /\ SaverFields' /\ Phase(s)' /\ Prepared(s)' /\ ShowsBlob(s)'
  /\ dir'[save[s].name] # NoFile => save[s].name \in Queued("file")' \/ Accounts(s)'
  /\ Queued("file") \subseteq Queued("file")' /\ urls' \subseteq Queued("url")'

LEMMA OneSaveMoves ==
  ASSUME SaverInv, NEW s \in Savers, UnderWay(s), Only(s), Keeps(s)
  PROVE  SaverInv'
<1>1. SaverFields /\ SaverFields' /\ OverlapsKnown /\ Remembered /\ ~closed /\ ~closed'
  BY DEF SaverInv, Remembered, Keeps, Only
<1>2. save' = save /\ env' = env /\ shared' = shared
  BY DEF Only
<1>3. ASSUME NEW t \in Savers, t # s
      PROVE  /\ at'[t] = at[t] /\ readyState'[t] = readyState[t] /\ opened'[t] = opened[t]
             /\ heard'[t] = heard[t] /\ abortedAt'[t] = abortedAt[t]
             /\ t \in failed' <=> t \in failed
  BY <1>3 DEF Only
<1>4. ASSUME NEW t \in Savers, t # s PROVE Phase(t)' /\ ShowsBlob(t)'
  <2>1. Phase(t) /\ ShowsBlob(t)
    BY DEF SaverInv
  <2>2. HasTargetView(t)' <=> HasTargetView(t)
    BY <1>2 DEF HasTargetView
  <2>3. Phase(t)'
    BY <1>2, <1>3, <1>4, <2>1, <2>2 DEF Phase
  <2>4. Undisturbed(t)' => Undisturbed(t)
    BY <1>3, <1>4 DEF Undisturbed, Aborted
  <2>5. QED
    BY <1>2, <1>3, <1>4, <2>1, <2>3, <2>4 DEF ShowsBlob
<1>5. ASSUME NEW t \in Savers, t # s PROVE Prepared(t)'
  <2> SUFFICES ASSUME at[t] \in {"file", "writer", "writing"}, readyState[t] # "DONE",
                      t \notin shared
               PROVE  dir'[save[t].name] \in {NoFile, {}}
    BY <1>2, <1>3, <1>5 DEF Prepared
  <2>1. dir[save[t].name] \in {NoFile, {}}
    BY DEF SaverInv, Prepared
  <2>2. UnderWay(t) /\ save[t].name \in Names
    BY DEF UnderWay, Waits, SaverInv, Phase
  <2>3. save[t].name # save[s].name
    BY <1>1, <1>5, <2>2 DEF OverlapsKnown
  <2>4. QED
    BY <2>1, <2>2, <2>3 DEF Only
<1>6. ASSUME NEW t \in Savers, UnderWay(t)' PROVE UnderWay(t)
  BY <1>3, <1>6 DEF UnderWay
<1>7. OverlapsKnown'
  BY <1>1, <1>2, <1>6 DEF OverlapsKnown
<1>8. ASSUME NEW n \in Names, dir'[n] # NoFile
      PROVE  n \in Queued("file")' \/ \E t \in Savers : save'[t].name = n /\ Accounts(t)'
  <2>1. CASE n = save[s].name
    BY <1>2, <1>8, <2>1 DEF Keeps
  <2>2. CASE n # save[s].name
    <3>1. n \in Queued("file") \/ \E t \in Savers : save[t].name = n /\ Accounts(t)
      BY <1>1, <1>8, <2>2 DEF Only, Remembered
    <3>2. CASE n \in Queued("file")
      BY <3>2 DEF Keeps
    <3>3. ASSUME NEW t \in Savers, save[t].name = n, Accounts(t) PROVE Accounts(t)'
      <4>1. t # s
        BY <2>2, <3>3
      <4>2. /\ Undisturbed(t)' <=> Undisturbed(t)
            /\ HasTargetView(t)' <=> HasTargetView(t)
        BY <1>2, <1>3, <4>1 DEF Undisturbed, Aborted, HasTargetView
      <4>3. QED
        BY <1>3, <3>3, <4>1, <4>2 DEF Accounts
    <3>4. QED
      BY <1>2, <3>1, <3>2, <3>3
  <2>3. QED
    BY <2>1, <2>2
<1>9. Remembered'
  BY <1>1, <1>8 DEF Remembered, Keeps
<1>10. Phase(s)' /\ Prepared(s)' /\ ShowsBlob(s)'
  BY DEF Keeps
<1>11. QED
  BY <1>1, <1>4, <1>5, <1>7, <1>9, <1>10 DEF SaverInv

-----------------------------------------------------------------------------
(* readyState of a save                                                    *)
MovesOn(s) ==
  \/ readyState'[s] = readyState[s]
  \/ readyState'[s] = "DONE"
  \/ readyState[s] = "INIT" /\ readyState'[s] = "WRITING"

GoesUp == \A s \in Savers : Rank(readyState'[s]) >= Rank(readyState[s])

LEMMA RanksGoUp ==
  ASSUME SaverFields, SaverFields', \A s \in Savers : MovesOn(s)
  PROVE  GoesUp
<1>1. Rank("INIT") = 0 /\ Rank("WRITING") = 1 /\ Rank("DONE") = 2
  BY DEF Rank
<1>2. ASSUME NEW s \in Savers PROVE Rank(readyState'[s]) >= Rank(readyState[s])
  <2>1. readyState[s] \in {"INIT", "WRITING", "DONE"} /\ MovesOn(s)
    BY DEF SaverFields
  <2>2. QED
    BY <1>1, <2>1 DEF MovesOn
<1>3. QED
  BY <1>2 DEF GoesUp

(* What is known of a save that waits for a callback.                      *)
LEMMA WaitingFacts ==
  ASSUME SaverInv, NEW s \in Savers, UnderWay(s)
  PROVE  /\ SaverFields /\ Phase(s) /\ Prepared(s) /\ ShowsBlob(s) /\ ~closed
         /\ save[s].name \in Names /\ at[s] # "idle" /\ at[s] \in Waits
         /\ urls \subseteq Queued("url") /\ opened[s] = <<>> /\ s \notin failed
         /\ readyState[s] = "DONE" => abortedAt[s] # "no" /\ ~Undisturbed(s)
<1>1. /\ SaverFields /\ Phase(s) /\ Prepared(s) /\ ShowsBlob(s) /\ Remembered
      /\ at[s] \in Waits
  BY DEF SaverInv, UnderWay
<1>2. ~closed /\ urls \subseteq Queued("url")
  BY <1>1 DEF Remembered
<1>3. /\ save[s].name \in Names /\ at[s] # "idle" /\ opened[s] = <<>> /\ s \notin failed
  BY <1>1 DEF Phase, Waits
<1>4. readyState[s] = "DONE" => abortedAt[s] # "no" /\ ~Undisturbed(s)
  BY <1>1 DEF Phase, Waits, PreWrite, Undisturbed, Aborted
<1>5. QED
  BY <1>1, <1>2, <1>3, <1>4

(* A callback before the writing only moves its save on, or ends it when   *)
(* it was aborted; `v` is what becomes of its file.                        *)
LEMMA CallbackKeeps ==
  ASSUME SaverInv, NEW s \in Savers, at[s] \in PreWrite,
         NEW x \in PreWrite \cup {"writing", "end"}, at' = [at EXCEPT ![s] = x],
         NEW w, readyState' = [readyState EXCEPT ![s] = w],
         NEW v \in (SUBSET Savers) \cup {NoFile}, dir' = [dir EXCEPT ![save[s].name] = v],
         UNCHANGED <<env, save, queue, urls, opened, heard, abortedAt, failed, shared, closed>>,
         readyState[s] = "DONE" <=> x = "end",
         w = IF x = "writing" THEN "WRITING" ELSE readyState[s],
         readyState[s] # "DONE" /\ s \notin shared /\ x \in {"file", "writer", "writing"} =>
           v \in {NoFile, {}}
  PROVE  UnderWay(s) /\ Only(s) /\ Keeps(s) /\ MovesOn(s)
<1>1. at[s] \in Waits /\ UnderWay(s)
  BY DEF PreWrite, Waits, UnderWay
<1>2. /\ SaverFields /\ Phase(s) /\ ShowsBlob(s) /\ ~closed /\ save[s].name \in Names
      /\ urls \subseteq Queued("url") /\ opened[s] = <<>> /\ s \notin failed
      /\ readyState[s] = "DONE" => ~Undisturbed(s)
      /\ readyState[s] # "DONE" => readyState[s] = "INIT" /\ abortedAt[s] = "no"
  BY <1>1, WaitingFacts DEF Phase
<1>3. /\ at'[s] = x /\ readyState'[s] = w /\ dir'[save[s].name] = v
      /\ \A t \in Savers \ {s} : at'[t] = at[t] /\ readyState'[t] = readyState[t]
      /\ \A n \in Names : n # save[s].name => dir'[n] = dir[n]
  BY <1>2 DEF SaverFields
<1>4. Only(s)
  BY <1>3 DEF Only
<1>5. SaverFields'
  <2>1. /\ x \in Waits \cup {"idle", "end", "gone"}
        /\ w \in {"INIT", "WRITING", "DONE"}
    BY <1>2 DEF PreWrite, Waits, SaverFields
  <2>2. /\ at' \in [Savers -> Waits \cup {"idle", "end", "gone"}]
        /\ readyState' \in [Savers -> {"INIT", "WRITING", "DONE"}]
        /\ dir' \in [Names -> (SUBSET Savers) \cup {NoFile}]
    BY <1>2, <2>1 DEF SaverFields
  <2>3. QED
    BY <1>2, <2>2 DEF SaverFields
<1>6. Phase(s)'
  BY <1>2, <1>3 DEF Phase, PreWrite, Waits
<1>7. Prepared(s)'
  BY <1>3 DEF Prepared
<1>8. ShowsBlob(s)'
  BY <1>2 DEF ShowsBlob
<1>9. Accounts(s)'
  BY <1>2, <1>3 DEF Accounts, Undisturbed, Aborted, PreWrite, Waits
<1>10. Queued("file") \subseteq Queued("file")' /\ urls' \subseteq Queued("url")'
  BY <1>2 DEF Queued
<1>11. MovesOn(s)
  BY <1>2, <1>3 DEF MovesOn
<1>12. QED
  BY <1>1, <1>4, <1>5, <1>6, <1>7, <1>8, <1>9, <1>10, <1>11 DEF Keeps

LEMMA CallbacksKeep ==
  ASSUME SaverInv, NEW s \in Savers,
         \/ FileSystemAnswers(s) \/ DirectoryAnswers(s) \/ LookupAnswers(s)
         \/ FileAnswers(s) \/ WriterAnswers(s)
  PROVE  UnderWay(s) /\ Only(s) /\ Keeps(s) /\ MovesOn(s)
<1>1. at[s] \in PreWrite /\ UnderWay(s)
  BY DEF FileSystemAnswers, DirectoryAnswers, LookupAnswers, FileAnswers, WriterAnswers,
    PreWrite, UnderWay, Waits
<1>2. /\ SaverFields /\ save[s].name \in Names /\ Prepared(s) /\ Phase(s)
  BY <1>1, WaitingFacts
<1> DEFINE n == save[s].name
           X(next) == IF readyState[s] # "DONE" THEN next ELSE "end"
<1>3. /\ dir[n] \in (SUBSET Savers) \cup {NoFile} /\ [dir EXCEPT ![n] = dir[n]] = dir
      /\ [readyState EXCEPT ![s] = readyState[s]] = readyState
  BY <1>2 DEF SaverFields
<1>4. CASE FileSystemAnswers(s)
  <2>1. X("directory") \in PreWrite \cup {"writing", "end"}
    BY DEF PreWrite
  <2>2. QED
    <3> DEFINE x == X("directory")
    <3>1. /\ at' = [at EXCEPT ![s] = x] /\ dir' = [dir EXCEPT ![n] = dir[n]]
          /\ readyState' = [readyState EXCEPT ![s] = readyState[s]]
          /\ UNCHANGED <<env, save, queue, urls, opened, heard, abortedAt, failed, shared, closed>>
      BY <1>3, <1>4 DEF FileSystemAnswers, Abortable, Goto
    <3>2. /\ readyState[s] = "DONE" <=> x = "end"
          /\ x # "writing" /\ x \notin {"file", "writer", "writing"}
      OBVIOUS
    <3> HIDE DEF x
    <3>3. QED
      <4>1. x \in PreWrite \cup {"writing", "end"}
        BY <2>1 DEF x
      <4>2. QED
        BY <1>1, <1>3, <3>1, <3>2, <4>1, CallbackKeeps
<1>5. CASE DirectoryAnswers(s)
  <2>1. X("lookup") \in PreWrite \cup {"writing", "end"}
    BY DEF PreWrite
  <2>2. QED
    <3> DEFINE x == X("lookup")
    <3>1. /\ at' = [at EXCEPT ![s] = x] /\ dir' = [dir EXCEPT ![n] = dir[n]]
          /\ readyState' = [readyState EXCEPT ![s] = readyState[s]]
          /\ UNCHANGED <<env, save, queue, urls, opened, heard, abortedAt, failed, shared, closed>>
      BY <1>3, <1>5 DEF DirectoryAnswers, Abortable, Goto
    <3>2. /\ readyState[s] = "DONE" <=> x = "end"
          /\ x # "writing" /\ x \notin {"file", "writer", "writing"}
      OBVIOUS
    <3> HIDE DEF x
    <3>3. QED
      <4>1. x \in PreWrite \cup {"writing", "end"}
        BY <2>1 DEF x
      <4>2. QED
        BY <1>1, <1>3, <3>1, <3>2, <4>1, CallbackKeeps
<1>6. CASE LookupAnswers(s)
  <2> DEFINE v == IF readyState[s] # "DONE" THEN NoFile ELSE dir[n]
  <2>1. X("file") \in PreWrite \cup {"writing", "end"} /\ v \in (SUBSET Savers) \cup {NoFile}
    BY <1>3 DEF PreWrite
  <2>2. QED
    BY <1>1, <1>3, <1>6, <2>1, CallbackKeeps DEF LookupAnswers, Abortable, Goto
<1>7. CASE FileAnswers(s)
  <2> DEFINE v == IF dir[n] = NoFile THEN {} ELSE dir[n]
  <2>1. X("writer") \in PreWrite \cup {"writing", "end"} /\ v \in (SUBSET Savers) \cup {NoFile}
    BY <1>3 DEF PreWrite
  <2>2. readyState[s] # "DONE" /\ s \notin shared => v \in {NoFile, {}}
    BY <1>2, <1>7 DEF FileAnswers, Prepared
  <2>3. QED
    <3> DEFINE x == X("writer")
    <3>1. /\ at' = [at EXCEPT ![s] = x] /\ dir' = [dir EXCEPT ![n] = v]
          /\ readyState' = [readyState EXCEPT ![s] = readyState[s]]
          /\ UNCHANGED <<env, save, queue, urls, opened, heard, abortedAt, failed, shared, closed>>
      BY <1>3, <1>7 DEF FileAnswers, Abortable, Goto
    <3>2. (readyState[s] = "DONE" <=> x = "end") /\ x # "writing"
      OBVIOUS
    <3>3. x \in PreWrite \cup {"writing", "end"} /\ v \in (SUBSET Savers) \cup {NoFile}
      BY <2>1
    <3> HIDE DEF x, v
    <3>4. QED
      BY <1>1, <2>2, <3>1, <3>2, <3>3, CallbackKeeps
<1>8. CASE WriterAnswers(s)
  <2> DEFINE w == IF readyState[s] # "DONE" THEN "WRITING" ELSE readyState[s]
  <2>1. X("writing") \in PreWrite \cup {"writing", "end"}
    BY DEF PreWrite
  <2>2. readyState[s] # "DONE" /\ s \notin shared => dir[n] \in {NoFile, {}}
    BY <1>2, <1>8 DEF WriterAnswers, Prepared
  <2>3. QED
    <3> DEFINE x == X("writing")
    <3>1. /\ at' = [at EXCEPT ![s] = x] /\ dir' = [dir EXCEPT ![n] = dir[n]]
          /\ readyState' = [readyState EXCEPT ![s] = w]
          /\ UNCHANGED <<env, save, queue, urls, opened, heard, abortedAt, failed, shared, closed>>
      BY <1>3, <1>8 DEF WriterAnswers, Abortable, Goto
    <3>2. (readyState[s] = "DONE" <=> x = "end")
          /\ w = IF x = "writing" THEN "WRITING" ELSE readyState[s]
      OBVIOUS
    <3>3. x \in PreWrite \cup {"writing", "end"}
      BY <2>1
    <3> HIDE DEF x, w
    <3>4. QED
      BY <1>1, <1>3, <2>2, <3>1, <3>2, <3>3, CallbackKeeps
<1>9. QED
  BY <1>4, <1>5, <1>6, <1>7, <1>8

(* A save that ends opens what it has, and may meet an error.              *)
LEMMA EndKeeps ==
  ASSUME SaverInv, NEW s \in Savers, UnderWay(s),
         at' = [at EXCEPT ![s] = "end"],
         NEW w \in {readyState[s], "DONE"}, readyState' = [readyState EXCEPT ![s] = w],
         NEW ways \in Seq(Ways), opened' = [opened EXCEPT ![s] = ways], Len(ways) <= 2,
         NEW told, heard' = [heard EXCEPT ![s] = told],
         NEW v \in (SUBSET Savers) \cup {NoFile}, dir' = [dir EXCEPT ![save[s].name] = v],
         failed' \in {failed, failed \cup {s}}, UNCHANGED <<env, save, abortedAt, shared, closed>>,
         queue' \in Seq(QueueEntries), urls' \subseteq Savers, urls' \subseteq Queued("url")',
         Queued("file") \subseteq Queued("file")',
         w = "WRITING" => ~HasTargetView(s),
         abortedAt[s] \notin {"no", "writing"} /\ s \notin failed' =>
           ways = <<>> /\ told = <<"abort">>,
         \A i \in DOMAIN ways :
           abortedAt[s] = "no" /\ s \notin failed' /\ s \notin shared => ways[i].data = {s},
         \/ v = NoFile \/ save[s].name \in Queued("file")' \/ abortedAt[s] # "no"
         \/ s \in failed' \/ ~HasTargetView(s)
  PROVE  Only(s) /\ Keeps(s) /\ MovesOn(s)
<1>1. /\ SaverFields /\ Phase(s) /\ ~closed /\ save[s].name \in Names
      /\ urls \subseteq Queued("url") /\ opened[s] = <<>> /\ s \notin failed
  BY WaitingFacts
<1>2. /\ at'[s] = "end" /\ readyState'[s] = w /\ dir'[save[s].name] = v /\ opened'[s] = ways
      /\ heard'[s] = told
      /\ \A t \in Savers \ {s} : /\ at'[t] = at[t] /\ readyState'[t] = readyState[t]
                                 /\ opened'[t] = opened[t]
      /\ \A n \in Names : n # save[s].name => dir'[n] = dir[n]
  BY <1>1 DEF SaverFields
<1>3. \A t \in Savers \ {s} : heard'[t] = heard[t] /\ (t \in failed' <=> t \in failed)
  BY <1>1 DEF SaverFields
<1>4. Only(s)
  BY <1>2, <1>3 DEF Only
<1>5. SaverFields'
  <2>1. heard' = [t \in Savers |-> heard'[t]]
    BY <1>1 DEF SaverFields
  <2>2. w \in {"INIT", "WRITING", "DONE"} /\ failed' \subseteq Savers
    BY <1>1 DEF SaverFields
  <2>3. /\ at' \in [Savers -> Waits \cup {"idle", "end", "gone"}]
        /\ readyState' \in [Savers -> {"INIT", "WRITING", "DONE"}]
        /\ opened' \in [Savers -> Seq(Ways)]
        /\ dir' \in [Names -> (SUBSET Savers) \cup {NoFile}]
    BY <1>1, <2>2 DEF SaverFields
  <2>4. QED
    BY <1>1, <2>1, <2>2, <2>3 DEF SaverFields
<1>6. HasTargetView(s)' <=> HasTargetView(s)
  BY DEF HasTargetView
<1>7. Phase(s)'
  BY <1>1, <1>2, <1>6 DEF Phase, PreWrite, Waits
<1>8. Prepared(s)'
  BY <1>2 DEF Prepared
<1>9. Undisturbed(s)' <=> abortedAt[s] = "no" /\ s \notin failed'
  BY DEF Undisturbed, Aborted
<1>10. ShowsBlob(s)'
  BY <1>2, <1>9 DEF ShowsBlob
<1>11. v # NoFile => save[s].name \in Queued("file")' \/ Accounts(s)'
  BY <1>2, <1>6, <1>9 DEF Accounts
<1>12. MovesOn(s)
  BY <1>2 DEF MovesOn
<1>13. QED
  BY <1>2, <1>4, <1>5, <1>7, <1>8, <1>10, <1>11, <1>12 DEF Keeps

(* What the ways of a save and its deletion queue are made of.             *)
LEMMA UrlWay ==
  ASSUME NEW s \in Savers
  PROVE  /\ <<[way |-> "url", data |-> {s}]>> \in Seq(Ways)
         /\ <<[way |-> "link", data |-> {s}]>> \in Seq(Ways)
BY DEF Ways

LEMMA FileWay ==
  ASSUME NEW data \in (SUBSET Savers) \cup {NoFile}
  PROVE  /\ <<[way |-> "file", data |-> Shown(data)]>> \in Seq(Ways)
         /\ Shown(data) \in SUBSET Savers
<1>1. Shown(data) \in SUBSET Savers
  BY DEF Shown
<1>2. QED
  BY <1>1 DEF Ways

LEMMA QueueFacts ==
  ASSUME SaverFields, NEW s \in Savers, save[s].name \in Names, urls \subseteq Queued("url"),
         \/ queue' = queue /\ urls' = urls
         \/ queue' = Append(queue, [file |-> save[s].name]) /\ urls' = urls
         \/ GetObjectUrl(s)
         \/ /\ queue' = queue \o <<[url |-> s], [file |-> save[s].name]>>
            /\ urls' = urls \cup {s}
  PROVE  /\ queue' \in Seq(QueueEntries) /\ urls' \subseteq Savers
         /\ urls' \subseteq Queued("url")' /\ Queued("file") \subseteq Queued("file")'
         /\ queue' = Append(queue, [file |-> save[s].name]) => save[s].name \in Queued("file")'
<1> DEFINE n == save[s].name
<1>1. queue \in Seq(QueueEntries) /\ urls \subseteq Savers /\ urls \subseteq Held(queue, "url")
  BY DEF SaverFields, Queued, Held
<1>2. \A kind : Queued(kind)' = Held(queue', kind) /\ Queued(kind) = Held(queue, kind)
  BY DEF Queued, Held
<1>3. CASE queue' = queue /\ urls' = urls
  <2>1. queue # Append(queue, [file |-> n])
    BY <1>1
  <2>2. QED
    BY <1>1, <1>2, <1>3, <2>1
<1>4. CASE queue' = Append(queue, [file |-> n]) /\ urls' = urls
  BY <1>1, <1>2, <1>4, QueueFile
<1>5. CASE queue' = Append(queue, [url |-> s]) /\ urls' = urls \cup {s}
  <2>1. /\ queue' \in Seq(QueueEntries) /\ Held(queue, "url") \cup {s} \subseteq Held(queue', "url")
        /\ Held(queue, "file") \subseteq Held(queue', "file")
    BY <1>1, <1>5, QueueUrl
  <2>2. queue' = Append(queue, [file |-> n]) => n \in Held(queue', "file")
    BY <1>1, QueueFile
  <2>3. QED
    BY <1>1, <1>2, <1>5, <2>1, <2>2
<1>6. CASE /\ queue' = queue \o <<[url |-> s], [file |-> n]>>
           /\ urls' = urls \cup {s}
  <2> DEFINE q == Append(queue, [url |-> s])
  <2>1. /\ q \in Seq(QueueEntries) /\ Held(queue, "url") \cup {s} \subseteq Held(q, "url")
        /\ Held(queue, "file") \subseteq Held(q, "file")
    BY <1>1, QueueUrl
  <2>2. queue' = Append(q, [file |-> n])
    BY <1>1, <1>6
  <2> HIDE DEF q
  <2>3. /\ queue' \in Seq(QueueEntries) /\ Held(q, "file") \cup {n} \subseteq Held(queue', "file")
        /\ Held(q, "url") \subseteq Held(queue', "url")
    BY <2>1, <2>2, QueueFile
  <2>4. QED
    BY <1>1, <1>2, <1>6, <2>1, <2>3
<1>7. QED
  BY <1>3, <1>4, <1>5, <1>6 DEF GetObjectUrl

LEMMA WriteSucceedsKeeps ==
  ASSUME SaverInv, NEW s \in Savers, WriteSucceeds(s)
  PROVE  UnderWay(s) /\ Only(s) /\ Keeps(s) /\ MovesOn(s)
<1> DEFINE n == save[s].name
           v == dir[n] \cup {s}
           view == <<[way |-> "file", data |-> Shown(v)]>>
           w == IF HasTargetView(s) THEN "DONE" ELSE readyState[s]
           ways == IF HasTargetView(s) THEN view ELSE <<>>
           told == IF HasTargetView(s) THEN heard[s] \o <<"writeend">> ELSE heard[s]
<1>1. UnderWay(s) /\ at[s] = "writing"
  BY DEF WriteSucceeds, UnderWay, Waits
<1>2. /\ SaverFields /\ n \in Names /\ urls \subseteq Queued("url") /\ opened[s] = <<>>
      /\ Phase(s) /\ Prepared(s) /\ abortedAt[s] = "no" /\ readyState[s] = "WRITING"
  BY <1>1, WaitingFacts DEF Phase
<1>3. /\ dir[n] \in SUBSET Savers /\ dir[n] # NoFile /\ v \in (SUBSET Savers) \cup {NoFile}
      /\ v # NoFile /\ dir' = [dir EXCEPT ![n] = v] /\ dir'[n] = v
      /\ s \notin shared => v = {s}
  <2>1. dir[n] \in SUBSET Savers /\ dir[n] # NoFile
    BY <1>2 DEF SaverFields, WriteSucceeds
  <2>2. dir' = [dir EXCEPT ![n] = v]
    BY <2>1 DEF WriteSucceeds, Written
  <2>3. v \in SUBSET Savers /\ v # NoFile /\ n \in DOMAIN dir
    BY <1>2, <2>1, SaverAssumption DEF SaverFields
  <2>4. s \notin shared => dir[n] = {}
    BY <1>1, <1>2, <2>1 DEF Prepared
  <2>5. QED
    BY <2>1, <2>2, <2>3, <2>4
<1>4. /\ readyState' = [readyState EXCEPT ![s] = w] /\ opened' = [opened EXCEPT ![s] = ways]
      /\ heard' = [heard EXCEPT ![s] = told]
      /\ urls' = urls /\ queue' = IF HasTargetView(s) THEN Append(queue, [file |-> n]) ELSE queue
  <2>1. view \in Seq(Ways) /\ <<>> \o view = view
    BY <1>3, FileWay
  <2>2. CASE HasTargetView(s)
    BY <1>2, <1>3, <2>1, <2>2 DEF WriteSucceeds, WriteEnd, Becomes, Open, Hear
  <2>3. CASE ~HasTargetView(s)
    BY <1>2, <2>3 DEF WriteSucceeds, WriteEndThrows, SaverFields
  <2>4. QED
    BY <2>2, <2>3
<1>5. /\ at' = [at EXCEPT ![s] = "end"] /\ failed' = failed
      /\ UNCHANGED <<env, save, abortedAt, shared, closed>>
  BY DEF WriteSucceeds, Goto
<1>6. /\ ways \in Seq(Ways) /\ Len(ways) <= 2 /\ w \in {readyState[s], "DONE"}
      /\ \A i \in DOMAIN ways : s \notin shared => ways[i].data = {s}
  <2>1. s \notin shared => Shown(v) = {s}
    BY <1>3 DEF Shown
  <2>2. view \in Seq(Ways) /\ Len(view) = 1
    BY <1>3, FileWay
  <2>3. \A i \in DOMAIN view : view[i].data = Shown(v)
    OBVIOUS
  <2>4. QED
    BY <2>1, <2>2, <2>3
<1>7. /\ queue' \in Seq(QueueEntries) /\ urls' \subseteq Savers
      /\ urls' \subseteq Queued("url")' /\ Queued("file") \subseteq Queued("file")'
      /\ n \in Queued("file")' \/ ~HasTargetView(s)
  BY <1>2, <1>4, QueueFacts
<1>8. w = "WRITING" => ~HasTargetView(s)
  OBVIOUS
<1> HIDE DEF v, w, ways, told
<1>9. QED
  BY <1>1, <1>2, <1>3, <1>4, <1>5, <1>6, <1>7, <1>8, EndKeeps

LEMMA FsErrorKeeps ==
  ASSUME SaverInv, NEW s \in Savers, UnderWay(s), at' = [at EXCEPT ![s] = "end"],
         FsError(s), failed' = failed \cup {s},
         UNCHANGED <<env, save, dir, abortedAt, shared, closed>>
  PROVE  Only(s) /\ Keeps(s) /\ MovesOn(s)
<1> DEFINE n == save[s].name
           ways == <<[way |-> "url", data |-> {s}]>>
           told == heard[s] \o AllEvents
<1>1. /\ SaverFields /\ n \in Names /\ urls \subseteq Queued("url") /\ opened[s] = <<>>
  BY WaitingFacts
<1>2. ways \in Seq(Ways) /\ Len(ways) <= 2 /\ <<>> \o ways = ways
  <2>1. ways \in Seq(Ways)
    BY UrlWay
  <2>2. Len(ways) = 1 /\ <<>> \o ways = ways
    OBVIOUS
  <2>3. QED
    BY <2>1, <2>2
<1>3. dir[n] \in (SUBSET Savers) \cup {NoFile} /\ dir' = [dir EXCEPT ![n] = dir[n]]
  BY <1>1 DEF SaverFields
<1>4. /\ readyState' = [readyState EXCEPT ![s] = "DONE"] /\ opened' = [opened EXCEPT ![s] = ways]
      /\ heard' = [heard EXCEPT ![s] = told] /\ s \in failed'
  BY <1>1, <1>2 DEF FsError, Becomes, Open, Hear
<1>5. /\ queue' \in Seq(QueueEntries) /\ urls' \subseteq Savers
      /\ urls' \subseteq Queued("url")' /\ Queued("file") \subseteq Queued("file")'
  BY <1>1, QueueFacts DEF FsError
<1> HIDE DEF ways, told
<1>6. QED
  BY <1>1, <1>2, <1>3, <1>4, <1>5, EndKeeps

LEMMA WriteFailsKeeps ==
  ASSUME SaverInv, NEW s \in Savers, WriteFails(s)
  PROVE  UnderWay(s) /\ Only(s) /\ Keeps(s) /\ MovesOn(s)
<1>1. UnderWay(s) /\ at[s] = "writing"
  BY DEF WriteFails, UnderWay, Waits
<1>2. CASE ~HasTargetView(s)
  BY <1>1, <1>2, FsErrorKeeps DEF WriteFails, Goto
<1>3. CASE HasTargetView(s)
  <2> DEFINE n == save[s].name
             ways == <<[way |-> "url", data |-> {s}],
                       [way |-> "file", data |-> Shown(dir[n])]>>
             told == heard[s] \o Append(AllEvents, "writeend")
  <2>1. /\ SaverFields /\ n \in Names /\ urls \subseteq Queued("url") /\ opened[s] = <<>>
    BY <1>1, WaitingFacts
  <2>2. dir[n] \in (SUBSET Savers) \cup {NoFile} /\ dir' = [dir EXCEPT ![n] = dir[n]]
    BY <2>1 DEF SaverFields, WriteFails
  <2>3. ways \in Seq(Ways) /\ Len(ways) <= 2 /\ <<>> \o ways = ways
    <3>1. Shown(dir[n]) \in SUBSET Savers
      BY <2>2, FileWay
    <3>2. QED
      BY <3>1 DEF Ways
  <2>4. /\ readyState' = [readyState EXCEPT ![s] = "DONE"] /\ opened' = [opened EXCEPT ![s] = ways]
        /\ heard' = [heard EXCEPT ![s] = told] /\ failed' = failed \cup {s}
        /\ at' = [at EXCEPT ![s] = "end"]
        /\ UNCHANGED <<env, save, abortedAt, shared, closed>>
    BY <1>3, <2>1, <2>3 DEF WriteFails, Becomes, Open, Hear, Goto
  <2>5. /\ queue' \in Seq(QueueEntries) /\ urls' \subseteq Savers
        /\ urls' \subseteq Queued("url")' /\ Queued("file") \subseteq Queued("file")'
    BY <1>3, <2>1, QueueFacts DEF WriteFails
  <2> HIDE DEF ways, told
  <2>6. QED
    BY <1>1, <2>1, <2>2, <2>3, <2>4, <2>5, EndKeeps
<1>4. QED
  BY <1>2, <1>3

LEMMA WriteAbortedKeeps ==
  ASSUME SaverInv, NEW s \in Savers, WriteAborted(s)
  PROVE  UnderWay(s) /\ Only(s) /\ Keeps(s) /\ MovesOn(s)
<1> DEFINE n == save[s].name
           v == dir'[n]
           view == <<[way |-> "file", data |-> Shown(v)]>>
           ways == IF HasTargetView(s) THEN view ELSE <<>>
           told == IF HasTargetView(s) THEN heard[s] \o <<"abort", "writeend">>
                     ELSE heard[s] \o <<"abort">>
<1>1. UnderWay(s) /\ at[s] = "aborting"
  BY DEF WriteAborted, UnderWay, Waits
<1>2. /\ SaverFields /\ n \in Names /\ urls \subseteq Queued("url") /\ opened[s] = <<>>
      /\ abortedAt[s] = "writing" /\ readyState[s] = "DONE"
  BY <1>1, WaitingFacts DEF Phase
<1>3. v \in (SUBSET Savers) \cup {NoFile} /\ dir' = [dir EXCEPT ![n] = v]
  <2>1. dir \in [Names -> (SUBSET Savers) \cup {NoFile}]
    BY <1>2 DEF SaverFields
  <2>2. CASE Written(s)
    BY <1>2, <2>1, <2>2 DEF Written
  <2>3. CASE UNCHANGED dir
    BY <1>2, <2>1, <2>3
  <2>4. QED
    BY <2>2, <2>3 DEF WriteAborted
<1>4. /\ view \in Seq(Ways) /\ Len(view) = 1 /\ <<>> \o view = view
      /\ ways \in Seq(Ways) /\ Len(ways) <= 2
  BY <1>3, FileWay
<1>5. /\ readyState' = [readyState EXCEPT ![s] = "DONE"] /\ opened' = [opened EXCEPT ![s] = ways]
      /\ heard' = [heard EXCEPT ![s] = told]
      /\ urls' = urls /\ queue' = IF HasTargetView(s) THEN Append(queue, [file |-> n]) ELSE queue
  <2>1. CASE HasTargetView(s)
    BY <1>2, <1>4, <2>1 DEF WriteAborted, Becomes, Open, Hear
  <2>2. CASE ~HasTargetView(s)
    BY <1>2, <2>2 DEF WriteAborted, Hear, SaverFields
  <2>3. QED
    BY <2>1, <2>2
<1>6. /\ at' = [at EXCEPT ![s] = "end"] /\ failed' = failed
      /\ UNCHANGED <<env, save, abortedAt, shared, closed>>
  BY DEF WriteAborted, Goto
<1>7. /\ queue' \in Seq(QueueEntries) /\ urls' \subseteq Savers
      /\ urls' \subseteq Queued("url")' /\ Queued("file") \subseteq Queued("file")'
  BY <1>2, <1>5, QueueFacts
<1> HIDE DEF v, ways, told
<1>8. QED
  BY <1>1, <1>2, <1>3, <1>4, <1>5, <1>6, <1>7, EndKeeps

LEMMA RequestFailsKeeps ==
  ASSUME SaverInv, NEW s \in Savers, RequestFails(s)
  PROVE  UnderWay(s) /\ Only(s) /\ Keeps(s) /\ MovesOn(s)
<1> DEFINE n == save[s].name
<1>1. UnderWay(s)
  BY DEF RequestFails, UnderWay, Waits
<1>2. CASE at[s] = "lookup" /\ readyState[s] = "DONE"
  <2>1. /\ SaverFields /\ n \in Names /\ urls \subseteq Queued("url") /\ opened[s] = <<>>
    BY <1>1, WaitingFacts
  <2>2. dir[n] \in (SUBSET Savers) \cup {NoFile} /\ dir' = [dir EXCEPT ![n] = dir[n]]
    BY <2>1 DEF SaverFields, RequestFails
  <2>3. /\ readyState' = [readyState EXCEPT ![s] = "DONE"] /\ opened' = [opened EXCEPT ![s] = <<>>]
        /\ heard' = [heard EXCEPT ![s] = heard[s]] /\ failed' = failed \cup {s}
        /\ at' = [at EXCEPT ![s] = "end"]
        /\ UNCHANGED <<env, save, abortedAt, shared, closed, queue, urls>>
    BY <1>2, <2>1 DEF RequestFails, Goto, SaverFields
  <2>4. /\ queue' \in Seq(QueueEntries) /\ urls' \subseteq Savers
        /\ urls' \subseteq Queued("url")' /\ Queued("file") \subseteq Queued("file")'
    BY <2>1, <2>3, QueueFacts
  <2>5. <<>> \in Seq(Ways) /\ Len(<<>>) <= 2
    OBVIOUS
  <2>6. QED
    BY <1>1, <2>1, <2>2, <2>3, <2>4, <2>5, EndKeeps
<1>3. CASE ~(at[s] = "lookup" /\ readyState[s] = "DONE")
  BY <1>1, <1>3, FsErrorKeeps DEF RequestFails, Goto
<1>4. QED
  BY <1>2, <1>3

LEMMA AbortKeeps ==
  ASSUME SaverInv, NEW s \in Savers, Abort(s)
  PROVE  UnderWay(s) /\ Only(s) /\ Keeps(s) /\ MovesOn(s)
<1> DEFINE n == save[s].name
<1>1. UnderWay(s) /\ readyState[s] # "DONE"
  BY DEF Abort
<1>2. /\ SaverFields /\ Phase(s) /\ ShowsBlob(s) /\ n \in Names /\ urls \subseteq Queued("url")
      /\ opened[s] = <<>> /\ s \notin failed /\ at[s] \in Waits
  BY <1>1, WaitingFacts
<1>3. /\ readyState' = [readyState EXCEPT ![s] = "DONE"] /\ abortedAt' = [abortedAt EXCEPT ![s] = at[s]]
      /\ UNCHANGED <<env, save, dir, queue, urls, opened, failed, shared, closed>>
  BY DEF Abort, Becomes
<1>4. /\ readyState'[s] = "DONE" /\ abortedAt'[s] = at[s]
      /\ \A t \in Savers \ {s} : readyState'[t] = readyState[t] /\ abortedAt'[t] = abortedAt[t]
  BY <1>2, <1>3 DEF SaverFields
<1>5. /\ at'[s] = IF at[s] = "writing" THEN "aborting" ELSE at[s]
      /\ at[s] # "writing" => heard'[s] = <<"abort">>
      /\ \A t \in Savers \ {s} : at'[t] = at[t] /\ heard'[t] = heard[t]
      /\ at' \in [Savers -> Waits \cup {"idle", "end", "gone"}]
      /\ heard' = [t \in Savers |-> heard'[t]]
  <2>1. CASE at[s] = "writing"
    <3>1. at' = [at EXCEPT ![s] = "aborting"] /\ heard' = heard
      BY <2>1 DEF Abort, Goto
    <3>2. QED
      BY <1>2, <2>1, <3>1 DEF SaverFields, Waits
  <2>2. CASE at[s] # "writing"
    <3>1. heard[s] = <<>>
      BY <1>1, <1>2, <2>2 DEF Phase, Waits, PreWrite
    <3>2. at' = at /\ heard' = [heard EXCEPT ![s] = <<"abort">>]
      BY <2>2, <3>1 DEF Abort, Hear
    <3>3. QED
      BY <1>2, <2>2, <3>2 DEF SaverFields
  <2>3. QED
    BY <2>1, <2>2
<1>6. Only(s)
  BY <1>3, <1>4, <1>5 DEF Only
<1>7. SaverFields'
  <2>1. /\ readyState' \in [Savers -> {"INIT", "WRITING", "DONE"}]
        /\ abortedAt' \in [Savers -> Waits \cup {"no"}]
    BY <1>2, <1>3 DEF SaverFields
  <2>2. QED
    BY <1>2, <1>3, <1>5, <2>1 DEF SaverFields
<1>8. Phase(s)'
  <2>1. at[s] \in PreWrite \cup {"writing"}
    BY <1>1, <1>2 DEF Phase, Waits, PreWrite
  <2>2. QED
    BY <1>2, <1>3, <1>4, <1>5, <2>1 DEF Phase, PreWrite, Waits
<1>9. Prepared(s)' /\ MovesOn(s)
  BY <1>4 DEF Prepared, MovesOn
<1>10. ShowsBlob(s)'
  BY <1>2, <1>3 DEF ShowsBlob
<1>11. Accounts(s)'
  <2>1. ~Undisturbed(s)'
    BY <1>2, <1>4 DEF Undisturbed, Aborted, Waits
  <2>2. at'[s] # "idle"
    BY <1>2, <1>5 DEF Waits
  <2>3. QED
    BY <2>1, <2>2 DEF Accounts
<1>12. Queued("file") \subseteq Queued("file")' /\ urls' \subseteq Queued("url")'
  BY <1>2, <1>3 DEF Queued
<1>13. QED
  BY <1>1, <1>6, <1>7, <1>8, <1>9, <1>10, <1>11, <1>12 DEF Keeps

LEMMA SaveMovesKeep ==
  ASSUME SaverInv, NEW s \in Savers, Answers(s) \/ Abort(s)
  PROVE  SaverInv' /\ GoesUp
<1>1. UnderWay(s) /\ Only(s) /\ Keeps(s) /\ MovesOn(s)
  BY CallbacksKeep, WriteSucceedsKeeps, WriteFailsKeeps, WriteAbortedKeeps, RequestFailsKeeps,
    AbortKeeps DEF Answers
<1>2. SaverInv'
  BY <1>1, OneSaveMoves
<1>3. \A t \in Savers : MovesOn(t)
  BY <1>1 DEF Only, MovesOn
<1>4. QED
  BY <1>2, <1>3, RanksGoUp DEF SaverInv

LEMMA SaveAsKeeps ==
  ASSUME SaverInv, NEW s \in Savers, NEW n \in Names, NEW octet \in BOOLEAN, SaveAs(s, n, octet)
  PROVE  SaverInv' /\ GoesUp
<1>1. /\ SaverFields /\ OverlapsKnown /\ Remembered
      /\ \A t \in Savers : Phase(t) /\ Prepared(t) /\ ShowsBlob(t)
      /\ ~closed /\ at[s] = "idle" /\ ~closed' /\ ~UnderWay(s)
  BY DEF SaverInv, SaveAs, UnderWay, Waits
<1>2. /\ readyState[s] = "INIT" /\ abortedAt[s] = "no" /\ heard[s] = <<>> /\ opened[s] = <<>>
      /\ s \notin failed
  BY <1>1 DEF Phase
<1>3. /\ save' = [save EXCEPT ![s] = [name |-> n, octet |-> octet]]
      /\ UNCHANGED <<env, dir, heard, abortedAt, failed, closed>>
  BY DEF SaveAs
<1>4. /\ save' \in [Savers -> [name : Names \cup {NoFile}, octet : BOOLEAN]]
      /\ save'[s].name = n /\ \A t \in Savers \ {s} : save'[t] = save[t]
  BY <1>1, <1>3 DEF SaverFields
<1> DEFINE same == {t \in Savers : UnderWay(t) /\ save[t].name = n}
           byLink == env.saveLink \/ env.fs = "none"
(* The two ways a save starts: it is done, or waits for the file system.   *)
<1>5. /\ readyState'[s] \in {"INIT", "DONE"} /\ readyState' \in [Savers -> {"INIT", "WRITING", "DONE"}]
      /\ at'[s] = IF byLink THEN "end" ELSE "filesystem"
      /\ at' \in [Savers -> Waits \cup {"idle", "end", "gone"}]
      /\ opened' \in [Savers -> Seq(Ways)] /\ Len(opened'[s]) <= 2
      /\ byLink \/ (opened'[s] = <<>> /\ readyState'[s] = "INIT")
      /\ \A i \in DOMAIN opened'[s] : opened'[s][i].data = {s}
      /\ queue' \in Seq(QueueEntries) /\ urls' \subseteq Savers
      /\ urls' \subseteq Queued("url")' /\ Queued("file") \subseteq Queued("file")'
      /\ shared \subseteq shared' /\ shared' \subseteq Savers
      /\ shared' \subseteq shared \cup same \cup {s}
      /\ ~byLink /\ same # {} => same \cup {s} \subseteq shared'
      /\ \A t \in Savers \ {s} : /\ at'[t] = at[t] /\ readyState'[t] = readyState[t]
                                 /\ opened'[t] = opened[t]
  <2>1. CASE byLink
    <3> DEFINE way == [way |-> IF env.saveLink THEN "link" ELSE "url", data |-> {s}]
               ways == <<way>>
    <3>1. /\ GetObjectUrl(s) /\ readyState' = [readyState EXCEPT ![s] = "DONE"]
          /\ at' = [at EXCEPT ![s] = "end"] /\ opened' = [opened EXCEPT ![s] = opened[s] \o ways]
          /\ shared' = shared
      BY <2>1 DEF SaveAs, Becomes, Goto, Open
    <3>2. ways \in Seq(Ways) /\ Len(ways) = 1 /\ <<>> \o ways = ways /\ ways[1].data = {s}
      <4>1. way \in Ways
        BY DEF Ways
      <4>2. QED
        BY <4>1
    <3> HIDE DEF way, ways
    <3>3. opened' = [opened EXCEPT ![s] = ways]
      BY <1>2, <3>1, <3>2
    <3>4. /\ opened' \in [Savers -> Seq(Ways)] /\ opened'[s] = ways
          /\ \A t \in Savers \ {s} : opened'[t] = opened[t]
      BY <1>1, <3>2, <3>3 DEF SaverFields
    <3>5. \A i \in DOMAIN ways : ways[i].data = {s}
      BY <3>2
    <3>6. /\ queue' \in Seq(QueueEntries) /\ urls' \subseteq Savers
          /\ urls' \subseteq Queued("url")' /\ Queued("file") \subseteq Queued("file")'
      <4>1. queue \in Seq(QueueEntries) /\ urls \subseteq Savers /\ urls \subseteq Held(queue, "url")
        BY <1>1 DEF SaverFields, Remembered, Queued, Held
      <4>2. queue' = Append(queue, [url |-> s]) /\ urls' = urls \cup {s}
        BY <3>1 DEF GetObjectUrl
      <4>3. \A kind : Queued(kind)' = Held(queue', kind) /\ Queued(kind) = Held(queue, kind)
        BY DEF Queued, Held
      <4>4. QED
        BY <4>1, <4>2, <4>3, QueueUrl
    <3>7. /\ at' \in [Savers -> Waits \cup {"idle", "end", "gone"}] /\ at'[s] = "end"
          /\ readyState' \in [Savers -> {"INIT", "WRITING", "DONE"}] /\ readyState'[s] = "DONE"
          /\ \A t \in Savers \ {s} : at'[t] = at[t] /\ readyState'[t] = readyState[t]
      BY <1>1, <3>1 DEF SaverFields
    <3>8. shared \subseteq Savers
      BY <1>1 DEF SaverFields
    <3> HIDE DEF same, byLink
    <3>9. shared' = shared /\ Len(opened'[s]) <= 2 /\ \A i \in DOMAIN opened'[s] : opened'[s][i].data = {s}
      <4>1. opened'[s] = ways /\ Len(ways) <= 2
        BY <3>2, <3>4
      <4>2. QED
        BY <3>1, <3>5, <4>1
    <3>10. QED
      BY <2>1, <3>4, <3>6, <3>7, <3>8, <3>9
  <2>2. CASE ~byLink
    <3>1. /\ at' = [at EXCEPT ![s] = "filesystem"]
          /\ shared' = shared \cup same \cup (IF same = {} THEN {} ELSE {s})
          /\ UNCHANGED <<queue, urls, opened, readyState>>
      BY <2>2 DEF SaveAs, Goto
    <3>2. /\ at' \in [Savers -> Waits \cup {"idle", "end", "gone"}] /\ at'[s] = "filesystem"
          /\ \A t \in Savers \ {s} : at'[t] = at[t]
      BY <1>1, <3>1 DEF SaverFields, Waits
    <3>3. Queued("url")' = Queued("url") /\ Queued("file")' = Queued("file")
      BY <3>1 DEF Queued
    <3>4. shared \subseteq shared' /\ shared' \subseteq Savers /\ shared' \subseteq shared \cup same \cup {s}
      BY <1>1, <3>1 DEF SaverFields
    <3>5. QED
      BY <1>1, <1>2, <2>2, <3>1, <3>2, <3>3, <3>4 DEF SaverFields, Remembered
  <2>3. QED
    BY <2>1, <2>2
<1> HIDE DEF same, byLink
<1>6. SaverFields'
  BY <1>1, <1>3, <1>4, <1>5 DEF SaverFields
<1>7. ASSUME NEW t \in Savers, t # s
      PROVE  Phase(t)' /\ Prepared(t)' /\ ShowsBlob(t)'
  <2>1. /\ at'[t] = at[t] /\ readyState'[t] = readyState[t] /\ opened'[t] = opened[t]
        /\ save'[t] = save[t] /\ Phase(t) /\ Prepared(t) /\ ShowsBlob(t)
    BY <1>1, <1>4, <1>5, <1>7
  <2>2. HasTargetView(t)' <=> HasTargetView(t)
    BY <1>3, <2>1 DEF HasTargetView
  <2>3. at[t] = "idle" => t \notin shared'
    BY <1>5, <1>7, <2>1 DEF Phase, same, UnderWay, Waits
  <2>4. Phase(t)'
    BY <1>3, <2>1, <2>2, <2>3 DEF Phase
  <2>5. Prepared(t)' /\ ShowsBlob(t)'
    BY <1>3, <1>5, <2>1 DEF Prepared, ShowsBlob, Undisturbed, Aborted
  <2>6. QED
    BY <2>4, <2>5
<1>8. Phase(s)' /\ Prepared(s)' /\ ShowsBlob(s)'
  <2>1. Phase(s)'
    BY <1>2, <1>3, <1>4, <1>5 DEF Phase, Waits, PreWrite
  <2>2. QED
    BY <1>5, <2>1 DEF Prepared, ShowsBlob
<1>9. OverlapsKnown'
  <2> SUFFICES ASSUME NEW t \in Savers, NEW u \in Savers, t # u, UnderWay(t)', UnderWay(u)',
                      save'[t].name = save'[u].name
               PROVE  t \in shared'
    BY DEF OverlapsKnown
  <2>1. CASE t # s /\ u # s
    <3>1. UnderWay(t) /\ UnderWay(u) /\ save[t].name = save[u].name
      BY <1>4, <1>5, <2>1 DEF UnderWay
    <3>2. QED
      BY <1>1, <1>5, <3>1 DEF OverlapsKnown
  <2>2. CASE t = s
    <3>1. UnderWay(u) /\ save[u].name = n /\ ~byLink
      BY <1>4, <1>5, <2>2 DEF UnderWay, Waits
    <3>2. QED
      BY <1>5, <2>2, <3>1 DEF same
  <2>3. CASE u = s
    <3>1. UnderWay(t) /\ save[t].name = n /\ ~byLink
      BY <1>4, <1>5, <2>3 DEF UnderWay, Waits
    <3>2. QED
      BY <1>5, <3>1 DEF same
  <2>4. QED
    BY <2>1, <2>2, <2>3
<1>10. Remembered'
  <2>1. ASSUME NEW m \in Names, dir'[m] # NoFile
        PROVE  m \in Queued("file")' \/ \E t \in Savers : save'[t].name = m /\ Accounts(t)'
    <3>1. m \in Queued("file") \/ \E t \in Savers : save[t].name = m /\ Accounts(t)
      BY <1>1, <1>3, <2>1 DEF Remembered
    <3>2. ASSUME NEW t \in Savers, save[t].name = m, Accounts(t)
          PROVE  save'[t].name = m /\ Accounts(t)'
      <4>1. t # s
        BY <1>1, <3>2 DEF Accounts
      <4>2. /\ save'[t] = save[t] /\ at'[t] = at[t] /\ (Undisturbed(t)' <=> Undisturbed(t))
            /\ (HasTargetView(t)' <=> HasTargetView(t))
        BY <1>3, <1>4, <1>5, <4>1 DEF Undisturbed, Aborted, HasTargetView
      <4>3. QED
        BY <3>2, <4>2 DEF Accounts
    <3>3. QED
      BY <1>5, <3>1, <3>2
  <2>2. QED
    BY <1>1, <1>5, <2>1 DEF Remembered
<1>11. \A t \in Savers : MovesOn(t)
  BY <1>2, <1>5 DEF MovesOn
<1>12. QED
  BY <1>1, <1>6, <1>7, <1>8, <1>9, <1>10, <1>11, RanksGoUp DEF SaverInv

LEMMA UnloadKeeps ==
  ASSUME SaverInv, Unload
  PROVE  SaverInv' /\ GoesUp
<1>1. /\ SaverFields /\ Remembered /\ ~closed /\ urls \subseteq Queued("url")
      /\ \A t \in Savers : Phase(t) /\ ShowsBlob(t)
  BY DEF SaverInv, Unload, Remembered
<1>2. /\ closed' = TRUE /\ queue' = <<>> /\ urls' = {}
      /\ dir' = [n \in Names |-> IF n \in Queued("file") THEN NoFile ELSE dir[n]]
      /\ at' = [s \in Savers |-> IF UnderWay(s) THEN "gone" ELSE at[s]]
      /\ UNCHANGED <<env, readyState, save, opened, heard, abortedAt, failed, shared>>
  BY <1>1 DEF Unload, ProcessDeletionQueue
<1>3. ASSUME NEW s \in Savers
      PROVE  /\ at'[s] = (IF at[s] \in Waits THEN "gone" ELSE at[s])
             /\ at'[s] \in {"idle", "end", "gone"}
             /\ HasTargetView(s)' <=> HasTargetView(s)
             /\ Undisturbed(s)' <=> Undisturbed(s)
  BY <1>1, <1>2 DEF SaverFields, UnderWay, HasTargetView, Undisturbed, Aborted
<1>4. SaverFields'
  <2>1. /\ at' \in [Savers -> Waits \cup {"idle", "end", "gone"}]
    BY <1>1, <1>2 DEF SaverFields
  <2>2. dir' \in [Names -> (SUBSET Savers) \cup {NoFile}]
    BY <1>1, <1>2 DEF SaverFields
  <2>3. queue' \in Seq(QueueEntries) /\ urls' \subseteq Savers
    BY <1>2
  <2>4. QED
    BY <1>1, <1>2, <2>1, <2>2, <2>3 DEF SaverFields
<1>5. ASSUME NEW s \in Savers PROVE Phase(s)' /\ Prepared(s)' /\ ShowsBlob(s)' /\ ~UnderWay(s)'
  <2>1. Phase(s)'
    <3>1. CASE at[s] \in Waits
      BY <1>1, <1>2, <1>3, <3>1 DEF Phase, Waits, PreWrite
    <3>2. CASE at[s] \notin Waits
      BY <1>1, <1>2, <1>3, <3>2 DEF Phase, Waits, PreWrite
    <3>3. QED
      BY <3>1, <3>2
  <2>2. ~UnderWay(s)' /\ Prepared(s)'
    BY <1>3 DEF UnderWay, Waits, Prepared
  <2>3. ShowsBlob(s)'
    BY <1>1, <1>2, <1>3 DEF ShowsBlob
  <2>4. QED
    BY <2>1, <2>2, <2>3
<1>6. OverlapsKnown'
  BY <1>5 DEF OverlapsKnown
<1>7. Remembered'
  <2>1. ASSUME NEW n \in Names, dir'[n] # NoFile
        PROVE  \E s \in Savers : save'[s].name = n /\ Accounts(s)'
    <3>1. dir[n] # NoFile /\ n \notin Queued("file")
      BY <1>2, <2>1
    <3>2. PICK s \in Savers : save[s].name = n /\ Accounts(s)
      BY <1>1, <3>1 DEF Remembered
    <3>3. Accounts(s)'
      BY <1>3, <3>2 DEF Accounts, Waits
    <3>4. QED
      BY <1>2, <3>2, <3>3
  <2>2. QED
    BY <1>2, <1>5, <2>1 DEF Remembered
<1>8. QED
  BY <1>1, <1>2, <1>4, <1>5, <1>6, <1>7, RanksGoUp DEF SaverInv, MovesOn

-----------------------------------------------------------------------------
LEMMA SaverInvInit == SaverInit => SaverInv
<1> SUFFICES ASSUME SaverInit PROVE SaverInv
  OBVIOUS
<1>1. SaverFields
  <2>1. opened \in [Savers -> Seq(Ways)]
    <3>1. <<>> \in Seq(Ways)
      OBVIOUS
    <3>2. opened = [s \in Savers |-> <<>>]
      BY DEF SaverInit
    <3>3. QED
      BY <3>1, <3>2, Zenon
  <2>2. heard = [s \in Savers |-> heard[s]]
    <3>1. heard = [s \in Savers |-> <<>>]
      BY DEF SaverInit
    <3>2. QED
      BY <3>1, Zenon
  <2>3. /\ at \in [Savers -> Waits \cup {"idle", "end", "gone"}]
        /\ abortedAt \in [Savers -> Waits \cup {"no"}]
    BY DEF SaverInit
  <2>4. /\ readyState \in [Savers -> {"INIT", "WRITING", "DONE"}]
        /\ save \in [Savers -> [name : Names \cup {NoFile}, octet : BOOLEAN]]
        /\ dir \in [Names -> (SUBSET Savers) \cup {NoFile}]
    BY DEF SaverInit
  <2>5. /\ queue \in Seq(QueueEntries) /\ urls \subseteq Savers
        /\ failed \subseteq Savers /\ shared \subseteq Savers
        /\ env \in [saveLink : BOOLEAN, fs : Fss]
    BY DEF SaverInit
  <2>6. QED
    BY <2>1, <2>2, <2>3, <2>4, <2>5 DEF SaverFields
<1>2. ASSUME NEW s \in Savers
      PROVE  /\ at[s] = "idle" /\ readyState[s] = "INIT" /\ opened[s] = <<>> /\ heard[s] = <<>>
             /\ abortedAt[s] = "no" /\ s \notin failed /\ s \notin shared
  BY Zenon DEF SaverInit
<1>3. ASSUME NEW s \in Savers
      PROVE  Phase(s) /\ Prepared(s) /\ ShowsBlob(s) /\ ~UnderWay(s)
  <2>1. /\ at[s] = "idle" /\ readyState[s] = "INIT" /\ opened[s] = <<>> /\ heard[s] = <<>>
        /\ abortedAt[s] = "no" /\ s \notin failed /\ s \notin shared
    BY <1>2
  <2>2. QED
    BY <2>1 DEF Phase, Prepared, ShowsBlob, UnderWay, Waits, PreWrite
<1>4. OverlapsKnown
  BY <1>3 DEF OverlapsKnown
<1>5. Remembered
  <2>1. ~closed /\ urls = {} /\ \A n \in Names : dir[n] = NoFile
    BY DEF SaverInit
  <2>2. QED
    BY <2>1 DEF Remembered
<1>6. QED
  BY <1>1, <1>3, <1>4, <1>5 DEF SaverInv

LEMMA SaverInvFiles == SaverInv => SavesKeepTheirFile
<1> SUFFICES ASSUME SaverInv PROVE SavesKeepTheirFile
  OBVIOUS
<1>1. /\ SaverFields /\ Remembered /\ \A s \in Savers : Phase(s) /\ ShowsBlob(s)
  BY DEF SaverInv
<1>2. SaverTypeOK
  <2>1. ASSUME NEW s \in Savers
        PROVE  /\ opened[s] \in Seq(Ways) /\ Len(opened[s]) <= 2
               /\ at[s] = "writing" => readyState[s] = "WRITING"
               /\ readyState[s] = "WRITING" /\ at[s] # "gone" /\ env.fs = "webkit" =>
                    at[s] = "writing"
    BY <1>1 DEF SaverFields, Phase, HasTargetView
  <2>2. QED
    BY <1>1, <2>1 DEF SaverFields, SaverTypeOK
<1>3. FileIsTheBlob
  BY <1>1 DEF FileIsTheBlob, ShowsBlob
<1>4. AbortedOpensNothing
  BY <1>1 DEF AbortedOpensNothing, Aborted, Phase
<1>5. NothingLeftBehind
  <2> SUFFICES ASSUME closed PROVE urls = {} /\ \A n \in Names : dir[n] # NoFile =>
         \E s \in Savers : save[s].name = n /\
           (at[s] = "gone" \/ ~Undisturbed(s) \/ ~HasTargetView(s))
    BY DEF NothingLeftBehind
  <2>1. urls = {} /\ queue = <<>> /\ \A s \in Savers : ~UnderWay(s)
    BY <1>1 DEF Remembered
  <2>2. Queued("file") = {}
    BY <2>1 DEF Queued
  <2>3. ASSUME NEW n \in Names, dir[n] # NoFile
        PROVE  \E s \in Savers : save[s].name = n /\
                 (at[s] = "gone" \/ ~Undisturbed(s) \/ ~HasTargetView(s))
    <3>1. PICK s \in Savers : save[s].name = n /\ Accounts(s)
      BY <1>1, <2>2, <2>3 DEF Remembered
    <3>2. QED
      BY <2>1, <3>1 DEF Accounts, UnderWay
  <2>4. QED
    BY <2>1, <2>3
<1>6. QED
  BY <1>2, <1>3, <1>4, <1>5 DEF SavesKeepTheirFile

LEMMA SaverInvStep == SaverInv /\ [SaverNext]_saverVars => SaverInv' /\ GoesUp
<1> SUFFICES ASSUME SaverInv, [SaverNext]_saverVars PROVE SaverInv' /\ GoesUp
  OBVIOUS
<1>1. CASE SaverNext
  BY <1>1, SaveAsKeeps, SaveMovesKeep, UnloadKeeps DEF SaverNext
<1>2. CASE UNCHANGED saverVars
  <2>1. SaverFields' /\ OverlapsKnown'
    BY <1>2 DEF saverVars, SaverInv, SaverFields, OverlapsKnown, UnderWay
  <2>2. ASSUME NEW s \in Savers PROVE Phase(s)' /\ Prepared(s)' /\ ShowsBlob(s)'
    BY <1>2 DEF saverVars, SaverInv, Phase, Prepared, ShowsBlob, HasTargetView, Undisturbed, Aborted
  <2>3. Remembered'
    BY <1>2 DEF saverVars, SaverInv, Remembered, Queued, Accounts, UnderWay, Undisturbed, Aborted,
      HasTargetView
  <2>4. GoesUp
    BY <1>2, <2>1, RanksGoUp DEF saverVars, SaverInv, MovesOn
  <2>5. QED
    BY <2>1, <2>2, <2>3, <2>4 DEF SaverInv
<1>3. QED
  BY <1>1, <1>2

(* However saves of one page overlap, a file shown to the user is the blob *)
(* of its own save, an aborted save opens nothing, and after the page is   *)
(* left neither an URL nor a file stays behind.                            *)
THEOREM SavesKeepFiles == SaverSpec => []SavesKeepTheirFile
  BY SaverInvInit, SaverInvStep, SaverInvFiles, PTL DEF SaverSpec

(* No callback of the file system, however late, takes readyState of a     *)
(* save back from DONE or WRITING.                                         *)
THEOREM ReadyStateOnlyGoesOn == SaverSpec => ReadyStateGoesOn
<1>1. GoesUp <=> \A s \in Savers : Rank(readyState'[s]) >= Rank(readyState[s])
  BY DEF GoesUp
<1>2. QED
  BY <1>1, SaverInvInit, SaverInvStep, PTL DEF SaverSpec, ReadyStateGoesOn

-----------------------------------------------------------------------------
(* The animations of a picture                                             *)


-----------------------------------------------------------------------------
(* The animations of an attribute                                          *)

(* Nothing has happened before the first frame; after it every animation   *)
(* knows the value it found.                                               *)
BeforeFirst ==
  /\ value = Base
  /\ \A a \in All : duration[a] = 0 /\ initial[a] = NotSet /\ ~removed[a]

AfterFirst ==
  /\ \A a \in All : initial[a] \in Int \cup {NaN}
  /\ LaterOnly => \A a \in All : initial[a] = Base

AnimationInv ==
  /\ anims \in Pictures /\ Len(anims) \in Nat
  /\ AnimTypeOK /\ removed = [a \in All |-> removed[a]]
  /\ BeforeFirst \/ AfterFirst
  /\ RemovedRestores

(* The recursion over the animations of a frame has the value it says.     *)
LEMMA ValueAtExists ==
  ASSUME NEW n \in Nat
  PROVE  \E f : f = [a \in 1 .. n + 1 |-> IF a = 1 THEN value ELSE Update(a - 1, f[a - 1])]
<1> DEFINE Has(k) == \E f : f = [a \in 1 .. k + 1 |->
                               IF a = 1 THEN value ELSE Update(a - 1, f[a - 1])]
           S == {k \in Nat : Has(k)}
<1>1. 0 \in S
  <2> DEFINE f == [a \in 1 .. 0 + 1 |-> value]
  <2>1. f = [a \in 1 .. 0 + 1 |-> IF a = 1 THEN value ELSE Update(a - 1, f[a - 1])]
    <3>1. \A a \in 1 .. 0 + 1 : a = 1
      OBVIOUS
    <3>2. QED
      BY <3>1
  <2> HIDE DEF f
  <2>2. Has(0)
    BY <2>1
  <2>3. QED
    BY <2>2
<1>2. ASSUME NEW k \in Nat, k \in S PROVE k + 1 \in S
  <2>1. PICK f : f = [a \in 1 .. k + 1 |-> IF a = 1 THEN value ELSE Update(a - 1, f[a - 1])]
    BY <1>2
  <2> DEFINE g == [a \in 1 .. k + 1 + 1 |->
                     IF a \in 1 .. k + 1 THEN f[a] ELSE Update(k + 1, f[k + 1])]
             h == [a \in 1 .. k + 1 + 1 |-> IF a = 1 THEN value ELSE Update(a - 1, g[a - 1])]
  <2>2. ASSUME NEW a \in 1 .. k + 1 + 1 PROVE g[a] = h[a]
    <3>1. CASE a = 1
      <4>1. 1 \in 1 .. k + 1
        OBVIOUS
      <4>2. f[1] = value
        BY <2>1, <4>1
      <4>3. QED
        BY <3>1, <4>1, <4>2
    <3>2. CASE a # 1 /\ a \in 1 .. k + 1
      <4>1. a - 1 \in 1 .. k + 1 /\ a - 1 \in 1 .. k + 1 + 1
        BY <3>2
      <4>2. f[a] = Update(a - 1, f[a - 1])
        BY <2>1, <3>2
      <4>3. QED
        BY <3>2, <4>1, <4>2
    <3>3. CASE a \notin 1 .. k + 1
      <4>1. a = k + 1 + 1 /\ a - 1 = k + 1 /\ k + 1 \in 1 .. k + 1 /\ a # 1
        BY <3>3
      <4>2. QED
        BY <3>3, <4>1
    <3>4. QED
      BY <3>1, <3>2, <3>3
  <2>3. g = h
    <3>1. DOMAIN g = DOMAIN h
      OBVIOUS
    <3>2. QED
      BY <2>2, <3>1
  <2> HIDE DEF g
  <2>4. Has(k + 1)
    BY <2>3
  <2> HIDE DEF Has
  <2>5. QED
    BY <2>4
<1>3. \A k \in Nat : k \in S
  <2> HIDE DEF S
  <2>1. QED
    BY <1>1, <1>2, SetInduction
<1>4. Has(n)
  BY <1>3
<1>5. QED
  BY <1>4

LEMMA ValueAtUnfolds ==
  ASSUME Len(anims) \in Nat
  PROVE  /\ ValueAt[1] = value
         /\ \A a \in All : ValueAt[a + 1] = Update(a, ValueAt[a])
<1> DEFINE n == Len(anims)
<1>1. \E f : f = [a \in 1 .. n + 1 |-> IF a = 1 THEN value ELSE Update(a - 1, f[a - 1])]
  BY ValueAtExists
<1>2. ValueAt = [a \in 1 .. n + 1 |-> IF a = 1 THEN value ELSE Update(a - 1, ValueAt[a - 1])]
  BY <1>1, Zenon DEF ValueAt
<1>3. 1 \in 1 .. n + 1
  OBVIOUS
<1>4. ValueAt[1] = value
  BY <1>2, <1>3
<1>5. ASSUME NEW a \in All PROVE ValueAt[a + 1] = Update(a, ValueAt[a])
  <2> DEFINE b == a + 1
  <2>1. b \in 1 .. n + 1 /\ b # 1 /\ b - 1 = a
    BY DEF All
  <2> HIDE DEF b
  <2>2. ValueAt[b] = Update(b - 1, ValueAt[b - 1])
    BY <1>2, <2>1
  <2>3. QED
    BY <2>1, <2>2 DEF b
<1>6. QED
  BY <1>4, <1>5

(* What holds of the first animation, and after an animation if it held    *)
(* before it, holds of all of them in one frame.                           *)
LEMMA FrameInduction ==
  ASSUME Len(anims) \in Nat, NEW T, 1 \in T, \A a \in All : a \in T => a + 1 \in T
  PROVE  \A a \in 1 .. Len(anims) + 1 : a \in T
<1> DEFINE S == {k \in Nat : k + 1 \in 1 .. Len(anims) + 1 => k + 1 \in T}
<1>1. 0 \in S
  OBVIOUS
<1>2. ASSUME NEW k \in Nat, k \in S PROVE k + 1 \in S
  <2> SUFFICES ASSUME k + 1 + 1 \in 1 .. Len(anims) + 1 PROVE k + 1 + 1 \in T
    BY <1>2
  <2>1. k + 1 \in All /\ k + 1 \in 1 .. Len(anims) + 1
    BY DEF All
  <2>2. QED
    BY <1>2, <2>1
<1> HIDE DEF S
<1>3. \A k \in Nat : k \in S
  BY <1>1, <1>2, SetInduction
<1>4. ASSUME NEW a \in 1 .. Len(anims) + 1 PROVE a \in T
  <2>1. a - 1 \in Nat /\ a - 1 + 1 = a
    OBVIOUS
  <2>2. a - 1 \in S
    BY <1>3, <2>1
  <2>3. QED
    BY <2>1, <2>2 DEF S
<1>5. QED
  BY <1>4

-----------------------------------------------------------------------------
(* Lengths of time, and values                                             *)

LEMMA Products ==
  ASSUME NEW m \in Nat, NEW n \in Nat \ {0}
  PROVE  m * n \in Nat /\ (m # 0 => m * n # 0)
OBVIOUS

LEMMA Times ==
  ASSUME anims \in Pictures, NEW a \in All
  PROVE  /\ Begin(a) \in Nat /\ Whole(a) \in Nat \ {0} /\ MaxDuration(a) \in Nat
         /\ MaxDuration(a) = Begin(a) + Whole(a)
         /\ anims[a].end \in {"remove", "freeze", "indefinite"}
         /\ anims[a].values \in Seq(Int) /\ Len(anims[a].values) >= 2
         /\ Frame \in Nat \ {0}
<1> DEFINE b == anims[a].begin.num * Second
           d == anims[a].dur.num * Second
<1>1. /\ anims[a].begin.num \in Nat /\ anims[a].dur.num \in Nat \ {0}
      /\ anims[a].end \in {"remove", "freeze", "indefinite"}
      /\ anims[a].values \in Seq(Int) /\ Len(anims[a].values) >= 2
  BY AnimationAssumption DEF All
<1>2. Frame \in Nat \ {0} /\ Second \in Nat \ {0}
  BY AnimationAssumption
<1>3. b \in Nat /\ d \in Nat /\ d # 0
  BY <1>1, <1>2, Products
<1>4. Begin(a) = b /\ MaxDuration(a) = b + d /\ Whole(a) = (b + d) - b
  BY DEF Begin, MaxDuration, Whole, ToMilliseconds
<1> HIDE DEF b, d
<1>5. (b + d) - b = d /\ b + d \in Nat
  BY <1>3
<1>6. QED
  BY <1>1, <1>2, <1>3, <1>4, <1>5

LEMMA Divides ==
  ASSUME NEW p \in Int, NEW w \in Nat \ {0}
  PROVE  p \div w \in Int /\ (p >= 0 => p \div w \in Nat) /\ p % w \in Nat
OBVIOUS

(* A value, and the part of a length by which it differs.                  *)
LEMMA Quotients ==
  ASSUME NEW x \in Int, NEW y \in Int, NEW c \in Int, NEW w \in Nat \ {0}
  PROVE  x + ((y - x) * c) \div w \in Int
<1> DEFINE q == (y - x) * c
<1>1. q \in Int
  OBVIOUS
<1> HIDE DEF q
<1>2. q \div w \in Int
  BY <1>1, Divides
<1>3. x + q \div w \in Int
  BY <1>2
<1>4. QED
  BY <1>3 DEF q

LEMMA CalcValueIsOne ==
  ASSUME anims \in Pictures, NEW a \in All, NEW time \in Nat, Begin(a) < time
  PROVE  CalcValue(a, time) \in Int \cup {NaN}
<1> DEFINE v == anims[a].values
           c == Covered(a, time)
           w == Whole(a)
<1>1. v \in Seq(Int) /\ Len(v) >= 2 /\ w \in Nat \ {0} /\ Begin(a) \in Nat
  BY Times
<1>2. c \in Nat
  <2> DEFINE b == Begin(a)
  <2>1. b \in Nat /\ b < time /\ c = time - b
    BY <1>1 DEF Covered
  <2> HIDE DEF b, c
  <2>2. QED
    BY <2>1
<1>3. TweenOfTwo(a, time) = v[1] + ((v[2] - v[1]) * c) \div w
  BY Zenon DEF TweenOfTwo
<1> DEFINE p == c * (Len(v) - 1)
           lb == p \div w
           part == p % w
<1>4. TweenOfList(a, time) =
        IF part = 0 \/ lb + 1 > Len(v) - 1 THEN NaN
        ELSE v[lb + 1] + ((v[lb + 2] - v[lb + 1]) * part) \div w
  BY Zenon DEF TweenOfList
<1> HIDE DEF v, c, w
<1>5. Len(v) \in Nat /\ \A i \in 1 .. Len(v) : v[i] \in Int
  BY <1>1
<1>6. TweenOfTwo(a, time) \in Int
  <2>1. v[1] \in Int /\ v[2] \in Int
    BY <1>1, <1>5
  <2>2. QED
    BY <1>1, <1>2, <1>3, <2>1, Quotients
<1>7. p \in Nat
  <2>1. Len(v) - 1 \in Nat \ {0}
    BY <1>1, <1>5
  <2> DEFINE n == Len(v) - 1
  <2> HIDE DEF n
  <2>2. c * n \in Nat
    BY <1>2, <2>1, Products DEF n
  <2>3. QED
    BY <2>2 DEF n
<1> HIDE DEF p
<1>8. lb \in Nat /\ part \in Nat
  <2>1. p \in Int /\ p >= 0
    BY <1>7
  <2>2. QED
    BY <1>1, <2>1, Divides, Zenon
<1> HIDE DEF lb, part
<1>9. ASSUME ~(lb + 1 > Len(v) - 1)
      PROVE  v[lb + 1] + ((v[lb + 2] - v[lb + 1]) * part) \div w \in Int
  <2>1. lb + 1 \in 1 .. Len(v) /\ lb + 2 \in 1 .. Len(v)
    BY <1>5, <1>8, <1>9
  <2>2. v[lb + 1] \in Int /\ v[lb + 2] \in Int
    BY <1>5, <2>1
  <2>3. part \in Int
    BY <1>8
  <2>4. QED
    BY <1>1, <2>2, <2>3, Quotients, Zenon
<1>10. TweenOfList(a, time) \in Int \cup {NaN}
  BY <1>4, <1>9
<1>11. QED
  BY <1>6, <1>10 DEF CalcValue

-----------------------------------------------------------------------------
(* One frame                                                               *)

LEMMA UpdateFacts ==
  ASSUME AnimationInv, NEW a \in All
  PROVE  /\ Duration(a) \in 0 .. MaxDuration(a) + Frame
         /\ \A v \in Int \cup {NaN} : Initial(a, v) \in Int \cup {NaN} /\ Update(a, v) \in Int \cup {NaN}
         /\ removed[a] \/ RemovesNow(a) =>
              Past(a) /\ anims[a].end = "remove" /\ Duration(a) = duration[a] /\ ~Tweens(a)
<1>1. /\ anims \in Pictures /\ duration[a] \in 0 .. MaxDuration(a) + Frame
      /\ initial[a] \in Int \cup {NaN, NotSet}
      /\ removed[a] => Past(a) /\ anims[a].end = "remove"
  BY DEF AnimationInv, AnimTypeOK
<1>2. /\ MaxDuration(a) \in Nat /\ Frame \in Nat \ {0} /\ Begin(a) \in Nat
  BY <1>1, Times
<1>3. Duration(a) \in 0 .. MaxDuration(a) + Frame /\ Duration(a) \in Nat
  BY <1>1, <1>2 DEF Duration, Past
<1>4. ASSUME NEW v \in Int \cup {NaN}
      PROVE  Initial(a, v) \in Int \cup {NaN} /\ Update(a, v) \in Int \cup {NaN}
  <2>1. Initial(a, v) \in Int \cup {NaN}
    BY <1>1 DEF Initial
  <2>2. Tweens(a) => CalcValue(a, Duration(a)) \in Int \cup {NaN}
    BY <1>1, <1>3, CalcValueIsOne DEF Tweens
  <2>3. QED
    BY <2>1, <2>2 DEF Update
<1>5. ASSUME removed[a] \/ RemovesNow(a)
      PROVE  Past(a) /\ anims[a].end = "remove" /\ Duration(a) = duration[a] /\ ~Tweens(a)
  <2>1. Past(a) /\ anims[a].end = "remove"
    BY <1>1, <1>5 DEF RemovesNow
  <2>2. ~Repeats(a)
    BY <2>1 DEF Repeats
  <2>3. QED
    BY <2>1, <2>2 DEF Duration, Tweens
<1>6. QED
  BY <1>3, <1>4, <1>5

LEMMA ValuesTyped ==
  ASSUME AnimationInv
  PROVE  \A a \in 1 .. Len(anims) + 1 : ValueAt[a] \in Int \cup {NaN}
<1> DEFINE T == {a \in 1 .. Len(anims) + 1 : ValueAt[a] \in Int \cup {NaN}}
<1>1. Len(anims) \in Nat /\ value \in Int \cup {NaN}
  BY DEF AnimationInv, AnimTypeOK
<1>2. 1 \in T
  BY <1>1, ValueAtUnfolds
<1>3. ASSUME NEW a \in All, a \in T PROVE a + 1 \in T
  <2>1. a + 1 \in 1 .. Len(anims) + 1
    BY <1>1 DEF All
  <2>2. QED
    BY <1>1, <1>3, <2>1, ValueAtUnfolds, UpdateFacts
<1> HIDE DEF T
<1>4. \A a \in 1 .. Len(anims) + 1 : a \in T
  BY <1>1, <1>2, <1>3, FrameInduction
<1>5. QED
  BY <1>4 DEF T

(* In the first frame nothing before the last animation changes the value, *)
(* if they all begin later.                                                *)
LEMMA FirstFrame ==
  ASSUME AnimationInv, BeforeFirst, LaterOnly
  PROVE  \A a \in All : ValueAt[a] = Base
<1> DEFINE T == {a \in 1 .. Len(anims) + 1 : a \in All => ValueAt[a] = Base}
<1>1. Len(anims) \in Nat /\ value = Base /\ anims \in Pictures
  BY DEF AnimationInv, BeforeFirst
<1>2. 1 \in T
  BY <1>1, ValueAtUnfolds
<1>3. ASSUME NEW a \in All, a \in T PROVE a + 1 \in T
  <2> SUFFICES ASSUME a + 1 \in All PROVE ValueAt[a + 1] = Base
    BY <1>1 DEF All
  <2>1. a < Len(anims) /\ Begin(a) >= Frame /\ duration[a] = 0
    BY <1>1 DEF All, LaterOnly, BeforeFirst
  <2>2. MaxDuration(a) \in Nat /\ Begin(a) \in Nat /\ Frame \in Nat
    BY <1>1, Times
  <2>3. ~Past(a) /\ Duration(a) = Frame
    BY <2>1, <2>2 DEF Past, Duration
  <2>4. ~RemovesNow(a) /\ ~Tweens(a)
    BY <2>1, <2>2, <2>3 DEF RemovesNow, Tweens
  <2>5. Update(a, ValueAt[a]) = ValueAt[a]
    BY <2>4 DEF Update
  <2>6. QED
    BY <1>1, <1>3, <2>5, ValueAtUnfolds
<1> HIDE DEF T
<1>4. \A a \in 1 .. Len(anims) + 1 : a \in T
  BY <1>1, <1>2, <1>3, FrameInduction
<1>5. QED
  BY <1>1, <1>4 DEF T, All

(* When all animations are removed by the end of a frame, the last one to  *)
(* be removed in it has put the first value back.                          *)
LEMMA LastFrame ==
  ASSUME AnimationInv, \A a \in All : removed[a] \/ RemovesNow(a),
         \A a \in All : Initial(a, ValueAt[a]) = Base
  PROVE  \/ ValueAt[Len(anims) + 1] = Base
         \/ ValueAt[Len(anims) + 1] = value /\ \A a \in All : removed[a]
<1> DEFINE P(a) == \/ ValueAt[a] = Base
                   \/ ValueAt[a] = value /\ \A b \in All : b < a => removed[b]
           T == {a \in 1 .. Len(anims) + 1 : P(a)}
<1>1. Len(anims) \in Nat
  BY DEF AnimationInv
<1>2. 1 \in T
  BY <1>1, ValueAtUnfolds DEF All
<1>3. ASSUME NEW a \in All, a \in T PROVE a + 1 \in T
  <2>1. a + 1 \in 1 .. Len(anims) + 1 /\ ValueAt[a + 1] = Update(a, ValueAt[a])
    BY <1>1, ValueAtUnfolds DEF All
  <2>2. CASE RemovesNow(a)
    BY <2>1, <2>2 DEF Update
  <2>3. CASE ~RemovesNow(a)
    <3>1. removed[a] /\ ~Tweens(a)
      BY <2>3, UpdateFacts
    <3>2. ValueAt[a + 1] = ValueAt[a]
      BY <2>1, <2>3, <3>1 DEF Update
    <3>3. \A b \in All : b < a + 1 => b < a \/ b = a
      BY DEF All
    <3>4. P(a + 1)
      BY <1>3, <3>1, <3>2, <3>3
    <3>5. QED
      BY <2>1, <3>4
  <2>4. QED
    BY <2>2, <2>3
<1> HIDE DEF T
<1>4. \A a \in 1 .. Len(anims) + 1 : a \in T
  BY <1>1, <1>2, <1>3, FrameInduction
<1>5. Len(anims) + 1 \in 1 .. Len(anims) + 1 /\ \A b \in All : b < Len(anims) + 1
  BY <1>1 DEF All
<1>6. P(Len(anims) + 1)
  BY <1>4, <1>5 DEF T
<1>7. QED
  BY <1>5, <1>6

LEMMA UnchangedFrame ==
  ASSUME AnimationInv, \A a \in All : ~RemovesNow(a) /\ ~Tweens(a)
  PROVE  ValueAt[Len(anims) + 1] = value
<1> DEFINE T == {a \in 1 .. Len(anims) + 1 : ValueAt[a] = value}
<1>1. Len(anims) \in Nat
  BY DEF AnimationInv
<1>2. 1 \in T
  BY <1>1, ValueAtUnfolds
<1>3. ASSUME NEW a \in All, a \in T PROVE a + 1 \in T
  <2>1. a + 1 \in 1 .. Len(anims) + 1 /\ ValueAt[a + 1] = Update(a, ValueAt[a])
    BY <1>1, ValueAtUnfolds DEF All
  <2>2. QED
    BY <1>3, <2>1 DEF Update
<1> HIDE DEF T
<1>4. \A a \in 1 .. Len(anims) + 1 : a \in T
  BY <1>1, <1>2, <1>3, FrameInduction
<1>5. QED
  BY <1>1, <1>4 DEF T

-----------------------------------------------------------------------------
LEMMA AnimationInitInv == AnimationInit => AnimationInv
<1> SUFFICES ASSUME AnimationInit PROVE AnimationInv
  OBVIOUS
<1>1. anims \in Pictures /\ Len(anims) \in Nat /\ value = Base /\ Base \in Int
  BY AnimationAssumption DEF AnimationInit
<1>2. \A a \in All : duration[a] = 0 /\ initial[a] = NotSet /\ ~removed[a]
  BY DEF AnimationInit
<1>3. AnimTypeOK
  <2>1. value \in Int \cup {NaN} /\ updated \in BOOLEAN
    BY <1>1 DEF AnimationInit
  <2>2. ASSUME NEW a \in All PROVE 0 \in 0 .. MaxDuration(a) + Frame
    <3>1. MaxDuration(a) \in Nat /\ Frame \in Nat
      BY <1>1, Times
    <3>2. QED
      BY <3>1
  <2>3. QED
    BY <1>2, <2>1, <2>2 DEF AnimTypeOK
<1>4. removed = [a \in All |-> removed[a]]
  BY DEF AnimationInit
<1>5. BeforeFirst /\ RemovedRestores
  BY <1>1, <1>2 DEF BeforeFirst, RemovedRestores
<1>6. QED
  BY <1>1, <1>3, <1>4, <1>5 DEF AnimationInv

(* What each animation was, and what it is after the frame.                *)
LEMMA TickInv == AnimationInv /\ Tick => AnimationInv'
<1> SUFFICES ASSUME AnimationInv, Tick PROVE AnimationInv'
  OBVIOUS
<1>1. anims' = anims /\ All' = All /\ Len(anims) \in Nat /\ anims \in Pictures
  BY DEF Tick, All, AnimationInv
<1>2. /\ duration' = [a \in All |-> Duration(a)]
      /\ initial' = [a \in All |-> Initial(a, ValueAt[a])]
      /\ removed' = [a \in All |-> removed[a] \/ RemovesNow(a)]
      /\ value' = ValueAt[Len(anims) + 1] /\ updated' \in BOOLEAN
  BY DEF Tick
<1>3. \A a \in All : Begin(a)' = Begin(a) /\ MaxDuration(a)' = MaxDuration(a)
  BY <1>1 DEF Begin, MaxDuration, ToMilliseconds
<1>4. \A a \in All : a \in 1 .. Len(anims) + 1
  BY <1>1 DEF All
<1>5. \A a \in All : Initial(a, ValueAt[a]) \in Int \cup {NaN}
  BY <1>4, ValuesTyped, UpdateFacts
<1>6. AnimTypeOK'
  <2>1. value' \in Int \cup {NaN}
    <3>1. Len(anims) + 1 \in 1 .. Len(anims) + 1
      BY <1>1
    <3>2. QED
      BY <1>2, <3>1, ValuesTyped
  <2>2. ASSUME NEW a \in All
        PROVE  /\ duration'[a] \in 0 .. MaxDuration(a) + Frame
               /\ initial'[a] \in Int \cup {NaN, NotSet}
               /\ removed'[a] => duration'[a] > MaxDuration(a) /\ anims[a].end = "remove"
    <3>1. duration'[a] = Duration(a)
      BY <1>2
    <3>2. duration'[a] \in 0 .. MaxDuration(a) + Frame
      BY <3>1, UpdateFacts
    <3>3. initial'[a] \in Int \cup {NaN, NotSet}
      BY <1>2, <1>5
    <3>4. removed'[a] => duration'[a] > MaxDuration(a) /\ anims[a].end = "remove"
      BY <1>2, <3>1, UpdateFacts DEF Past
    <3>5. QED
      BY <3>2, <3>3, <3>4
  <2>3. QED
    BY <1>1, <1>2, <1>3, <2>1, <2>2 DEF AnimTypeOK, Past
<1>7. removed' = [a \in All' |-> removed'[a]]
  BY <1>1, <1>2
<1>8. LaterOnly' <=> LaterOnly
  BY <1>1, <1>3 DEF LaterOnly
<1>9. ASSUME LaterOnly PROVE \A a \in All : Initial(a, ValueAt[a]) = Base
  <2>1. CASE BeforeFirst
    BY <1>9, <2>1, FirstFrame DEF Initial, BeforeFirst
  <2>2. CASE AfterFirst
    <3>1. \A a \in All : initial[a] = Base /\ initial[a] # NotSet
      BY <1>9, <2>2, AnimationAssumption DEF AfterFirst
    <3>2. QED
      BY <3>1 DEF Initial
  <2>3. QED
    BY <2>1, <2>2 DEF AnimationInv
<1>10. AfterFirst'
  <2>1. \A a \in All : initial'[a] \in Int \cup {NaN}
    BY <1>2, <1>5
  <2>2. LaterOnly => \A a \in All : initial'[a] = Base
    BY <1>2, <1>9
  <2>3. QED
    BY <1>1, <1>8, <2>1, <2>2 DEF AfterFirst
<1>11. RemovedRestores'
  <2> SUFFICES ASSUME LaterOnly, \A a \in All : removed[a] \/ RemovesNow(a)
               PROVE  value' = Base
    BY <1>1, <1>2, <1>8 DEF RemovedRestores
  <2>1. \/ value' = Base
        \/ value' = value /\ \A a \in All : removed[a]
    BY <1>2, <1>9, LastFrame
  <2>2. QED
    BY <2>1 DEF AnimationInv, RemovedRestores
<1>12. QED
  BY <1>1, <1>6, <1>7, <1>10, <1>11 DEF AnimationInv

LEMMA AnimationStutters == AnimationInv /\ UNCHANGED animationVars => AnimationInv'
BY DEF AnimationInv, animationVars, AnimTypeOK, BeforeFirst, AfterFirst, RemovedRestores, LaterOnly,
       Past, MaxDuration, Begin, ToMilliseconds, All

LEMMA AnimationStep == AnimationInv /\ [Tick]_animationVars => AnimationInv'
BY TickInv, AnimationStutters

(* For any list of animations of one attribute that start after the first  *)
(* frame, when all have removed themselves the attribute is what the       *)
(* document gave it.                                                       *)
THEOREM AnimationsEndAsTheyBegan == AnimationSpec => []EndsAsItBegan
<1>1. AnimationInv => EndsAsItBegan
  BY DEF AnimationInv, EndsAsItBegan
<1>2. QED
  BY AnimationInitInv, AnimationStep, <1>1, PTL DEF AnimationSpec

(* No frame changes the attribute without asking for a drawing.            *)
THEOREM FramesThatChangeAreDrawn == AnimationSpec => ChangesAreDrawn
<1>1. AnimationInv /\ [Tick]_animationVars => [value' # value => updated']_animationVars
  <2> SUFFICES ASSUME AnimationInv, Tick, ~updated' PROVE value' = value
    OBVIOUS
  <2>1. \A a \in All : ~RemovesNow(a) /\ ~Tweens(a)
    BY DEF Tick
  <2>2. QED
    BY <2>1, UnchangedFrame DEF Tick
<1>2. QED
  BY AnimationInitInv, AnimationStep, <1>1, PTL DEF AnimationSpec, ChangesAreDrawn

-----------------------------------------------------------------------------
(* The way of an animation from its first value to its second              *)

LEMMA DivGrows ==
  ASSUME NEW p \in Int, NEW q \in Int, NEW w \in Nat \ {0}, p <= q
  PROVE  p \div w <= q \div w
OBVIOUS

LEMMA ProductsGrow ==
  ASSUME NEW d \in Int, NEW b \in Nat, NEW c \in Nat, b <= c
  PROVE  /\ d * b \in Int /\ d * c \in Int
         /\ d >= 0 => d * b <= d * c
         /\ d <= 0 => d * c <= d * b
OBVIOUS

LEMMA QuotientsGrow ==
  ASSUME NEW x \in Int, NEW y \in Int, NEW b \in Nat, NEW c \in Nat, b <= c,
         NEW w \in Nat \ {0}
  PROVE  IF x < y THEN x + ((y - x) * c) \div w >= x + ((y - x) * b) \div w
         ELSE x + ((y - x) * c) \div w <= x + ((y - x) * b) \div w
<1> DEFINE d == y - x
           p == d * b
           q == d * c
<1>1. d \in Int /\ (x < y => d >= 0) /\ (~(x < y) => d <= 0)
  OBVIOUS
<1> HIDE DEF d
<1>2. p \in Int /\ q \in Int /\ (d >= 0 => p <= q) /\ (d <= 0 => q <= p)
  BY <1>1, ProductsGrow
<1> HIDE DEF p, q
<1>3. /\ p \div w \in Int /\ q \div w \in Int
      /\ p <= q => p \div w <= q \div w
      /\ q <= p => q \div w <= p \div w
  BY <1>2, DivGrows, Divides, Zenon
<1>4. IF x < y THEN x + q \div w >= x + p \div w ELSE x + q \div w <= x + p \div w
  BY <1>1, <1>2, <1>3
<1>5. QED
  BY <1>4 DEF p, q, d

(* Where an animation that has begun, and is the only one, has brought the *)
(* value; the duration is 0 or at least that of a frame.                   *)
OnTheWay ==
  /\ \A a \in All : duration[a] = 0 \/ duration[a] >= Frame
  /\ Len(anims) = 1 /\ ~anims[1].list /\ Begin(1) < duration[1] /\ ~removed[1] =>
       value = TweenOfTwo(1, duration[1])

LEMMA OnTheWayInit == AnimationInit => OnTheWay
<1> SUFFICES ASSUME AnimationInit PROVE OnTheWay
  OBVIOUS
<1>1. \A a \in All : duration[a] = 0
  BY DEF AnimationInit
<1>2. ASSUME Len(anims) = 1 PROVE ~(Begin(1) < duration[1])
  <2>1. 1 \in All
    BY <1>2 DEF All
  <2>2. Begin(1) \in Nat
    BY <2>1, Times DEF AnimationInit
  <2>3. QED
    BY <1>1, <2>1, <2>2
<1>3. QED
  BY <1>1, <1>2 DEF OnTheWay

(* The frame of an attribute's only animation.                             *)
LEMMA OnlyFrame ==
  ASSUME AnimationInv, Tick, Len(anims) = 1
  PROVE  /\ 1 \in All /\ anims' = anims
         /\ duration'[1] = Duration(1) /\ value' = Update(1, value)
         /\ removed'[1] = (removed[1] \/ RemovesNow(1))
<1>1. 1 \in All /\ Len(anims) \in Nat /\ Len(anims) + 1 = 1 + 1
  BY DEF AnimationInv, All
<1>2. ValueAt[1] = value /\ ValueAt[1 + 1] = Update(1, ValueAt[1])
  BY <1>1, ValueAtUnfolds
<1>3. value' = ValueAt[1 + 1]
  BY <1>1 DEF Tick
<1>4. QED
  BY <1>1, <1>2, <1>3 DEF Tick

LEMMA OnTheWayTick == AnimationInv /\ OnTheWay /\ Tick => OnTheWay'
<1> SUFFICES ASSUME AnimationInv, OnTheWay, Tick PROVE OnTheWay'
  OBVIOUS
<1>1. anims' = anims /\ All' = All /\ anims \in Pictures
  BY DEF Tick, All, AnimationInv
<1>2. ASSUME NEW a \in All PROVE duration'[a] = 0 \/ duration'[a] >= Frame
  <2>1. duration'[a] = Duration(a)
    BY DEF Tick
  <2>2. duration[a] \in Nat /\ Frame \in Nat
    <3>1. duration[a] \in 0 .. MaxDuration(a) + Frame /\ MaxDuration(a) \in Nat /\ Frame \in Nat
      BY <1>1, Times DEF AnimationInv, AnimTypeOK
    <3>2. QED
      BY <3>1
  <2>3. QED
    BY <2>1, <2>2 DEF OnTheWay, Duration
<1>3. ASSUME Len(anims) = 1, ~anims[1].list, Begin(1) < duration'[1], ~removed'[1]
      PROVE  value' = TweenOfTwo(1, duration'[1])
  <2>1. /\ 1 \in All /\ duration'[1] = Duration(1) /\ value' = Update(1, value)
        /\ ~removed[1] /\ ~RemovesNow(1)
    BY <1>3, OnlyFrame
  <2>2. CASE Tweens(1)
    BY <1>3, <2>1, <2>2 DEF Update, CalcValue
  <2>3. CASE ~Tweens(1)
    <3>1. Past(1) /\ ~Repeats(1)
      BY <1>3, <2>1, <2>3 DEF Tweens
    <3>2. duration'[1] = duration[1] /\ value' = value
      BY <2>1, <2>3, <3>1 DEF Duration, Update
    <3>3. QED
      BY <1>3, <2>1, <3>2 DEF OnTheWay
  <2>4. QED
    BY <2>2, <2>3
<1>4. Begin(1)' = Begin(1) /\ TweenOfTwo(1, duration[1])' = TweenOfTwo(1, duration'[1])
  BY <1>1 DEF Begin, ToMilliseconds, TweenOfTwo, Covered, Whole, MaxDuration
<1>5. QED
  BY <1>1, <1>2, <1>3, <1>4 DEF OnTheWay

LEMMA OnTheWayStutters == OnTheWay /\ UNCHANGED animationVars => OnTheWay'
BY DEF OnTheWay, animationVars, All, Begin, ToMilliseconds, TweenOfTwo, Covered, Whole, MaxDuration

LEMMA ForwardFrame == AnimationInv /\ OnTheWay /\ Tick => GoesForward
<1> DEFINE v == anims[1].values
<1> SUFFICES ASSUME AnimationInv, OnTheWay, Tick,
                    Len(anims) = 1, ~anims[1].list,
                    duration'[1] > duration[1], Begin(1) < duration[1]
             PROVE  IF v[1] < v[2] THEN value' >= value ELSE value' <= value
  BY DEF GoesForward
<1>1. 1 \in All /\ anims \in Pictures /\ duration'[1] = Duration(1) /\ value' = Update(1, value)
  BY OnlyFrame DEF AnimationInv
<1>2. /\ duration[1] \in Nat /\ Begin(1) \in Nat /\ Whole(1) \in Nat \ {0} /\ Frame \in Nat \ {0}
      /\ v[1] \in Int /\ v[2] \in Int
  <2>1. duration[1] \in 0 .. MaxDuration(1) + Frame
    BY <1>1 DEF AnimationInv, AnimTypeOK
  <2>2. /\ MaxDuration(1) \in Nat /\ Begin(1) \in Nat /\ Whole(1) \in Nat \ {0} /\ Frame \in Nat \ {0}
        /\ v \in Seq(Int) /\ Len(v) >= 2
    BY <1>1, Times
  <2> HIDE DEF v
  <2>3. v[1] \in Int /\ v[2] \in Int
    BY <2>2
  <2>4. QED
    BY <2>1, <2>2, <2>3
<1>3. duration[1] >= Frame
  BY <1>1, <1>2 DEF OnTheWay
<1>4. ~Past(1)
  BY <1>1, <1>2, <1>3 DEF Duration
<1>5. duration'[1] = duration[1] + Frame /\ ~RemovesNow(1) /\ Tweens(1) /\ ~removed[1]
  <2>1. Duration(1) = duration[1] + Frame
    BY <1>4 DEF Duration
  <2>2. ~removed[1]
    BY <1>1, <1>4 DEF AnimationInv, AnimTypeOK
  <2>3. QED
    BY <1>1, <1>2, <1>4, <2>1, <2>2 DEF RemovesNow, Tweens
<1>6. value = TweenOfTwo(1, duration[1]) /\ value' = TweenOfTwo(1, duration'[1])
  BY <1>1, <1>5 DEF OnTheWay, Update, CalcValue
<1> DEFINE b == duration[1] - Begin(1)
           c == duration'[1] - Begin(1)
<1>7. /\ value = v[1] + ((v[2] - v[1]) * b) \div Whole(1)
      /\ value' = v[1] + ((v[2] - v[1]) * c) \div Whole(1)
  BY <1>6, Zenon DEF TweenOfTwo, Covered
<1>8. b \in Nat /\ c \in Nat /\ b <= c
  <2> DEFINE e == Begin(1)
  <2>1. e \in Nat /\ e < duration[1] /\ b = duration[1] - e /\ c = duration[1] + Frame - e
    BY <1>2, <1>5
  <2> HIDE DEF b, c, e
  <2>2. QED
    BY <1>2, <2>1
<1> HIDE DEF v, b, c
<1>9. QED
  BY <1>2, <1>7, <1>8, QuotientsGrow

(* The only animation of an attribute never moves it back before it starts *)
(* over, whatever its duration, its values and the rounding of its         *)
(* fraction.                                                               *)
THEOREM AnimationsNeverGoBack == AnimationSpec => NeverBack
<1> DEFINE Inv == AnimationInv /\ OnTheWay
<1>1. AnimationInit => Inv
  BY AnimationInitInv, OnTheWayInit
<1>2. Inv /\ [Tick]_animationVars => Inv'
  BY AnimationStep, OnTheWayTick, OnTheWayStutters
<1>3. Inv /\ [Tick]_animationVars => [GoesForward]_animationVars
  BY ForwardFrame
<1>4. QED
  BY <1>1, <1>2, <1>3, PTL DEF AnimationSpec, NeverBack
=============================================================================
