------------------------------- MODULE PdfProofs -----------------------------
(***************************************************************************)
(* Proofs about jsPDF, for any fonts, formats, colours, pages, images and  *)
(* numbers of calls: an element looks as the program asked while it drew   *)
(* it, and a document that output returns can be read and holds what was   *)
(* drawn.                                                                  *)
(***************************************************************************)
EXTENDS PdfPages, PdfFile, InductionLemmas, FiniteSetTheorems, SequenceTheorems, TLAPS

-----------------------------------------------------------------------------
(* A viewer of a page                                                      *)

Written == Setting \cup Element
IsPage(page) == page \in Seq(Written)

LEMMA FirstLookOK == FirstLook \in Look
<1>1. 1 \in FontKeys /\ Sixteen \in Sizes /\ Black \in Colors /\ Thin \in Widths /\ 0 \in Styles
  BY PagesAssumption DEF FontKeys
<1>2. QED
  BY <1>1 DEF FirstLook, Look

(* What each operator does to the graphics state.                          *)
LEMMA ApplyFacts ==
  ASSUME NEW look \in Look, NEW op \in Written
  PROVE  /\ Apply(look, op) \in Look
         /\ op.op = "text" =>
              /\ op.font \in FontKeys /\ op.size \in Sizes /\ op.value \in Colors
              /\ Apply(look, op) = [look EXCEPT !.fill = op.value, !.text = op.value,
                                                !.font = op.font, !.size = op.size]
         /\ op.op = "path" => Apply(look, op) = look
<1>1. CASE op \in Setting
  BY <1>1 DEF Setting, Look, Apply
<1>2. CASE op \in Element
  BY <1>2 DEF Element, Look, Apply
<1>3. QED
  BY <1>1, <1>2 DEF Written

LEMMA ViewedFacts ==
  ASSUME NEW page, IsPage(page)
  PROVE  /\ Viewed(page) \in [0 .. Len(page) -> Look]
         /\ Viewed(page)[0] = FirstLook
         /\ \A k \in 1 .. Len(page) : Viewed(page)[k] = Apply(Viewed(page)[k - 1], page[k])
<1> DEFINE l == Len(page)
           g == [x \in Look \X (1 .. l) |-> Apply(x[1], page[x[2]])]
           look[k \in 0 .. l] == IF k = 0 THEN FirstLook ELSE Apply(look[k - 1], page[k])
<1>1. Viewed(page) = look
  BY Zenon DEF Viewed
<1>2. l \in Nat /\ \A k \in 1 .. l : page[k] \in Written
  BY DEF IsPage
<1> HIDE DEF l
<1>3. g \in [Look \X (1 .. l) -> Look]
  BY <1>2, ApplyFacts
<1>4. \A x \in Look, k \in 1 .. l : g[<<x, k>>] = Apply(x, page[k])
  OBVIOUS
<1> HIDE DEF g
<1>5. PICK h : IsLoop(h, Look, FirstLook, l, g)
  BY <1>2, <1>3, FirstLookOK, LoopExists
<1>6. h = [k \in 0 .. l |-> IF k = 0 THEN FirstLook ELSE Apply(h[k - 1], page[k])]
  <2>1. ASSUME NEW k \in 0 .. l, k # 0 PROVE g[<<h[k - 1], k>>] = Apply(h[k - 1], page[k])
    <3>1. k \in 1 .. l /\ k - 1 \in 0 .. l
      BY <1>2, <2>1
    <3>2. QED
      BY <1>4, <1>5, <3>1 DEF IsLoop
  <2>2. QED
    BY <1>5, <2>1 DEF IsLoop
<1>7. look = [k \in 0 .. l |-> IF k = 0 THEN FirstLook ELSE Apply(look[k - 1], page[k])]
  BY <1>6, Zenon
<1> HIDE DEF look
<1> DEFINE T == {k \in 0 .. l : look[k] \in Look}
<1>8. 0 \in T
  BY <1>2, <1>7, FirstLookOK
<1>9. ASSUME NEW k \in 1 .. l, k - 1 \in T PROVE k \in T
  <2>1. k \in 0 .. l /\ k - 1 \in 0 .. l /\ k # 0 /\ page[k] \in Written
    BY <1>2
  <2>2. look[k] = Apply(look[k - 1], page[k])
    BY <1>7, <2>1
  <2>3. look[k - 1] \in Look
    BY <1>9
  <2>4. QED
    BY <2>1, <2>2, <2>3, ApplyFacts
<1>10. ASSUME NEW k \in 0 .. l PROVE look[k] \in Look
  <2> DEFINE U == {i \in 0 .. k : i \in T}
  <2>1. k \in Nat /\ 0 \in U
    BY <1>2, <1>8
  <2>2. ASSUME NEW i \in 1 .. k, i - 1 \in U PROVE i \in U
    <3>1. i \in 1 .. l /\ i - 1 \in T
      BY <1>2, <2>2
    <3> HIDE DEF T
    <3>2. QED
      BY <1>9, <3>1
  <2> HIDE DEF U
  <2>3. k \in U
    BY <2>1, <2>2, LoopInduction
  <2>4. QED
    BY <2>3 DEF U
<1>11. look \in [0 .. l -> Look]
  <2>1. look = [k \in 0 .. l |-> look[k]]
    BY <1>7, Zenon
  <2>2. QED
    BY <1>10, <2>1
<1>12. look[0] = FirstLook
  BY <1>2, <1>7
<1>13. ASSUME NEW k \in 1 .. l PROVE look[k] = Apply(look[k - 1], page[k])
  <2>1. k \in 0 .. l /\ k # 0
    BY <1>2
  <2>2. QED
    BY <1>7, <2>1
<1>14. QED
  BY <1>1, <1>11, <1>12, <1>13 DEF l

(* A page goes on: what came before is seen as it was.                     *)
LEMMA ViewedAppend ==
  ASSUME NEW page, IsPage(page), NEW op \in Written
  PROVE  /\ IsPage(Append(page, op))
         /\ Len(Append(page, op)) = Len(page) + 1
         /\ \A k \in 1 .. Len(page) : Append(page, op)[k] = page[k]
         /\ \A k \in 0 .. Len(page) : Viewed(Append(page, op))[k] = Viewed(page)[k]
         /\ Viewed(Append(page, op))[Len(page) + 1] = Apply(Viewed(page)[Len(page)], op)
<1> DEFINE l == Len(page)
           on == Append(page, op)
<1>1. IsPage(on) /\ Len(on) = l + 1 /\ l \in Nat
      /\ (\A k \in 1 .. l : on[k] = page[k]) /\ on[l + 1] = op
  BY AppendFacts DEF IsPage
<1> HIDE DEF on
<1>2. /\ Viewed(on)[0] = FirstLook
      /\ \A k \in 1 .. l + 1 : Viewed(on)[k] = Apply(Viewed(on)[k - 1], on[k])
  BY <1>1, ViewedFacts
<1>3. /\ Viewed(page)[0] = FirstLook
      /\ \A k \in 1 .. l : Viewed(page)[k] = Apply(Viewed(page)[k - 1], page[k])
  BY ViewedFacts
<1> HIDE DEF l
<1>4. ASSUME NEW k \in 0 .. l PROVE Viewed(on)[k] = Viewed(page)[k]
  <2> DEFINE U == {i \in 0 .. k : Viewed(on)[i] = Viewed(page)[i]}
  <2>1. k \in Nat /\ 0 \in U
    BY <1>1, <1>2, <1>3
  <2>2. ASSUME NEW i \in 1 .. k, i - 1 \in U PROVE i \in U
    <3>1. i \in 1 .. l /\ i \in 1 .. l + 1 /\ i \in 0 .. k
      BY <1>1
    <3>2. Viewed(on)[i - 1] = Viewed(page)[i - 1] /\ on[i] = page[i]
      BY <1>1, <2>2, <3>1
    <3>3. Viewed(on)[i] = Viewed(page)[i]
      BY <1>2, <1>3, <3>1, <3>2, Zenon
    <3>4. QED
      BY <3>1, <3>3
  <2> HIDE DEF U
  <2>3. k \in U
    BY <2>1, <2>2, LoopInduction
  <2>4. QED
    BY <2>3 DEF U
<1>5. Viewed(on)[l + 1] = Apply(Viewed(page)[l], op)
  <2>1. l + 1 \in 1 .. l + 1 /\ l + 1 - 1 = l /\ l \in 0 .. l
    BY <1>1
  <2>2. QED
    BY <1>1, <1>2, <1>4, <2>1
<1>6. QED
  BY <1>1, <1>4, <1>5 DEF l, on

(* The graphics state at the end of a page.                                *)
Now(page) == Viewed(page)[Len(page)]

LEMMA NowFacts ==
  ASSUME NEW page, IsPage(page), NEW op \in Written
  PROVE  /\ Now(page) \in Look
         /\ IsPage(Append(page, op))
         /\ Now(Append(page, op)) = Apply(Now(page), op)
<1>1. Len(page) \in 0 .. Len(page)
  BY DEF IsPage
<1>2. QED
  BY <1>1, ViewedFacts, ViewedAppend DEF Now

(* What a page begins with leaves the caps and joins the document has, and *)
(* the first paint.                                                        *)
LEMMA StartFacts ==
  ASSUME lineCapID \in Styles, lineJoinID \in Styles
  PROVE  /\ IsPage(PageStart)
         /\ Now(PageStart) = [FirstLook EXCEPT !.cap = lineCapID, !.join = lineJoinID]
<1> DEFINE w == [op |-> "w", value |-> Thin]
           G == [op |-> "G", value |-> Black]
           J == [op |-> "J", value |-> lineCapID]
           j == [op |-> "j", value |-> lineJoinID]
           two == <<w, G>>
           three == IF lineCapID # 0 THEN Append(two, J) ELSE two
           four == IF lineJoinID # 0 THEN Append(three, j) ELSE three
<1>1. w \in Setting /\ G \in Setting /\ J \in Setting /\ j \in Setting
  BY PagesAssumption DEF Setting
<1>2. w \in Written /\ G \in Written /\ J \in Written /\ j \in Written
  BY <1>1 DEF Written
<1>3. PageStart = four
  <2>1. PageStart = (two \o (IF lineCapID # 0 THEN <<J>> ELSE <<>>))
                    \o (IF lineJoinID # 0 THEN <<j>> ELSE <<>>)
    BY Zenon DEF PageStart
  <2> HIDE DEF w, G, J, j
  <2>2. two \in Seq(Written) /\ <<J>> \in Seq(Written) /\ <<j>> \in Seq(Written)
    BY <1>2
  <2>3. two \o <<>> = two /\ Append(two, J) = two \o <<J>>
    BY <2>2
  <2> HIDE DEF two
  <2>4. three \in Seq(Written) /\ three = two \o (IF lineCapID # 0 THEN <<J>> ELSE <<>>)
    BY <1>2, <2>2, <2>3
  <2> HIDE DEF three
  <2>5. three \o <<>> = three /\ Append(three, j) = three \o <<j>>
    BY <2>4, <1>2
  <2>6. QED
    BY <2>1, <2>4, <2>5
<1>4. two = Append(Append(<<>>, w), G)
  OBVIOUS
<1>5. IsPage(<<>>) /\ Now(<<>>) = FirstLook
  <2>1. IsPage(<<>>) /\ Len(<<>>) = 0
    BY DEF IsPage
  <2>2. QED
    BY <2>1, ViewedFacts DEF Now
<1>6. /\ \A look \in Look : Apply(look, w) = [look EXCEPT !.width = Thin]
      /\ \A look \in Look : Apply(look, G) = [look EXCEPT !.stroke = Black]
      /\ \A look \in Look : Apply(look, J) = [look EXCEPT !.cap = lineCapID]
      /\ \A look \in Look : Apply(look, j) = [look EXCEPT !.join = lineJoinID]
  BY DEF Apply
<1>10. ASSUME NEW page, IsPage(page), NEW look, Now(page) = look
       PROVE  /\ IsPage(Append(page, w)) /\ Now(Append(page, w)) = [look EXCEPT !.width = Thin]
              /\ IsPage(Append(page, G)) /\ Now(Append(page, G)) = [look EXCEPT !.stroke = Black]
              /\ IsPage(Append(page, J)) /\ Now(Append(page, J)) = [look EXCEPT !.cap = lineCapID]
              /\ IsPage(Append(page, j)) /\ Now(Append(page, j)) = [look EXCEPT !.join = lineJoinID]
  <2> HIDE DEF w, G, J, j
  <2>1. look \in Look
    BY <1>2, <1>10, NowFacts
  <2>2. /\ IsPage(Append(page, w)) /\ Now(Append(page, w)) = Apply(look, w)
        /\ IsPage(Append(page, G)) /\ Now(Append(page, G)) = Apply(look, G)
        /\ IsPage(Append(page, J)) /\ Now(Append(page, J)) = Apply(look, J)
        /\ IsPage(Append(page, j)) /\ Now(Append(page, j)) = Apply(look, j)
    BY <1>2, <1>10, NowFacts
  <2>3. QED
    BY <1>6, <2>1, <2>2, Zenon
<1> HIDE DEF w, G, J, j
<1>7. IsPage(two) /\ Now(two) = FirstLook
  <2>1. IsPage(Append(<<>>, w)) /\ Now(Append(<<>>, w)) = [FirstLook EXCEPT !.width = Thin]
    BY <1>5, <1>10, Zenon
  <2>2. [FirstLook EXCEPT !.width = Thin] = FirstLook
    BY DEF FirstLook
  <2>3. IsPage(two) /\ Now(two) = [FirstLook EXCEPT !.stroke = Black]
    <3> HIDE DEF two
    <3>1. IsPage(Append(<<>>, w)) /\ Now(Append(<<>>, w)) = FirstLook
      BY <2>1, <2>2
    <3>2. IsPage(Append(Append(<<>>, w), G))
          /\ Now(Append(Append(<<>>, w), G)) = [FirstLook EXCEPT !.stroke = Black]
      BY <1>10, <3>1, Zenon
    <3>3. QED
      BY <1>4, <3>2
  <2>4. [FirstLook EXCEPT !.stroke = Black] = FirstLook
    BY DEF FirstLook
  <2>5. QED
    BY <2>3, <2>4
<1> HIDE DEF two
<1>8. IsPage(three) /\ Now(three) = [FirstLook EXCEPT !.cap = lineCapID]
  <2>1. CASE lineCapID # 0
    <3>1. three = Append(two, J)
      BY <2>1, Zenon DEF three
    <3>2. QED
      BY <1>7, <1>10, <3>1, Zenon
  <2>2. CASE lineCapID = 0
    <3>1. [FirstLook EXCEPT !.cap = 0] = FirstLook
      BY DEF FirstLook
    <3>2. QED
      BY <1>7, <2>2, <3>1
  <2>3. QED
    BY <2>1, <2>2
<1> HIDE DEF three
<1>9. IsPage(four)
      /\ Now(four) = [[FirstLook EXCEPT !.cap = lineCapID] EXCEPT !.join = lineJoinID]
  <2> DEFINE capped == [FirstLook EXCEPT !.cap = lineCapID]
  <2>2. CASE lineJoinID # 0
    <3>1. four = Append(three, j)
      BY <2>2
    <3>2. QED
      <4> HIDE DEF capped
      <4>1. IsPage(Append(three, j))
            /\ Now(Append(three, j)) = [capped EXCEPT !.join = lineJoinID]
        BY <1>8, <1>10, Zenon DEF capped
      <4>2. QED
        BY <3>1, <4>1 DEF capped
  <2>3. CASE lineJoinID = 0
    <3>1. [capped EXCEPT !.join = 0] = capped
      <4>1. capped \in Look /\ capped.join = 0
        BY FirstLookOK DEF FirstLook, Look
      <4> HIDE DEF capped
      <4>2. QED
        BY <4>1 DEF Look
    <3>2. four = three /\ Now(three) = capped
      BY <1>8, <2>3
    <3>3. QED
      BY <1>8, <2>3, <3>1, <3>2
  <2>4. QED
    BY <2>2, <2>3
<1>11. QED
  BY <1>3, <1>9

-----------------------------------------------------------------------------
(* The pages of a document                                                 *)

(* An element on a page is seen as it was wanted.                          *)
ElementOK(page, want) ==
  /\ want \in [at : Nat, asked : Look, onPage : Look]
  /\ want.at \in DOMAIN page /\ page[want.at] \in Element
  /\ LET seen == Viewed(page)[want.at]
     IN  IF page[want.at].op = "text"
         THEN /\ seen.font = want.asked.font /\ seen.size = want.asked.size
              /\ seen.text = want.asked.text
         ELSE /\ seen.cap = want.asked.cap /\ seen.join = want.asked.join
              /\ seen.stroke = want.onPage.stroke /\ seen.fill = want.onPage.fill
              /\ seen.width = want.onPage.width

PageOK(page, noted) ==
  /\ IsPage(page) /\ noted \in Seq([at : Nat, asked : Look, onPage : Look])
  /\ \A e \in 1 .. Len(noted) : ElementOK(page, noted[e])

LEMMA ElementStays ==
  ASSUME NEW page, NEW noted, PageOK(page, noted), NEW op \in Written
  PROVE  PageOK(Append(page, op), noted)
<1>1. /\ IsPage(page) /\ IsPage(Append(page, op)) /\ Len(page) \in Nat
      /\ Len(Append(page, op)) = Len(page) + 1
      /\ \A k \in 1 .. Len(page) : Append(page, op)[k] = page[k]
      /\ \A k \in 0 .. Len(page) : Viewed(Append(page, op))[k] = Viewed(page)[k]
  BY ViewedAppend DEF PageOK, IsPage
<1>2. ASSUME NEW want, ElementOK(page, want) PROVE ElementOK(Append(page, op), want)
  <2>1. want.at \in 1 .. Len(page)
    BY <1>1, <1>2 DEF ElementOK, IsPage
  <2>2. want.at \in 0 .. Len(page) /\ want.at \in DOMAIN Append(page, op)
    BY <1>1, <2>1 DEF IsPage
  <2>3. Append(page, op)[want.at] = page[want.at]
        /\ Viewed(Append(page, op))[want.at] = Viewed(page)[want.at]
    BY <1>1, <2>1, <2>2
  <2>4. QED
    BY <1>2, <2>2, <2>3, Zenon DEF ElementOK
<1>3. QED
  BY <1>1, <1>2, Zenon DEF PageOK

(* The settings the document keeps are those asked for, and those a viewer *)
(* has at the end of the page are those asked for since it began.          *)
Kept ==
  /\ asked.font = activeFontKey /\ asked.size = activeFontSize /\ asked.text = textColor
  /\ asked.cap = lineCapID /\ asked.join = lineJoinID

Following(now, wants, here) ==
  /\ now.cap = wants.cap /\ now.join = wants.join
  /\ now.stroke = here.stroke /\ now.fill = here.fill /\ now.width = here.width

PagesInv ==
  /\ PagesTypeOK /\ PageIsOriented
  /\ Kept
  /\ \A p \in 1 .. Len(pages) : PageOK(pages[p], wanted[p])
  /\ Following(Now(pages[Len(pages)]), asked, onPage)

LEMMA PageIsOrientedAtFirst == PagesInit => PageIsOriented
<1> SUFFICES ASSUME NEW o \in {"p", "l"}, NEW f \in DOMAIN Formats \cup OtherFormats,
                    media = [orientation |-> o, size |-> PageSize(o, f)]
             PROVE  PageIsOriented
  BY Zenon DEF PagesInit
<1>1. CASE f \in DOMAIN Formats
  <2>1. Formats[f] \in Nat \X Nat /\ NoSize \notin Nat
    BY <1>1, PagesAssumption
  <2>2. PICK a \in Nat, b \in Nat : Formats[f] = <<a, b>>
    BY <2>1
  <2>3. a # NoSize
    BY <2>1
  <2>4. PageSize(o, f) = IF o = "p" THEN IF a > b THEN <<b, a>> ELSE <<a, b>>
                         ELSE IF a > b THEN <<a, b>> ELSE <<b, a>>
    BY <1>1, <2>2, <2>3 DEF PageSize
  <2>5. QED
    BY <2>4 DEF PageIsOriented
<1>2. CASE f \notin DOMAIN Formats
  <2>1. PageSize(o, f) = <<NoSize, NoSize>>
    BY <1>2 DEF PageSize
  <2>2. QED
    BY <2>1 DEF PageIsOriented
<1>3. QED
  BY <1>1, <1>2

LEMMA PagesInitInv == PagesInit => PagesInv
<1> SUFFICES ASSUME PagesInit PROVE PagesInv
  OBVIOUS
<1>1. /\ activeFontKey = 1 /\ activeFontSize = Sixteen /\ textColor = Black
      /\ lineCapID = 0 /\ lineJoinID = 0 /\ pages = <<PageStart>> /\ wanted = << <<>> >>
      /\ asked = FirstLook /\ onPage = FirstLook /\ calls = 0
  BY Zenon DEF PagesInit
<1>2. IsPage(PageStart)
      /\ Now(PageStart) = [FirstLook EXCEPT !.cap = 0, !.join = 0]
  BY <1>1, StartFacts, PagesAssumption
<1>3. PagesTypeOK
  BY <1>1, <1>2, FirstLookOK, PagesAssumption DEF PagesTypeOK, FontKeys, IsPage, Written
<1>4. Kept
  BY <1>1 DEF Kept, FirstLook
<1>5. Following(Now(PageStart), asked, onPage)
  BY <1>1, <1>2 DEF Following, FirstLook
<1>6. PageOK(PageStart, <<>>)
  BY <1>2 DEF PageOK
<1>7. Len(pages) = 1 /\ pages[1] = PageStart /\ wanted[1] = <<>>
  BY <1>1
<1>8. QED
  BY <1>3, <1>4, <1>5, <1>6, <1>7, PageIsOrientedAtFirst DEF PagesInv

Notes == Seq([at : Nat, asked : Look, onPage : Look])

LEMMA PagesFacts ==
  ASSUME PagesInv
  PROVE  /\ pages \in Seq(Seq(Written)) /\ Len(pages) \in Nat \ {0} /\ wanted \in Seq(Notes)
         /\ Len(wanted) = Len(pages)
         /\ activeFontKey \in FontKeys /\ activeFontSize \in Sizes /\ textColor \in Colors
         /\ lineCapID \in Styles /\ lineJoinID \in Styles
         /\ asked \in Look /\ onPage \in Look /\ calls \in 0 .. MaxCalls
         /\ \A p \in 1 .. Len(pages) : IsPage(pages[p]) /\ wanted[p] \in Notes
         /\ Now(pages[Len(pages)]) \in Look
<1>1. /\ pages \in Seq(Seq(Written)) /\ pages # <<>> /\ wanted \in Seq(Notes)
      /\ Len(wanted) = Len(pages)
      /\ activeFontKey \in FontKeys /\ activeFontSize \in Sizes /\ textColor \in Colors
      /\ lineCapID \in Styles /\ lineJoinID \in Styles
      /\ asked \in Look /\ onPage \in Look /\ calls \in 0 .. MaxCalls
  BY DEF PagesInv, PagesTypeOK, Written, Notes
<1>2. Len(pages) \in Nat \ {0}
  BY <1>1
<1>3. \A p \in 1 .. Len(pages) : IsPage(pages[p]) /\ wanted[p] \in Notes
  BY <1>1, <1>2 DEF IsPage
<1>4. [op |-> "path", style |-> "S"] \in Written
  BY DEF Written, Element
<1>5. Now(pages[Len(pages)]) \in Look
  BY <1>2, <1>3, <1>4, NowFacts
<1>6. QED
  BY <1>1, <1>2, <1>3, <1>5

(* An operator is written to the last page.                                *)
LEMMA WriteFacts ==
  ASSUME PagesInv, NEW op \in Written, WriteOp(op)
  PROVE  /\ pages' \in Seq(Seq(Written)) /\ Len(pages') = Len(pages)
         /\ pages'[Len(pages)] = Append(pages[Len(pages)], op)
         /\ \A p \in 1 .. Len(pages) - 1 : pages'[p] = pages[p]
         /\ \A p \in 1 .. Len(pages) : PageOK(pages'[p], wanted[p])
         /\ Now(pages'[Len(pages)]) = Apply(Now(pages[Len(pages)]), op)
<1> DEFINE last == Len(pages)
           page == Append(pages[last], op)
<1>1. pages \in Seq(Seq(Written)) /\ last \in 1 .. Len(pages) /\ IsPage(pages[last])
  BY PagesFacts
<1>2. IsPage(page) /\ Now(page) = Apply(Now(pages[last]), op)
  BY <1>1, NowFacts
<1>3. pages' = [pages EXCEPT ![last] = page]
  BY DEF WriteOp
<1> HIDE DEF page
<1>4. /\ pages' \in Seq(Seq(Written)) /\ Len(pages') = Len(pages)
      /\ \A p \in 1 .. Len(pages) : pages'[p] = IF p = last THEN page ELSE pages[p]
  BY <1>1, <1>2, <1>3, ExceptSeq DEF IsPage
<1>5. ASSUME NEW p \in 1 .. Len(pages) PROVE PageOK(pages'[p], wanted[p])
  <2>1. PageOK(pages[p], wanted[p])
    BY DEF PagesInv
  <2>2. CASE p = last
    BY <1>4, <2>1, <2>2, ElementStays DEF page
  <2>3. CASE p # last
    BY <1>4, <2>1, <2>3
  <2>4. QED
    BY <2>2, <2>3
<1>6. pages'[last] = page /\ \A p \in 1 .. last - 1 : pages'[p] = pages[p]
  BY <1>1, <1>4
<1>7. QED
  BY <1>2, <1>4, <1>5, <1>6 DEF page

LEMMA WritesInv ==
  ASSUME PagesInv, NEW op \in Written, WriteOp(op), wanted' = wanted, Call,
         activeFontKey' \in FontKeys /\ activeFontSize' \in Sizes /\ textColor' \in Colors,
         lineCapID' \in Styles /\ lineJoinID' \in Styles,
         asked' \in Look, onPage' \in Look,
         Kept', Following(Apply(Now(pages[Len(pages)]), op), asked', onPage')
  PROVE  PagesInv'
<1>1. /\ pages' \in Seq(Seq(Written)) /\ Len(pages') = Len(pages)
      /\ \A p \in 1 .. Len(pages) : PageOK(pages'[p], wanted[p])
      /\ Now(pages'[Len(pages)]) = Apply(Now(pages[Len(pages)]), op)
  BY WriteFacts
<1>2. /\ wanted \in Seq(Notes) /\ Len(wanted) = Len(pages) /\ Len(pages) \in Nat \ {0}
      /\ calls \in 0 .. MaxCalls
  BY PagesFacts
<1>3. calls' \in 0 .. MaxCalls /\ media' = media
  BY <1>2, PagesAssumption DEF Call
<1>4. pages' # <<>>
  BY <1>1, <1>2
<1>5. PagesTypeOK'
  BY <1>1, <1>2, <1>3, <1>4 DEF PagesTypeOK, Written, Notes
<1>6. PageIsOriented'
  BY <1>3 DEF PagesInv, PageIsOriented
<1>7. QED
  BY <1>1, <1>5, <1>6 DEF PagesInv

LEMMA EmitInv ==
  ASSUME PagesInv,
         \/ \E w \in Widths : SetLineWidth(w)
         \/ \E c \in Colors : SetDrawColor(c) \/ SetFillColor(c)
         \/ \E s \in Styles : SetLineCap(s) \/ SetLineJoin(s)
  PROVE  PagesInv'
<1> DEFINE now == Now(pages[Len(pages)])
<1>1. /\ activeFontKey \in FontKeys /\ activeFontSize \in Sizes /\ textColor \in Colors
      /\ lineCapID \in Styles /\ lineJoinID \in Styles
      /\ asked \in Look /\ onPage \in Look /\ now \in Look
  BY PagesFacts
<1>2. Kept /\ Following(now, asked, onPage)
  BY DEF PagesInv
<1> HIDE DEF now
<1>3. ASSUME NEW w \in Widths, SetLineWidth(w) PROVE PagesInv'
  <2> DEFINE op == [op |-> "w", value |-> w]
  <2>1. /\ Call /\ WriteOp(op) /\ wanted' = wanted
        /\ activeFontKey' = activeFontKey /\ activeFontSize' = activeFontSize
        /\ textColor' = textColor /\ lineCapID' = lineCapID /\ lineJoinID' = lineJoinID
        /\ asked' = [asked EXCEPT !["width"] = w] /\ onPage' = [onPage EXCEPT !["width"] = w]
    BY <1>3 DEF SetLineWidth, Emit, Asking, set
  <2>2. op \in Written /\ Apply(now, op) = [now EXCEPT !.width = w]
    BY DEF Written, Setting, Apply
  <2> HIDE DEF op
  <2>3. asked' \in Look /\ onPage' \in Look /\ Kept'
        /\ Following(Apply(now, op), asked', onPage')
    BY <1>1, <1>2, <2>1, <2>2 DEF Kept, Following, Look
  <2>4. QED
    BY <1>1, <2>1, <2>2, <2>3, WritesInv DEF now
<1>4. ASSUME NEW c \in Colors, SetDrawColor(c) PROVE PagesInv'
  <2> DEFINE op == [op |-> "G", value |-> c]
  <2>1. /\ Call /\ WriteOp(op) /\ wanted' = wanted
        /\ activeFontKey' = activeFontKey /\ activeFontSize' = activeFontSize
        /\ textColor' = textColor /\ lineCapID' = lineCapID /\ lineJoinID' = lineJoinID
        /\ asked' = [asked EXCEPT !["stroke"] = c] /\ onPage' = [onPage EXCEPT !["stroke"] = c]
    BY <1>4 DEF SetDrawColor, Emit, Asking, set
  <2>2. op \in Written /\ Apply(now, op) = [now EXCEPT !.stroke = c]
    BY DEF Written, Setting, Apply
  <2> HIDE DEF op
  <2>3. asked' \in Look /\ onPage' \in Look /\ Kept'
        /\ Following(Apply(now, op), asked', onPage')
    BY <1>1, <1>2, <2>1, <2>2 DEF Kept, Following, Look
  <2>4. QED
    BY <1>1, <2>1, <2>2, <2>3, WritesInv DEF now
<1>5. ASSUME NEW c \in Colors, SetFillColor(c) PROVE PagesInv'
  <2> DEFINE op == [op |-> "g", value |-> c]
  <2>1. /\ Call /\ WriteOp(op) /\ wanted' = wanted
        /\ activeFontKey' = activeFontKey /\ activeFontSize' = activeFontSize
        /\ textColor' = textColor /\ lineCapID' = lineCapID /\ lineJoinID' = lineJoinID
        /\ asked' = [asked EXCEPT !["fill"] = c] /\ onPage' = [onPage EXCEPT !["fill"] = c]
    BY <1>5 DEF SetFillColor, Emit, Asking, set
  <2>2. op \in Written /\ Apply(now, op) = [now EXCEPT !.fill = c]
    BY DEF Written, Setting, Apply
  <2> HIDE DEF op
  <2>3. asked' \in Look /\ onPage' \in Look /\ Kept'
        /\ Following(Apply(now, op), asked', onPage')
    BY <1>1, <1>2, <2>1, <2>2 DEF Kept, Following, Look
  <2>4. QED
    BY <1>1, <2>1, <2>2, <2>3, WritesInv DEF now
<1>6. ASSUME NEW s \in Styles, SetLineCap(s) PROVE PagesInv'
  <2> DEFINE op == [op |-> "J", value |-> s]
  <2>1. /\ Call /\ WriteOp(op) /\ wanted' = wanted
        /\ activeFontKey' = activeFontKey /\ activeFontSize' = activeFontSize
        /\ textColor' = textColor /\ lineCapID' = s /\ lineJoinID' = lineJoinID
        /\ asked' = [asked EXCEPT !["cap"] = s] /\ onPage' = [onPage EXCEPT !["cap"] = s]
    BY <1>6 DEF SetLineCap, Asking
  <2>2. op \in Written /\ Apply(now, op) = [now EXCEPT !.cap = s]
    BY DEF Written, Setting, Apply
  <2> HIDE DEF op
  <2>3. asked' \in Look /\ onPage' \in Look /\ Kept'
        /\ Following(Apply(now, op), asked', onPage')
    BY <1>1, <1>2, <2>1, <2>2 DEF Kept, Following, Look
  <2>4. QED
    BY <1>1, <2>1, <2>2, <2>3, WritesInv DEF now
<1>7. ASSUME NEW s \in Styles, SetLineJoin(s) PROVE PagesInv'
  <2> DEFINE op == [op |-> "j", value |-> s]
  <2>1. /\ Call /\ WriteOp(op) /\ wanted' = wanted
        /\ activeFontKey' = activeFontKey /\ activeFontSize' = activeFontSize
        /\ textColor' = textColor /\ lineCapID' = lineCapID /\ lineJoinID' = s
        /\ asked' = [asked EXCEPT !["join"] = s] /\ onPage' = [onPage EXCEPT !["join"] = s]
    BY <1>7 DEF SetLineJoin, Asking
  <2>2. op \in Written /\ Apply(now, op) = [now EXCEPT !.join = s]
    BY DEF Written, Setting, Apply
  <2> HIDE DEF op
  <2>3. asked' \in Look /\ onPage' \in Look /\ Kept'
        /\ Following(Apply(now, op), asked', onPage')
    BY <1>1, <1>2, <2>1, <2>2 DEF Kept, Following, Look
  <2>4. QED
    BY <1>1, <2>1, <2>2, <2>3, WritesInv DEF now
<1>8. QED
  BY <1>3, <1>4, <1>5, <1>6, <1>7

(* The settings of text leave the pages as they are.                       *)
LEMMA KeepsInv ==
  ASSUME PagesInv,
         \/ \E c \in Colors : SetTextColor(c)
         \/ \E s \in Sizes : SetFontSize(s)
         \/ \E s \in FontStyles : SetFontStyle(s) \/ \E n \in FontNames : SetFont(n, s)
  PROVE  PagesInv'
<1>1. /\ activeFontKey \in FontKeys /\ activeFontSize \in Sizes /\ textColor \in Colors
      /\ lineCapID \in Styles /\ lineJoinID \in Styles
      /\ asked \in Look /\ onPage \in Look /\ calls \in 0 .. MaxCalls
  BY PagesFacts
<1>2. Kept /\ PagesTypeOK /\ PageIsOriented
      /\ (\A p \in 1 .. Len(pages) : PageOK(pages[p], wanted[p]))
      /\ Following(Now(pages[Len(pages)]), asked, onPage)
  BY DEF PagesInv
<1>3. ASSUME pages' = pages, wanted' = wanted, Call, asked' \in Look, onPage' \in Look,
             activeFontKey' \in FontKeys, activeFontSize' \in Sizes, textColor' \in Colors,
             lineCapID' = lineCapID, lineJoinID' = lineJoinID, Kept',
             asked'.cap = asked.cap, asked'.join = asked.join, onPage'.stroke = onPage.stroke,
             onPage'.fill = onPage.fill, onPage'.width = onPage.width
      PROVE  PagesInv'
  <2>1. calls' \in 0 .. MaxCalls /\ media' = media
    BY <1>1, <1>3, PagesAssumption DEF Call
  <2>2. PagesTypeOK'
    BY <1>1, <1>2, <1>3, <2>1 DEF PagesTypeOK
  <2>3. PageIsOriented'
    BY <1>2, <2>1 DEF PageIsOriented
  <2>4. Following(Now(pages[Len(pages)]), asked, onPage)'
    BY <1>2, <1>3 DEF Following
  <2>5. \A p \in 1 .. Len(pages') : PageOK(pages'[p], wanted'[p])
    BY <1>2, <1>3
  <2>6. QED
    BY <1>3, <2>2, <2>3, <2>4, <2>5 DEF PagesInv
<1>4. ASSUME NEW c \in Colors, SetTextColor(c) PROVE PagesInv'
  <2>1. /\ Call /\ pages' = pages /\ wanted' = wanted
        /\ activeFontKey' = activeFontKey /\ activeFontSize' = activeFontSize
        /\ textColor' = c /\ lineCapID' = lineCapID /\ lineJoinID' = lineJoinID
        /\ asked' = [asked EXCEPT !["text"] = c] /\ onPage' = [onPage EXCEPT !["text"] = c]
    BY <1>4 DEF SetTextColor, Asking
  <2>2. asked' \in Look /\ onPage' \in Look /\ Kept'
    BY <1>1, <1>2, <2>1 DEF Kept, Look
  <2>3. asked'.cap = asked.cap /\ asked'.join = asked.join /\ onPage'.stroke = onPage.stroke
        /\ onPage'.fill = onPage.fill /\ onPage'.width = onPage.width
    BY <1>1, <2>1 DEF Look
  <2>4. QED
    BY <1>1, <1>3, <2>1, <2>2, <2>3
<1>5. ASSUME NEW s \in Sizes, SetFontSize(s) PROVE PagesInv'
  <2>1. /\ Call /\ pages' = pages /\ wanted' = wanted
        /\ activeFontKey' = activeFontKey /\ activeFontSize' = s
        /\ textColor' = textColor /\ lineCapID' = lineCapID /\ lineJoinID' = lineJoinID
        /\ asked' = [asked EXCEPT !["size"] = s] /\ onPage' = [onPage EXCEPT !["size"] = s]
    BY <1>5 DEF SetFontSize, Asking
  <2>2. asked' \in Look /\ onPage' \in Look /\ Kept'
    BY <1>1, <1>2, <2>1 DEF Kept, Look
  <2>3. asked'.cap = asked.cap /\ asked'.join = asked.join /\ onPage'.stroke = onPage.stroke
        /\ onPage'.fill = onPage.fill /\ onPage'.width = onPage.width
    BY <1>1, <2>1 DEF Look
  <2>4. QED
    BY <1>1, <1>3, <2>1, <2>2, <2>3
<1>6. ASSUME NEW n, NEW s, Select(n, s) PROVE PagesInv'
  <2>1. /\ Call /\ pages' = pages /\ wanted' = wanted
        /\ activeFontKey' \in FontMap(n, s) /\ activeFontSize' = activeFontSize
        /\ textColor' = textColor /\ lineCapID' = lineCapID /\ lineJoinID' = lineJoinID
        /\ asked' = [asked EXCEPT !["font"] = activeFontKey']
        /\ onPage' = [onPage EXCEPT !["font"] = activeFontKey']
    BY <1>6 DEF Select, Asking
  <2>2. activeFontKey' \in FontKeys
    BY <2>1 DEF FontMap
  <2>3. asked' \in Look /\ onPage' \in Look /\ Kept'
    BY <1>1, <1>2, <2>1, <2>2 DEF Kept, Look
  <2>4. asked'.cap = asked.cap /\ asked'.join = asked.join /\ onPage'.stroke = onPage.stroke
        /\ onPage'.fill = onPage.fill /\ onPage'.width = onPage.width
    BY <1>1, <2>1 DEF Look
  <2>5. QED
    BY <1>1, <1>3, <2>1, <2>2, <2>3, <2>4
<1>7. QED
  BY <1>4, <1>5, <1>6, Zenon DEF SetFont, SetFontStyle

(* An element is noted with what is asked for, and is what a viewer has.   *)
LEMMA DrawInv ==
  ASSUME PagesInv, Text \/ \E s \in {"S", "f", "B"} : Path(s)
  PROVE  PagesInv'
<1> DEFINE last == Len(pages)
           page == pages[last]
           now == Now(page)
           want == [at |-> Len(page) + 1, asked |-> asked, onPage |-> onPage]
<1>1. /\ pages \in Seq(Seq(Written)) /\ last \in Nat \ {0} /\ wanted \in Seq(Notes)
      /\ Len(wanted) = last
      /\ activeFontKey \in FontKeys /\ activeFontSize \in Sizes /\ textColor \in Colors
      /\ lineCapID \in Styles /\ lineJoinID \in Styles
      /\ asked \in Look /\ onPage \in Look /\ calls \in 0 .. MaxCalls
      /\ IsPage(page) /\ wanted[last] \in Notes /\ now \in Look
  BY PagesFacts
<1>2. Kept /\ Following(now, asked, onPage)
      /\ \A p \in 1 .. last : PageOK(pages[p], wanted[p])
  BY DEF PagesInv
<1>3. PICK op \in Element :
        /\ Draw(op)
        /\ \/ op.op = "path" /\ onPage' = onPage
           \/ /\ op = [op |-> "text", font |-> activeFontKey, size |-> activeFontSize,
                       value |-> textColor]
              /\ onPage' = [onPage EXCEPT !.fill = textColor]
  <2>1. ASSUME NEW s \in {"S", "f", "B"}, Path(s)
        PROVE  \E op \in Element : Draw(op) /\ op.op = "path" /\ onPage' = onPage
    <3> DEFINE op == [op |-> "path", style |-> s]
    <3>1. op \in Element /\ op.op = "path"
      BY DEF Element
    <3>2. Draw(op) /\ onPage' = onPage
      BY <2>1, Zenon DEF Path
    <3> HIDE DEF op
    <3>3. QED
      BY <3>1, <3>2, Zenon
  <2>2. ASSUME Text
        PROVE  \E op \in Element :
                 /\ Draw(op)
                 /\ op = [op |-> "text", font |-> activeFontKey, size |-> activeFontSize,
                          value |-> textColor]
                 /\ onPage' = [onPage EXCEPT !.fill = textColor]
    <3> DEFINE op == [op |-> "text", font |-> activeFontKey, size |-> activeFontSize,
                      value |-> textColor]
    <3>1. op \in Element
      BY <1>1 DEF Element
    <3>2. Draw(op) /\ onPage' = [onPage EXCEPT !.fill = textColor]
      BY <2>2, Zenon DEF Text
    <3>3. QED
      BY <3>1, <3>2, Zenon
  <2>3. QED
    BY <2>1, <2>2
<1>4. /\ Call /\ WriteOp(op) /\ asked' = asked
      /\ wanted' = [wanted EXCEPT ![Len(wanted)] = Append(@, want)]
      /\ activeFontKey' = activeFontKey /\ activeFontSize' = activeFontSize
      /\ textColor' = textColor /\ lineCapID' = lineCapID /\ lineJoinID' = lineJoinID
  BY <1>3 DEF Draw, set
<1>5. op \in Written /\ op.op \in {"path", "text"} /\ Len(page) \in Nat
  BY <1>1 DEF Written, Element, IsPage
<1>6. /\ pages' \in Seq(Seq(Written)) /\ Len(pages') = last
      /\ pages'[last] = Append(page, op)
      /\ (\A p \in 1 .. last - 1 : pages'[p] = pages[p])
      /\ (\A p \in 1 .. last : PageOK(pages'[p], wanted[p]))
      /\ Now(pages'[last]) = Apply(now, op)
  BY <1>4, <1>5, WriteFacts
<1>7. want \in [at : Nat, asked : Look, onPage : Look]
  BY <1>1, <1>5
<1>8. /\ Len(Append(page, op)) = Len(page) + 1 /\ Append(page, op)[Len(page) + 1] = op
      /\ Viewed(Append(page, op))[Len(page) + 1] = Apply(now, op)
      /\ Append(page, op) \in Seq(Written)
  BY <1>1, <1>5, ViewedAppend, AppendFacts DEF IsPage, Now
<1>9. /\ op.op = "text" =>
          /\ Apply(now, op).font = asked.font /\ Apply(now, op).size = asked.size
          /\ Apply(now, op).text = asked.text
      /\ op.op = "path" => Apply(now, op) = now
      /\ Following(Apply(now, op), asked, onPage')
  <2>1. CASE op.op = "path" /\ onPage' = onPage
    BY <1>1, <1>2, <1>5, <2>1, ApplyFacts
  <2>2. CASE /\ op = [op |-> "text", font |-> activeFontKey, size |-> activeFontSize,
                      value |-> textColor]
             /\ onPage' = [onPage EXCEPT !.fill = textColor]
    <3>1. /\ op.op = "text" /\ op.font = activeFontKey /\ op.size = activeFontSize
          /\ op.value = textColor
      BY <2>2
    <3>2. Apply(now, op) = [now EXCEPT !.fill = textColor, !.text = textColor,
                                       !.font = activeFontKey, !.size = activeFontSize]
      BY ZenonT(40), <1>1, <1>5, <3>1, ApplyFacts
    <3>3. QED
      BY ZenonT(40), <1>1, <1>2, <2>2, <3>1, <3>2 DEF Kept, Following, Look
  <2>3. QED
    BY <1>3, <2>1, <2>2
<1>10. ElementOK(Append(page, op), want)
  <2>1. want.at = Len(page) + 1 /\ want.asked = asked /\ want.onPage = onPage
    OBVIOUS
  <2>2. want.at \in DOMAIN Append(page, op) /\ Append(page, op)[want.at] = op
        /\ Viewed(Append(page, op))[want.at] = Apply(now, op)
    BY <1>5, <1>8, <2>1
  <2>3. CASE op.op = "text"
    BY <1>3, <1>7, <1>9, <2>1, <2>2, <2>3 DEF ElementOK
  <2>4. CASE op.op = "path"
    <3>1. Following(Apply(now, op), asked, onPage)
      BY <1>2, <1>9, <2>4
    <3>2. QED
      BY <1>3, <1>7, <2>1, <2>2, <2>4, <3>1 DEF ElementOK, Following
  <2>5. QED
    BY <1>5, <2>3, <2>4
<1> DEFINE noted == Append(wanted[last], want)
<1>11. noted \in Notes /\ Len(noted) = Len(wanted[last]) + 1 /\ Len(wanted[last]) \in Nat
       /\ noted[Len(wanted[last]) + 1] = want
       /\ \A e \in 1 .. Len(wanted[last]) : noted[e] = wanted[last][e]
  BY <1>1, <1>7, AppendFacts DEF Notes
<1>12. wanted' = [wanted EXCEPT ![last] = noted]
  BY <1>1, <1>4
<1> HIDE DEF want, noted, now, page
<1>13. wanted' \in Seq(Notes) /\ Len(wanted') = last
       /\ \A p \in 1 .. last : wanted'[p] = IF p = last THEN noted ELSE wanted[p]
  BY <1>1, <1>11, <1>12, ExceptSeq
<1>14. ASSUME NEW p \in 1 .. last PROVE PageOK(pages'[p], wanted'[p])
  <2>1. CASE p = last
    <3>1. PageOK(Append(page, op), wanted[last])
      <4>1. last \in 1 .. last
        BY <1>1
      <4>2. PageOK(pages'[last], wanted[last])
        BY <1>6, <4>1, Zenon
      <4>3. QED
        BY <1>6, <4>2
    <3>2. wanted'[p] = noted /\ pages'[p] = Append(page, op)
      BY <1>6, <1>13, <2>1
    <3>3. ASSUME NEW e \in 1 .. Len(noted) PROVE ElementOK(Append(page, op), noted[e])
      <4>1. CASE e = Len(wanted[last]) + 1
        BY <1>10, <1>11, <4>1
      <4>2. CASE e # Len(wanted[last]) + 1
        <5>1. e \in 1 .. Len(wanted[last])
          BY <1>11, <4>2
        <5>2. QED
          BY <1>11, <3>1, <5>1 DEF PageOK
      <4>3. QED
        BY <4>1, <4>2
    <3>4. QED
      BY <1>11, <3>1, <3>2, <3>3 DEF PageOK, Notes
  <2>2. CASE p # last
    BY <1>6, <1>13, <2>2
  <2>3. QED
    BY <2>1, <2>2
<1>15. calls' \in 0 .. MaxCalls /\ media' = media
  BY <1>1, <1>4, PagesAssumption DEF Call
<1>16. onPage' \in Look
  BY <1>1, <1>3 DEF Look
<1>17. PagesTypeOK'
  <2>1. pages' # <<>>
    BY <1>1, <1>6
  <2>2. QED
    BY <1>1, <1>4, <1>6, <1>13, <1>15, <1>16, <2>1 DEF PagesTypeOK, Written, Notes
<1>18. PageIsOriented'
  BY <1>15 DEF PagesInv, PageIsOriented
<1>19. Kept'
  BY <1>2, <1>4 DEF Kept
<1>20. Following(Now(pages'[Len(pages')]), asked', onPage')
  BY <1>4, <1>6, <1>9
<1>21. QED
  BY <1>6, <1>14, <1>17, <1>18, <1>19, <1>20 DEF PagesInv

LEMMA AddPageInv ==
  ASSUME PagesInv, AddPage
  PROVE  PagesInv'
<1> DEFINE last == Len(pages)
           looks == [FirstLook EXCEPT !.cap = lineCapID, !.join = lineJoinID]
<1>1. /\ pages \in Seq(Seq(Written)) /\ last \in Nat \ {0} /\ wanted \in Seq(Notes)
      /\ Len(wanted) = last
      /\ activeFontKey \in FontKeys /\ activeFontSize \in Sizes /\ textColor \in Colors
      /\ lineCapID \in Styles /\ lineJoinID \in Styles
      /\ asked \in Look /\ calls \in 0 .. MaxCalls
  BY PagesFacts
<1>2. Kept /\ \A p \in 1 .. last : PageOK(pages[p], wanted[p])
  BY DEF PagesInv
<1>3. /\ Call /\ asked' = asked
      /\ pages' = Append(pages, PageStart) /\ wanted' = Append(wanted, <<>>)
      /\ onPage' = [asked EXCEPT !.stroke = Black, !.fill = Black, !.width = Thin]
      /\ activeFontKey' = activeFontKey /\ activeFontSize' = activeFontSize
      /\ textColor' = textColor /\ lineCapID' = lineCapID /\ lineJoinID' = lineJoinID
  BY DEF AddPage, set
<1>4. IsPage(PageStart) /\ Now(PageStart) = looks
  BY <1>1, StartFacts
<1>5. Following(looks, asked, onPage')
  BY <1>1, <1>2, <1>3 DEF Kept, Following, Look, FirstLook
<1>6. onPage' \in Look
  BY <1>1, <1>3, PagesAssumption DEF Look
<1> HIDE DEF looks
<1>7. /\ pages' \in Seq(Seq(Written)) /\ Len(pages') = last + 1
      /\ pages'[last + 1] = PageStart /\ \A p \in 1 .. last : pages'[p] = pages[p]
  BY <1>1, <1>3, <1>4, AppendFacts DEF IsPage
<1>8. <<>> \in Notes
  BY DEF Notes
<1>9. /\ wanted' \in Seq(Notes) /\ Len(wanted') = last + 1
      /\ wanted'[last + 1] = <<>> /\ \A p \in 1 .. last : wanted'[p] = wanted[p]
  BY <1>1, <1>3, <1>8, AppendFacts
<1>10. ASSUME NEW p \in 1 .. last + 1 PROVE PageOK(pages'[p], wanted'[p])
  <2>1. CASE p = last + 1
    <3>1. PageOK(PageStart, <<>>)
      BY <1>4 DEF PageOK
    <3>2. QED
      BY <1>7, <1>9, <2>1, <3>1
  <2>2. CASE p \in 1 .. last
    BY <1>2, <1>7, <1>9, <2>2
  <2>3. QED
    BY <1>1, <2>1, <2>2
<1>11. calls' \in 0 .. MaxCalls /\ media' = media
  BY <1>1, <1>3, PagesAssumption DEF Call
<1>12. PagesTypeOK'
  <2>1. pages' # <<>>
    BY <1>1, <1>7
  <2>2. QED
    BY <1>1, <1>3, <1>6, <1>7, <1>9, <1>11, <2>1 DEF PagesTypeOK, Written, Notes
<1>13. PageIsOriented'
  BY <1>11 DEF PagesInv, PageIsOriented
<1>14. Kept'
  BY <1>2, <1>3 DEF Kept
<1>15. Following(Now(pages'[Len(pages')]), asked', onPage')
  BY <1>3, <1>4, <1>5, <1>7
<1>16. QED
  BY <1>7, <1>10, <1>12, <1>13, <1>14, <1>15 DEF PagesInv

LEMMA PagesStep == PagesInv /\ [PagesNext]_pagesVars => PagesInv'
<1> SUFFICES ASSUME PagesInv, [PagesNext]_pagesVars PROVE PagesInv'
  OBVIOUS
<1>1. CASE PagesNext
  BY <1>1, EmitInv, KeepsInv, DrawInv, AddPageInv, Zenon DEF PagesNext
<1>2. CASE UNCHANGED pagesVars
  BY <1>2 DEF pagesVars, set, PagesInv, PagesTypeOK, PageIsOriented, Kept
<1>3. QED
  BY <1>1, <1>2

LEMMA PagesImplies == PagesInv => SeenAsAsked
<1> SUFFICES ASSUME PagesInv PROVE SeenAsAsked
  OBVIOUS
<1>1. pages \in Seq(Seq(Written)) /\ wanted \in Seq(Notes) /\ Len(wanted) = Len(pages)
  BY PagesFacts
<1>2. ASSUME NEW kind, NEW pe \in ElementsOf(kind)
      PROVE  /\ ElementOK(pages[pe[1]], wanted[pe[1]][pe[2]])
             /\ pages[pe[1]][wanted[pe[1]][pe[2]].at].op = kind
  <2>1. PICK p \in DOMAIN pages : pe \in {p} \X DOMAIN wanted[p]
    BY DEF ElementsOf
  <2>2. pe[1] = p /\ pe[2] \in DOMAIN wanted[p] /\ p \in 1 .. Len(pages)
    BY <1>1, <2>1
  <2>3. PageOK(pages[p], wanted[p])
    BY <2>2 DEF PagesInv
  <2>4. pe[2] \in 1 .. Len(wanted[p])
    BY <2>2, <2>3 DEF PageOK
  <2>5. ElementOK(pages[p], wanted[p][pe[2]])
    BY <2>3, <2>4 DEF PageOK
  <2>6. pages[pe[1]][wanted[pe[1]][pe[2]].at].op = kind
    BY DEF ElementsOf
  <2>7. QED
    BY <2>2, <2>5, <2>6
<1>3. TextAsAsked
  <2>1. ASSUME NEW pe \in ElementsOf("text")
        PROVE  LET seen == Seen(pe[1], pe[2])
                   want == wanted[pe[1]][pe[2]].asked
               IN  seen.font = want.font /\ seen.size = want.size /\ seen.text = want.text
    BY <1>2 DEF ElementOK, Seen
  <2>2. QED
    BY <2>1 DEF TextAsAsked
<1>4. ASSUME NEW pe \in ElementsOf("path")
      PROVE  LET seen == Seen(pe[1], pe[2])
                 want == wanted[pe[1]][pe[2]]
             IN  /\ seen.cap = want.asked.cap /\ seen.join = want.asked.join
                 /\ seen.stroke = want.onPage.stroke /\ seen.fill = want.onPage.fill
                 /\ seen.width = want.onPage.width
  BY <1>2 DEF ElementOK, Seen
<1>5. CapsAndJoinsAsAsked
  BY <1>4 DEF CapsAndJoinsAsAsked
<1>6. PaintOfThePage
  BY <1>4 DEF PaintOfThePage
<1>7. QED
  BY <1>3, <1>5, <1>6 DEF PagesInv, SeenAsAsked

(* What a reader sees of a document is what was asked for when it was      *)
(* drawn, whatever order the drawing calls come in and on however many     *)
(* pages: texts have the font, size and colour set last, lines their caps  *)
(* and joins, and paint is that of the page (setters, out, _addPage).      *)
THEOREM PagesSeenAsAsked == PagesSpec => []SeenAsAsked
BY PagesInitInv, PagesStep, PagesImplies, PTL DEF PagesSpec

-----------------------------------------------------------------------------
(* Builds of a file                                                        *)

Kinds == {"header", "page", "stream", "pages", "font", "image", "resources", "info",
          "catalog", "xref", "trailer", "stray"}
Offsets == UNION {[D -> Nat] : D \in SUBSET Nat}
Data == Nat \cup Offsets \cup [size : Nat, startxref : Nat]
Refs == SUBSET (Kinds \X Nat)
Entries == [obj : Nat, kind : Kinds, refs : Refs, data : Data]
Builds == [content : Seq(Entries), length : Nat, number : Nat, offsets : Offsets,
           fonts : [1 .. FontCount -> Nat], images : [1 .. Len(images) -> Nat]]

InFile(b) == {b.content[m] : m \in 1 .. Len(b.content)}

(* The offsets of a build, which counts positions from d on, lead to the   *)
(* objects it has put, and to each of them.                                *)
Located(b, d) ==
  /\ b \in Builds /\ b.length = Len(b.content) + d
  /\ \A n \in DOMAIN b.offsets :
       /\ n # 0 /\ b.offsets[n] - d + 1 \in 1 .. Len(b.content)
       /\ b.content[b.offsets[n] - d + 1].obj = n
  /\ \A m \in 1 .. Len(b.content) :
       b.content[m].obj # 0 =>
         /\ b.content[m].obj \in DOMAIN b.offsets
         /\ b.offsets[b.content[m].obj] = m - 1 + d

LEMMA EntryFacts ==
  ASSUME NEW obj \in Nat, NEW kind \in Kinds, NEW refs \in Refs,
         NEW data \in Data
  PROVE  /\ Entry(obj, kind, refs, data) \in Entries
         /\ Entry(obj, kind, refs, data).obj = obj /\ Entry(obj, kind, refs, data).kind = kind
         /\ Entry(obj, kind, refs, data).refs = refs /\ Entry(obj, kind, refs, data).data = data
BY DEF Entry, Entries

LEMMA OffsetsFacts ==
  /\ \A f \in Offsets : DOMAIN f \in SUBSET Nat /\ f \in [DOMAIN f -> Nat]
  /\ \A D \in SUBSET Nat : \A f \in [D -> Nat] : f \in Offsets
BY DEF Offsets

LEMMA SeqIsOffsets == \A s \in Seq(Nat) : s \in Offsets
<1> SUFFICES ASSUME NEW s \in Seq(Nat) PROVE s \in Offsets
  OBVIOUS
<1>1. s \in [1 .. Len(s) -> Nat] /\ 1 .. Len(s) \in SUBSET Nat
  OBVIOUS
<1>2. QED
  BY <1>1, OffsetsFacts

(* An entry is written.                                                    *)
Writes(b, c, e) ==
  /\ c.content = Append(b.content, e) /\ c.length = b.length + 1
  /\ \/ e.obj = 0 /\ c.offsets = b.offsets
     \/ e.obj # 0 /\ e.obj \notin DOMAIN b.offsets /\ c.offsets = OffsetsWith(b, e.obj)

Joined(b, c, d, e) == Located(c, d) /\ InFile(c) = InFile(b) \cup {e}

LEMMA WriteEntry ==
  ASSUME NEW b, NEW c, NEW d \in Nat, Located(b, d), c \in Builds,
         NEW e \in Entries, Writes(b, c, e)
  PROVE  Joined(b, c, d, e)
<1> DEFINE l == Len(b.content)
<1>1. /\ b.content \in Seq(Entries) /\ l \in Nat /\ b.length = l + d
      /\ b.offsets \in [DOMAIN b.offsets -> Nat] /\ e.obj \in Nat
  BY OffsetsFacts DEF Located, Builds, Entries
<1>2. /\ Len(c.content) = l + 1 /\ c.content[l + 1] = e
      /\ \A m \in 1 .. l : c.content[m] = b.content[m]
  BY <1>1, AppendFacts DEF Writes
<1>3. /\ \A n \in DOMAIN b.offsets :
           /\ n # 0 /\ b.offsets[n] - d + 1 \in 1 .. l
           /\ b.content[b.offsets[n] - d + 1].obj = n
      /\ \A m \in 1 .. l :
           b.content[m].obj # 0 =>
             /\ b.content[m].obj \in DOMAIN b.offsets
             /\ b.offsets[b.content[m].obj] = m - 1 + d
  BY DEF Located
<1> HIDE DEF l
<1>4. /\ \A n \in DOMAIN b.offsets : n \in DOMAIN c.offsets /\ c.offsets[n] = b.offsets[n]
      /\ e.obj # 0 => e.obj \in DOMAIN c.offsets /\ c.offsets[e.obj] = l + d
      /\ \A n \in DOMAIN c.offsets : n \in DOMAIN b.offsets \/ (n = e.obj /\ e.obj # 0)
  BY <1>1 DEF Writes, OffsetsWith
<1>5. ASSUME NEW n \in DOMAIN c.offsets
      PROVE  /\ n # 0 /\ c.offsets[n] - d + 1 \in 1 .. l + 1
             /\ c.content[c.offsets[n] - d + 1].obj = n
  <2>1. CASE n \in DOMAIN b.offsets
    <3>1. b.offsets[n] \in Nat
      BY <1>1, <2>1
    <3>2. b.offsets[n] - d + 1 \in 1 .. l + 1
      BY <1>1, <1>3, <2>1, <3>1
    <3>3. QED
      BY <1>2, <1>3, <1>4, <2>1, <3>2
  <2>2. CASE n = e.obj /\ e.obj # 0
    <3>1. c.offsets[n] - d + 1 = l + 1
      BY <1>1, <1>4, <2>2
    <3>2. QED
      BY <1>1, <1>2, <2>2, <3>1
  <2>3. QED
    BY <1>4, <2>1, <2>2
<1>6. ASSUME NEW m \in 1 .. l + 1, c.content[m].obj # 0
      PROVE  c.content[m].obj \in DOMAIN c.offsets /\ c.offsets[c.content[m].obj] = m - 1 + d
  <2>1. CASE m = l + 1
    BY <1>1, <1>2, <1>4, <1>6, <2>1
  <2>2. CASE m # l + 1
    <3>1. m \in 1 .. l
      BY <1>1, <2>2
    <3>2. QED
      BY <1>2, <1>3, <1>4, <1>6, <3>1
  <2>3. QED
    BY <2>1, <2>2
<1>7. Located(c, d)
  <2>1. c.length = Len(c.content) + d
    BY <1>1, <1>2 DEF Writes
  <2>2. QED
    BY <1>2, <1>5, <1>6, <2>1 DEF Located
<1>8. InFile(c) = InFile(b) \cup {e}
  <2>1. \A m \in 1 .. l + 1 : m \in 1 .. l \/ m = l + 1
    BY <1>1
  <2>2. \A m \in 1 .. l : m \in 1 .. l + 1
    BY <1>1
  <2>3. l + 1 \in 1 .. l + 1
    BY <1>1
  <2>4. InFile(b) = {b.content[m] : m \in 1 .. l} /\ InFile(c) = {c.content[m] : m \in 1 .. l + 1}
    BY <1>2 DEF InFile, l
  <2>5. QED
    BY <1>2, <2>1, <2>2, <2>3, <2>4
<1>9. QED
  BY <1>7, <1>8 DEF Joined

(* The build c has k objects more than b, with the entries E.              *)
Grown(b, c, k, E, d) ==
  /\ Located(c, d)
  /\ c.number = b.number + k
  /\ DOMAIN c.offsets = DOMAIN b.offsets \cup (b.number + 1 .. b.number + k)
  /\ InFile(c) = InFile(b) \cup E

Fresh(b) == DOMAIN b.offsets \subseteq 1 .. b.number

LEMMA PutFacts ==
  ASSUME NEW b, NEW d \in Nat, Located(b, d), NEW e \in Entries, e.obj = 0
  PROVE  /\ Grown(b, Put(b, e), 0, {e}, d)
         /\ Put(b, e).offsets = b.offsets /\ Put(b, e).length = b.length + 1
         /\ Put(b, e).fonts = b.fonts /\ Put(b, e).images = b.images
         /\ Put(b, e).content = Append(b.content, e)
<1> DEFINE c == Put(b, e)
<1>1. b \in Builds
  BY DEF Located
<1>2. /\ c.content = Append(b.content, e) /\ c.length = b.length + 1
      /\ c.number = b.number /\ c.offsets = b.offsets /\ c.fonts = b.fonts
      /\ c.images = b.images
  BY <1>1 DEF Put, Builds
<1>3. c \in Builds
  <2>1. Append(b.content, e) \in Seq(Entries) /\ b.length + 1 \in Nat
    BY <1>1, AppendFacts DEF Builds
  <2>2. c = [b EXCEPT !.content = Append(b.content, e), !.length = b.length + 1]
    BY DEF Put
  <2>3. QED
    BY <1>1, <2>1, <2>2 DEF Builds
<1> HIDE DEF c
<1>4. Located(c, d) /\ InFile(c) = InFile(b) \cup {e}
  BY <1>2, <1>3, WriteEntry DEF Writes, Joined
<1>5. b.number \in Nat /\ DOMAIN b.offsets \cup (b.number + 1 .. b.number + 0) = DOMAIN b.offsets
  BY <1>1 DEF Builds
<1>6. QED
  BY <1>2, <1>4, <1>5 DEF Grown, c

(* An object is put under a number that has no offset yet.                 *)
Placed(b, c, d, k, n, e) ==
  /\ Joined(b, c, d, e)
  /\ c.number = k /\ DOMAIN c.offsets = DOMAIN b.offsets \cup {n}
  /\ c.fonts = b.fonts /\ c.images = b.images

LEMMA PlaceFacts ==
  ASSUME NEW b, NEW c, NEW d \in Nat, Located(b, d), NEW n \in Nat \ {0},
         n \notin DOMAIN b.offsets, NEW k \in Nat,
         NEW kind \in Kinds, NEW refs \in Refs, NEW data \in Data,
         c = Put([b EXCEPT !.number = k, !.offsets = OffsetsWith(b, n)],
                 Entry(n, kind, refs, data))
  PROVE  Placed(b, c, d, k, n, Entry(n, kind, refs, data))
<1> DEFINE e == Entry(n, kind, refs, data)
           o == OffsetsWith(b, n)
<1>1. b \in Builds
  BY DEF Located
<1>2. e \in Entries /\ e.obj = n
  BY EntryFacts
<1>3. /\ b.offsets \in [DOMAIN b.offsets -> Nat] /\ DOMAIN b.offsets \in SUBSET Nat
      /\ b.length \in Nat
  BY <1>1, OffsetsFacts DEF Builds
<1>4. o = [m \in DOMAIN b.offsets \cup {n} |-> IF m = n THEN b.length ELSE b.offsets[m]]
  BY DEF OffsetsWith
<1>5. o \in [DOMAIN b.offsets \cup {n} -> Nat]
  BY <1>3, <1>4
<1>6. o \in Offsets
  BY <1>3, <1>5, OffsetsFacts
<1> HIDE DEF e, o
<1>7. c = Put([b EXCEPT !.number = k, !.offsets = o], e)
  BY DEF e, o
<1>8. /\ c.content = Append(b.content, e) /\ c.length = b.length + 1
      /\ c.number = k /\ c.offsets = o /\ c.fonts = b.fonts /\ c.images = b.images
  BY <1>1, <1>7 DEF Put, Builds
<1>9. c \in Builds
  <2>1. Append(b.content, e) \in Seq(Entries) /\ b.length + 1 \in Nat
    BY <1>1, <1>2, AppendFacts DEF Builds
  <2>2. c = [[b EXCEPT !.number = k, !.offsets = o]
               EXCEPT !.content = Append(b.content, e), !.length = b.length + 1]
    BY <1>1, <1>7 DEF Put, Builds
  <2>3. QED
    BY <1>1, <1>6, <2>1, <2>2 DEF Builds
<1>10. Joined(b, c, d, e)
  <2>1. Writes(b, c, e)
    BY <1>2, <1>8 DEF Writes, o
  <2>2. QED
    BY <1>2, <1>9, <2>1, WriteEntry
<1>11. DOMAIN c.offsets = DOMAIN b.offsets \cup {n}
  BY <1>4, <1>8
<1>12. QED
  BY <1>8, <1>10, <1>11 DEF e, Placed

LEMMA PutObjectFacts ==
  ASSUME NEW b, NEW d \in Nat, Located(b, d), Fresh(b),
         NEW kind \in Kinds, NEW refs \in Refs, NEW data \in Data
  PROVE  LET c == PutObject(b, kind, refs, data)
         IN  /\ Grown(b, c, 1, {Entry(b.number + 1, kind, refs, data)}, d) /\ Fresh(c)
             /\ c.fonts = b.fonts /\ c.images = b.images
<1> DEFINE c == PutObject(b, kind, refs, data)
           n == b.number + 1
<1>1. b \in Builds /\ b.number \in Nat
  BY DEF Located, Builds
<1>2. n \in Nat \ {0} /\ n \notin DOMAIN b.offsets
  BY <1>1 DEF Fresh
<1>3. c = Put([b EXCEPT !.number = n, !.offsets = OffsetsWith(b, n)],
              Entry(n, kind, refs, data))
  BY Zenon DEF PutObject
<1> HIDE DEF c, n
<1>4. Placed(b, c, d, n, n, Entry(n, kind, refs, data))
  BY <1>2, <1>3, PlaceFacts, Zenon
<1>5. b.number + 1 .. b.number + 1 = {n} /\ Fresh(c)
  BY <1>1, <1>4 DEF Fresh, Placed, n
<1>6. QED
  BY <1>4, <1>5 DEF Grown, Placed, Joined, c, n

LEMMA PutFixedFacts ==
  ASSUME NEW b, NEW d \in Nat, Located(b, d), NEW n \in Nat \ {0}, n \notin DOMAIN b.offsets,
         NEW kind \in Kinds, NEW refs \in Refs, NEW data \in Data
  PROVE  LET c == PutFixed(b, n, kind, refs, data)
         IN  Placed(b, c, d, b.number, n, Entry(n, kind, refs, data))
<1> DEFINE c == PutFixed(b, n, kind, refs, data)
           k == b.number
           o == OffsetsWith(b, n)
<1>1. b \in Builds /\ k \in Nat
  BY DEF Located, Builds
<1>2. c = Put([b EXCEPT !.offsets = o], Entry(n, kind, refs, data))
  BY Zenon DEF PutFixed
<1> HIDE DEF o
<1>3. [b EXCEPT !.offsets = o] = [b EXCEPT !.number = k, !.offsets = o]
  BY <1>1 DEF Builds
<1>4. c = Put([b EXCEPT !.number = k, !.offsets = OffsetsWith(b, n)],
              Entry(n, kind, refs, data))
  BY <1>2, <1>3 DEF o
<1> HIDE DEF c, k
<1>5. Placed(b, c, d, k, n, Entry(n, kind, refs, data))
  BY <1>1, <1>4, PlaceFacts, Zenon
<1>6. QED
  BY <1>5 DEF c, k

LEMMA GrownOn ==
  ASSUME NEW b, NEW x, NEW c, NEW i \in Nat, NEW k \in Nat, NEW E, NEW F, NEW d,
         b.number \in Nat, Grown(b, x, i, E, d), Grown(x, c, k, F, d)
  PROVE  Grown(b, c, i + k, E \cup F, d)
<1>1. x.number = b.number + i /\ c.number = b.number + (i + k)
  BY DEF Grown
<1>2. (b.number + 1 .. b.number + i) \cup (x.number + 1 .. x.number + k)
        = b.number + 1 .. b.number + (i + k)
  BY <1>1
<1>3. QED
  BY <1>1, <1>2 DEF Grown

LEMMA GrownFresh ==
  ASSUME NEW b, NEW c, NEW k \in Nat, NEW E, NEW d, b.number \in Nat, Fresh(b),
         Grown(b, c, k, E, d)
  PROVE  Fresh(c) /\ c.number \in Nat /\ Located(c, d)
BY DEF Grown, Fresh

LEMMA GrownNothing ==
  ASSUME NEW b, NEW d, b.number \in Nat, Located(b, d)
  PROVE  Grown(b, b, 0, {}, d)
<1>1. b.number + 1 .. b.number + 0 = {}
  OBVIOUS
<1>2. QED
  BY <1>1 DEF Grown

(* The builds that a loop goes through.                                    *)
Sound(d) == {b \in Builds : Located(b, d) /\ Fresh(b)}

LEMMA SoundFacts ==
  ASSUME NEW d, NEW b \in Sound(d)
  PROVE  b \in Builds /\ Located(b, d) /\ Fresh(b) /\ b.number \in Nat
BY DEF Sound, Builds

LEMMA SoundGrown ==
  ASSUME NEW d, NEW b \in Sound(d), NEW c, NEW k \in Nat, NEW E, Grown(b, c, k, E, d)
  PROVE  c \in Sound(d)
<1>1. Fresh(c) /\ Located(c, d)
  BY SoundFacts, GrownFresh
<1>2. QED
  BY <1>1 DEF Located, Sound

-----------------------------------------------------------------------------
(* The objects of a document                                               *)

PageEntry(k, j) ==
  Entry(k, "page", {<<"pages", 1>>, <<"resources", 2>>, <<"stream", k + 1>>}, j)
StreamEntry(k, j) == Entry(k, "stream", {}, docPages[j])

PageEntries(s, i) == {PageEntry(s + 2 * j - 1, j) : j \in 1 .. i}
                     \cup {StreamEntry(s + 2 * j, j) : j \in 1 .. i}

(* The pages, and the elements on them, are data.                          *)
DocumentOK ==
  /\ docPages \in Seq(Seq(Nat)) /\ images \in Seq(Nat) /\ FontCount \in Nat
  /\ fonts \in [1 .. FontCount -> Nat]

LEMMA DataFacts ==
  /\ Nat \subseteq Data /\ Offsets \subseteq Data
  /\ \A s \in Seq(Nat) : s \in Data
  /\ \A n, m \in Nat : [size |-> n, startxref |-> m] \in Data
BY SeqIsOffsets DEF Data

LEMMA RefFacts ==
  /\ {} \in Refs
  /\ \A r, q \in Refs : r \cup q \in Refs
  /\ \A kind \in Kinds, n \in Nat : {<<kind, n>>} \in Refs
BY DEF Refs

LEMMA KindFacts ==
  {"header", "page", "stream", "pages", "font", "image", "resources", "info", "catalog",
   "xref", "trailer", "stray"} = Kinds
BY DEF Kinds

LEMMA PutPageFacts ==
  ASSUME DocumentOK, NEW d \in Nat, NEW b \in Sound(d), NEW n \in 1 .. Len(docPages)
  PROVE  LET c == PutPage(b, n)
             s == b.number
         IN  /\ Grown(b, c, 2, {PageEntry(s + 1, n), StreamEntry(s + 2, n)}, d)
             /\ c.fonts = b.fonts /\ c.images = b.images
<1> DEFINE s == b.number
           refs == {<<"pages", 1>>, <<"resources", 2>>, <<"stream", b.number + 2>>}
           dict == PutObject(b, "page", refs, n)
           c == PutObject(dict, "stream", {}, docPages[n])
<1>1. Located(b, d) /\ Fresh(b) /\ s \in Nat
  BY SoundFacts
<1>2. refs \in Refs /\ {} \in Refs
  BY <1>1 DEF Refs, Kinds
<1>3. n \in Data /\ docPages[n] \in Data
  <2>1. n \in Nat /\ docPages[n] \in Seq(Nat)
    BY DEF DocumentOK
  <2>2. QED
    BY <2>1, DataFacts
<1>4. "page" \in Kinds /\ "stream" \in Kinds
  BY KindFacts
<1>5. PutPage(b, n) = c
  BY Zenon DEF PutPage
<1>6. Entry(s + 1, "page", refs, n) = PageEntry(s + 1, n)
  <2>1. s + 1 + 1 = s + 2
    BY <1>1
  <2>2. QED
    BY <2>1, Zenon DEF PageEntry
<1> HIDE DEF refs
<1>7. Grown(b, dict, 1, {Entry(s + 1, "page", refs, n)}, d) /\ Fresh(dict)
      /\ dict.fonts = b.fonts /\ dict.images = b.images
  BY ZenonT(40), <1>1, <1>2, <1>3, <1>4, PutObjectFacts
<1> HIDE DEF dict
<1>8. Located(dict, d) /\ dict.number = s + 1
  BY <1>7 DEF Grown
<1>9. Grown(dict, c, 1, {Entry(dict.number + 1, "stream", {}, docPages[n])}, d)
      /\ c.fonts = dict.fonts /\ c.images = dict.images
  BY ZenonT(40), <1>2, <1>3, <1>4, <1>7, <1>8, PutObjectFacts
<1> HIDE DEF c
<1>10. Entry(dict.number + 1, "stream", {}, docPages[n]) = StreamEntry(s + 2, n)
  <2>1. dict.number + 1 = s + 2
    BY <1>1, <1>8
  <2>2. QED
    BY <2>1, Zenon DEF StreamEntry
<1>11. Grown(b, c, 1 + 1, {PageEntry(s + 1, n)} \cup {StreamEntry(s + 2, n)}, d)
  BY <1>1, <1>6, <1>7, <1>9, <1>10, GrownOn
<1>12. {PageEntry(s + 1, n)} \cup {StreamEntry(s + 2, n)}
         = {PageEntry(s + 1, n), StreamEntry(s + 2, n)} /\ 1 + 1 = 2
  OBVIOUS
<1>13. QED
  BY <1>5, <1>7, <1>9, <1>11, <1>12

LEMMA PagesLoop ==
  ASSUME DocumentOK, NEW d \in Nat, NEW b \in Sound(d), NEW n \in Nat, n <= Len(docPages)
  PROVE  LET c == Loop(PutPage, b, n)
         IN  /\ Grown(b, c, 2 * n, PageEntries(b.number, n), d)
             /\ c.fonts = b.fonts /\ c.images = b.images
<1> DEFINE S == Sound(d)
           g == [x \in S \X (1 .. n) |-> PutPage(x[1], x[2])]
           after[i \in 0 .. n] == IF i = 0 THEN b ELSE PutPage(after[i - 1], i)
           s == b.number
<1>1. Loop(PutPage, b, n) = after[n]
  BY Zenon DEF Loop
<1>2. Len(docPages) \in Nat /\ \A i \in 1 .. n : i \in 1 .. Len(docPages)
  BY DEF DocumentOK
<1>3. ASSUME NEW x \in S, NEW i \in 1 .. n PROVE PutPage(x, i) \in S
  <2>1. Grown(x, PutPage(x, i), 2, {PageEntry(x.number + 1, i), StreamEntry(x.number + 2, i)}, d)
    BY <1>2, PutPageFacts
  <2>2. QED
    BY <2>1, SoundGrown
<1> HIDE DEF S
<1>4. g \in [S \X (1 .. n) -> S]
  BY <1>3
<1>5. \A x \in S, i \in 1 .. n : g[<<x, i>>] = PutPage(x, i)
  OBVIOUS
<1> HIDE DEF g
<1>6. PICK h : IsLoop(h, S, b, n, g)
  BY <1>4, LoopExists DEF S
<1>7. h = [i \in 0 .. n |-> IF i = 0 THEN b ELSE PutPage(h[i - 1], i)]
  <2>1. ASSUME NEW i \in 0 .. n, i # 0 PROVE g[<<h[i - 1], i>>] = PutPage(h[i - 1], i)
    <3>1. i \in 1 .. n /\ i - 1 \in 0 .. n
      BY <2>1
    <3>2. QED
      BY <1>5, <1>6, <3>1 DEF IsLoop
  <2>2. QED
    BY <1>6, <2>1 DEF IsLoop
<1>8. after = [i \in 0 .. n |-> IF i = 0 THEN b ELSE PutPage(after[i - 1], i)]
  BY <1>7, Zenon
<1> HIDE DEF after
<1> DEFINE T == {i \in 0 .. n : /\ Grown(b, after[i], 2 * i, PageEntries(s, i), d)
                                /\ after[i].fonts = b.fonts /\ after[i].images = b.images}
<1>9. s \in Nat /\ Located(b, d) /\ b \in S
  BY SoundFacts DEF S
<1>10. 0 \in T
  <2>1. 0 \in 0 .. n /\ after[0] = b
    BY <1>8
  <2>2. PageEntries(s, 0) = {} /\ 2 * 0 = 0
    BY DEF PageEntries
  <2>3. QED
    BY <1>9, <2>1, <2>2, GrownNothing
<1>11. ASSUME NEW i \in 1 .. n, i - 1 \in T PROVE i \in T
  <2> DEFINE x == after[i - 1]
             new == {PageEntry(s + 2 * i - 1, i), StreamEntry(s + 2 * i, i)}
  <2>1. i \in 0 .. n /\ i - 1 \in 0 .. n /\ i # 0 /\ i \in 1 .. Len(docPages)
    BY <1>2
  <2>2. after[i] = PutPage(x, i)
    BY <1>8, <2>1
  <2>3. Grown(b, x, 2 * (i - 1), PageEntries(s, i - 1), d) /\ x.fonts = b.fonts
        /\ x.images = b.images
    BY <1>11
  <2> HIDE DEF x, T
  <2>4. x \in S /\ x.number = s + 2 * (i - 1)
    <3>1. 2 * (i - 1) \in Nat
      BY <2>1
    <3>2. QED
      BY <2>3, <3>1, SoundGrown DEF S, Grown
  <2>5. x.number + 1 = s + 2 * i - 1 /\ x.number + 2 = s + 2 * i
    BY <1>9, <2>4
  <2>6. Grown(x, after[i], 2, {PageEntry(x.number + 1, i), StreamEntry(x.number + 2, i)}, d)
        /\ after[i].fonts = x.fonts /\ after[i].images = x.images
    BY <2>1, <2>2, <2>4, PutPageFacts DEF S
  <2>7. Grown(x, after[i], 2, new, d)
    BY <2>5, <2>6
  <2>8. PageEntries(s, i) = PageEntries(s, i - 1) \cup new
    <3>1. 1 .. i = (1 .. i - 1) \cup {i}
      OBVIOUS
    <3>2. QED
      BY <3>1, Zenon DEF PageEntries
  <2> HIDE DEF new
  <2>9. Grown(b, after[i], 2 * (i - 1) + 2, PageEntries(s, i - 1) \cup new, d)
    <3>1. 2 * (i - 1) \in Nat
      BY <2>1
    <3>2. QED
      BY <1>9, <2>3, <2>7, <3>1, GrownOn
  <2>10. 2 * (i - 1) + 2 = 2 * i
    OBVIOUS
  <2>11. QED
    BY <2>1, <2>3, <2>6, <2>8, <2>9, <2>10 DEF T
<1> HIDE DEF T
<1>12. n \in T
  BY <1>10, <1>11, LoopInduction
<1>13. QED
  BY <1>1, <1>12 DEF T

FontEntry(k, f) == Entry(k, "font", {}, f)
FontEntries(s, i) == {FontEntry(s + f, f) : f \in 1 .. i}

(* What a build notes of a font or an image leaves the file as it is.      *)
LEMMA NotedFacts ==
  ASSUME NEW x, NEW c, NEW b, NEW k, NEW E, NEW d, Grown(b, x, k, E, d), c \in Builds,
         c.content = x.content, c.length = x.length, c.number = x.number,
         c.offsets = x.offsets
  PROVE  Grown(b, c, k, E, d)
<1>1. Located(c, d)
  BY DEF Grown, Located
<1>2. InFile(c) = InFile(x)
  BY DEF InFile
<1>3. QED
  BY <1>1, <1>2 DEF Grown

FontPut(b, c, f, d) ==
  /\ Grown(b, c, 1, {FontEntry(b.number + 1, f)}, d)
  /\ c.images = b.images
  /\ \A i \in 1 .. FontCount : c.fonts[i] = IF i = f THEN b.number + 1 ELSE b.fonts[i]

LEMMA PutFontFacts ==
  ASSUME DocumentOK, NEW d \in Nat, NEW b \in Sound(d), NEW f \in 1 .. FontCount
  PROVE  FontPut(b, PutFont(b, f), f, d)
<1> DEFINE s == b.number
           put == PutObject(b, "font", {}, f)
           c == [put EXCEPT !.fonts[f] = put.number]
<1>1. Located(b, d) /\ Fresh(b) /\ s \in Nat /\ b.fonts \in [1 .. FontCount -> Nat]
  BY SoundFacts DEF Builds
<1>2. "font" \in Kinds /\ {} \in Refs /\ f \in Data
  BY KindFacts, RefFacts, DataFacts DEF DocumentOK
<1>3. PutFont(b, f) = c
  BY Zenon DEF PutFont
<1>4. Grown(b, put, 1, {Entry(s + 1, "font", {}, f)}, d)
      /\ put.fonts = b.fonts /\ put.images = b.images
  BY <1>1, <1>2, PutObjectFacts
<1> HIDE DEF put
<1>5. put \in Builds /\ put.number = s + 1
  BY <1>4 DEF Grown, Located
<1>6. /\ c \in Builds
      /\ c.content = put.content /\ c.length = put.length /\ c.number = put.number
      /\ c.offsets = put.offsets /\ c.images = put.images
      /\ c.fonts = [put.fonts EXCEPT ![f] = put.number]
  BY <1>1, <1>5 DEF Builds
<1> HIDE DEF c
<1>7. Grown(b, c, 1, {Entry(s + 1, "font", {}, f)}, d)
  BY <1>4, <1>6, NotedFacts, Zenon
<1>8. QED
  BY <1>1, <1>3, <1>4, <1>5, <1>6, <1>7 DEF FontEntry, FontPut

LEMMA FontsLoop ==
  ASSUME DocumentOK, NEW d \in Nat, NEW b \in Sound(d), NEW n \in Nat, n <= FontCount
  PROVE  LET c == Loop(PutFont, b, n)
         IN  /\ Grown(b, c, n, FontEntries(b.number, n), d)
             /\ c.images = b.images
             /\ \A f \in 1 .. n : c.fonts[f] = b.number + f
<1> DEFINE S == Sound(d)
           g == [x \in S \X (1 .. n) |-> PutFont(x[1], x[2])]
           after[i \in 0 .. n] == IF i = 0 THEN b ELSE PutFont(after[i - 1], i)
           s == b.number
<1>1. Loop(PutFont, b, n) = after[n]
  BY Zenon DEF Loop
<1>2. FontCount \in Nat /\ \A i \in 1 .. n : i \in 1 .. FontCount
  BY DEF DocumentOK
<1>3. ASSUME NEW x \in S, NEW i \in 1 .. n PROVE PutFont(x, i) \in S
  <2>1. Grown(x, PutFont(x, i), 1, {FontEntry(x.number + 1, i)}, d)
    BY <1>2, PutFontFacts DEF FontPut
  <2>2. QED
    BY <2>1, SoundGrown
<1> HIDE DEF S
<1>4. g \in [S \X (1 .. n) -> S]
  BY <1>3
<1>5. \A x \in S, i \in 1 .. n : g[<<x, i>>] = PutFont(x, i)
  OBVIOUS
<1> HIDE DEF g
<1>6. PICK h : IsLoop(h, S, b, n, g)
  BY <1>4, LoopExists DEF S
<1>7. h = [i \in 0 .. n |-> IF i = 0 THEN b ELSE PutFont(h[i - 1], i)]
  <2>1. ASSUME NEW i \in 0 .. n, i # 0 PROVE g[<<h[i - 1], i>>] = PutFont(h[i - 1], i)
    <3>1. i \in 1 .. n /\ i - 1 \in 0 .. n
      BY <2>1
    <3>2. QED
      BY <1>5, <1>6, <3>1 DEF IsLoop
  <2>2. QED
    BY <1>6, <2>1 DEF IsLoop
<1>8. after = [i \in 0 .. n |-> IF i = 0 THEN b ELSE PutFont(after[i - 1], i)]
  BY <1>7, Zenon
<1> HIDE DEF after
<1> DEFINE T == {i \in 0 .. n : /\ Grown(b, after[i], i, FontEntries(s, i), d)
                                /\ after[i].images = b.images
                                /\ \A f \in 1 .. i : after[i].fonts[f] = s + f}
<1>9. s \in Nat /\ Located(b, d) /\ b \in S
  BY SoundFacts DEF S
<1>10. 0 \in T
  <2>1. 0 \in 0 .. n /\ after[0] = b /\ 1 .. 0 = {}
    BY <1>8
  <2>2. FontEntries(s, 0) = {}
    BY DEF FontEntries
  <2>3. QED
    BY <1>9, <2>1, <2>2, GrownNothing
<1>11. ASSUME NEW i \in 1 .. n, i - 1 \in T PROVE i \in T
  <2> DEFINE x == after[i - 1]
             new == {FontEntry(s + i, i)}
  <2>1. i \in 0 .. n /\ i - 1 \in 0 .. n /\ i # 0 /\ i \in 1 .. FontCount
    BY <1>2
  <2>2. after[i] = PutFont(x, i)
    BY <1>8, <2>1
  <2>3. Grown(b, x, i - 1, FontEntries(s, i - 1), d)
        /\ x.images = b.images /\ \A f \in 1 .. i - 1 : x.fonts[f] = s + f
    BY <1>11
  <2> HIDE DEF x, T
  <2>4. x \in S /\ x.number = s + (i - 1)
    <3>1. i - 1 \in Nat
      BY <2>1
    <3>2. x \in S
      BY <2>3, <3>1, SoundGrown, Zenon DEF S
    <3>3. QED
      BY <2>3, <3>2, Zenon DEF Grown
  <2>5. x.number + 1 = s + i
    BY <1>9, <2>4
  <2>6. Grown(x, after[i], 1, {FontEntry(x.number + 1, i)}, d) /\ after[i].images = x.images
        /\ \A f \in 1 .. FontCount :
             after[i].fonts[f] = IF f = i THEN x.number + 1 ELSE x.fonts[f]
    <3>1. i \in 1 .. FontCount /\ x \in Sound(d)
      BY <2>1, <2>4 DEF S
    <3>2. FontPut(x, after[i], i, d)
      BY <2>2, <3>1, PutFontFacts, Zenon
    <3>3. QED
      BY <3>2, Zenon DEF FontPut
  <2>7. Grown(x, after[i], 1, new, d)
    BY <2>5, <2>6
  <2>8. FontEntries(s, i) = FontEntries(s, i - 1) \cup new
    <3>1. 1 .. i = (1 .. i - 1) \cup {i}
      OBVIOUS
    <3>2. QED
      BY <3>1, Zenon DEF FontEntries
  <2> HIDE DEF new
  <2>9. Grown(b, after[i], (i - 1) + 1, FontEntries(s, i - 1) \cup new, d)
    <3>1. i - 1 \in Nat
      BY <2>1
    <3>2. QED
      BY <1>9, <2>3, <2>7, <3>1, GrownOn, Zenon
  <2>10. (i - 1) + 1 = i
    OBVIOUS
  <2>11. ASSUME NEW f \in 1 .. i PROVE after[i].fonts[f] = s + f
    <3>1. f \in 1 .. FontCount /\ (f = i \/ f \in 1 .. i - 1)
      BY <1>2
    <3>2. QED
      BY <2>3, <2>5, <2>6, <3>1
  <2>12. QED
    BY <2>1, <2>3, <2>6, <2>8, <2>9, <2>10, <2>11 DEF T
<1> HIDE DEF T
<1>12. n \in T
  BY <1>10, <1>11, LoopInduction
<1>13. QED
  BY <1>1, <1>12 DEF T

ImageEntry(k, i) == Entry(k, "image", {}, i)
ImageEntries(s, n) == {ImageEntry(s + i, i) : i \in 1 .. n}

ImagePut(b, c, f, d) ==
  /\ Grown(b, c, 1, {ImageEntry(b.number + 1, f)}, d)
  /\ c.fonts = b.fonts
  /\ \A i \in 1 .. Len(images) : c.images[i] = IF i = f THEN b.number + 1 ELSE b.images[i]

LEMMA PutImageFacts ==
  ASSUME DocumentOK, NEW d \in Nat, NEW b \in Sound(d), NEW f \in 1 .. Len(images)
  PROVE  ImagePut(b, PutImage(b, f), f, d)
<1> DEFINE s == b.number
           put == PutObject(b, "image", {}, f)
           c == [put EXCEPT !.images[f] = put.number]
<1>1. Located(b, d) /\ Fresh(b) /\ s \in Nat /\ b.images \in [1 .. Len(images) -> Nat]
  BY SoundFacts DEF Builds
<1>2. "image" \in Kinds /\ {} \in Refs /\ f \in Data
  BY KindFacts, RefFacts, DataFacts DEF DocumentOK
<1>3. PutImage(b, f) = c
  BY Zenon DEF PutImage
<1>4. Grown(b, put, 1, {Entry(s + 1, "image", {}, f)}, d)
      /\ put.images = b.images /\ put.fonts = b.fonts
  BY <1>1, <1>2, PutObjectFacts
<1> HIDE DEF put
<1>5. put \in Builds /\ put.number = s + 1
  BY <1>4 DEF Grown, Located
<1>6. /\ c \in Builds
      /\ c.content = put.content /\ c.length = put.length /\ c.number = put.number
      /\ c.offsets = put.offsets /\ c.fonts = put.fonts
      /\ c.images = [put.images EXCEPT ![f] = put.number]
  BY <1>1, <1>5 DEF Builds
<1> HIDE DEF c
<1>7. Grown(b, c, 1, {Entry(s + 1, "image", {}, f)}, d)
  BY <1>4, <1>6, NotedFacts, Zenon
<1>8. QED
  BY <1>1, <1>3, <1>4, <1>5, <1>6, <1>7 DEF ImageEntry, ImagePut

LEMMA ImagesLoop ==
  ASSUME DocumentOK, NEW d \in Nat, NEW b \in Sound(d), NEW n \in Nat, n <= Len(images)
  PROVE  LET c == Loop(PutImage, b, n)
         IN  /\ Grown(b, c, n, ImageEntries(b.number, n), d)
             /\ c.fonts = b.fonts
             /\ \A f \in 1 .. n : c.images[f] = b.number + f
<1> DEFINE S == Sound(d)
           g == [x \in S \X (1 .. n) |-> PutImage(x[1], x[2])]
           after[i \in 0 .. n] == IF i = 0 THEN b ELSE PutImage(after[i - 1], i)
           s == b.number
<1>1. Loop(PutImage, b, n) = after[n]
  BY Zenon DEF Loop
<1>2. Len(images) \in Nat /\ \A i \in 1 .. n : i \in 1 .. Len(images)
  BY DEF DocumentOK
<1>3. ASSUME NEW x \in S, NEW i \in 1 .. n PROVE PutImage(x, i) \in S
  <2>1. Grown(x, PutImage(x, i), 1, {ImageEntry(x.number + 1, i)}, d)
    BY <1>2, PutImageFacts DEF ImagePut
  <2>2. QED
    BY <2>1, SoundGrown
<1> HIDE DEF S
<1>4. g \in [S \X (1 .. n) -> S]
  BY <1>3
<1>5. \A x \in S, i \in 1 .. n : g[<<x, i>>] = PutImage(x, i)
  OBVIOUS
<1> HIDE DEF g
<1>6. PICK h : IsLoop(h, S, b, n, g)
  BY <1>4, LoopExists DEF S
<1>7. h = [i \in 0 .. n |-> IF i = 0 THEN b ELSE PutImage(h[i - 1], i)]
  <2>1. ASSUME NEW i \in 0 .. n, i # 0 PROVE g[<<h[i - 1], i>>] = PutImage(h[i - 1], i)
    <3>1. i \in 1 .. n /\ i - 1 \in 0 .. n
      BY <2>1
    <3>2. QED
      BY <1>5, <1>6, <3>1 DEF IsLoop
  <2>2. QED
    BY <1>6, <2>1 DEF IsLoop
<1>8. after = [i \in 0 .. n |-> IF i = 0 THEN b ELSE PutImage(after[i - 1], i)]
  BY <1>7, Zenon
<1> HIDE DEF after
<1> DEFINE T == {i \in 0 .. n : /\ Grown(b, after[i], i, ImageEntries(s, i), d)
                                /\ after[i].fonts = b.fonts
                                /\ \A f \in 1 .. i : after[i].images[f] = s + f}
<1>9. s \in Nat /\ Located(b, d) /\ b \in S
  BY SoundFacts DEF S
<1>10. 0 \in T
  <2>1. 0 \in 0 .. n /\ after[0] = b /\ 1 .. 0 = {}
    BY <1>8
  <2>2. ImageEntries(s, 0) = {}
    BY DEF ImageEntries
  <2>3. QED
    BY <1>9, <2>1, <2>2, GrownNothing
<1>11. ASSUME NEW i \in 1 .. n, i - 1 \in T PROVE i \in T
  <2> DEFINE x == after[i - 1]
             new == {ImageEntry(s + i, i)}
  <2>1. i \in 0 .. n /\ i - 1 \in 0 .. n /\ i # 0 /\ i \in 1 .. Len(images)
    BY <1>2
  <2>2. after[i] = PutImage(x, i)
    BY <1>8, <2>1
  <2>3. Grown(b, x, i - 1, ImageEntries(s, i - 1), d)
        /\ x.fonts = b.fonts /\ \A f \in 1 .. i - 1 : x.images[f] = s + f
    BY <1>11
  <2> HIDE DEF x, T
  <2>4. x \in S /\ x.number = s + (i - 1)
    <3>1. i - 1 \in Nat
      BY <2>1
    <3>2. x \in S
      BY <2>3, <3>1, SoundGrown, Zenon DEF S
    <3>3. QED
      BY <2>3, <3>2, Zenon DEF Grown
  <2>5. x.number + 1 = s + i
    BY <1>9, <2>4
  <2>6. Grown(x, after[i], 1, {ImageEntry(x.number + 1, i)}, d) /\ after[i].fonts = x.fonts
        /\ \A f \in 1 .. Len(images) :
             after[i].images[f] = IF f = i THEN x.number + 1 ELSE x.images[f]
    <3>1. i \in 1 .. Len(images) /\ x \in Sound(d)
      BY <2>1, <2>4 DEF S
    <3>2. ImagePut(x, after[i], i, d)
      BY <2>2, <3>1, PutImageFacts, Zenon
    <3>3. QED
      BY <3>2, Zenon DEF ImagePut
  <2>7. Grown(x, after[i], 1, new, d)
    BY <2>5, <2>6
  <2>8. ImageEntries(s, i) = ImageEntries(s, i - 1) \cup new
    <3>1. 1 .. i = (1 .. i - 1) \cup {i}
      OBVIOUS
    <3>2. QED
      BY <3>1, Zenon DEF ImageEntries
  <2> HIDE DEF new
  <2>9. Grown(b, after[i], (i - 1) + 1, ImageEntries(s, i - 1) \cup new, d)
    <3>1. i - 1 \in Nat
      BY <2>1
    <3>2. QED
      BY <1>9, <2>3, <2>7, <3>1, GrownOn, Zenon
  <2>10. (i - 1) + 1 = i
    OBVIOUS
  <2>11. ASSUME NEW f \in 1 .. i PROVE after[i].images[f] = s + f
    <3>1. f \in 1 .. Len(images) /\ (f = i \/ f \in 1 .. i - 1)
      BY <1>2
    <3>2. QED
      BY <2>3, <2>5, <2>6, <3>1
  <2>12. QED
    BY <2>1, <2>3, <2>6, <2>8, <2>9, <2>10, <2>11 DEF T
<1> HIDE DEF T
<1>12. n \in T
  BY <1>10, <1>11, LoopInduction
<1>13. QED
  BY <1>1, <1>12 DEF T

-----------------------------------------------------------------------------
(* The body of a file                                                      *)

PageCount == Len(docPages)
ImageCount == IF hooked THEN Len(images) ELSE 0
AfterPages == objectNumber + 2 * PageCount
AfterFonts == AfterPages + FontCount
AfterImages == AfterFonts + ImageCount

HeaderEntry == Entry(0, "header", {}, 0)
PagesEntry == Entry(1, "pages", {<<"page", 3 + 2 * i>> : i \in 0 .. PageCount - 1}, PageCount)
Names == [i \in 1 .. ImageCount |-> AfterFonts + i]
ResourcesEntry ==
  Entry(2, "resources", {<<"font", AfterPages + i>> : i \in 1 .. FontCount}
                          \cup {<<"image", Names[i]>> : i \in 1 .. ImageCount}, Names)
InfoEntry == Entry(AfterImages + 1, "info", {}, 0)
CatalogEntry == Entry(AfterImages + 2, "catalog", {<<"pages", 1>>, <<"page", 3>>}, 0)

(* A build so far: its last number, the numbers with offsets, its entries. *)
Stage(b, n, D, E) ==
  /\ Located(b, contentLength) /\ b.number = n /\ DOMAIN b.offsets = D /\ InFile(b) = E

FileOK ==
  /\ DocumentOK /\ contentLength \in Nat /\ objectNumber \in Nat \ {0, 1}
  /\ hooked \in BOOLEAN

LEMMA CountFacts ==
  ASSUME FileOK
  PROVE  /\ PageCount \in Nat /\ ImageCount \in Nat /\ FontCount \in Nat
         /\ AfterPages \in Nat /\ AfterPages = objectNumber + 2 * PageCount
         /\ AfterFonts \in Nat /\ AfterFonts = AfterPages + FontCount
         /\ AfterImages \in Nat /\ AfterImages = AfterFonts + ImageCount
         /\ objectNumber \in Nat /\ objectNumber >= 2 /\ contentLength \in Nat
<1>1. PageCount \in Nat
  BY DEF FileOK, DocumentOK, PageCount
<1>2. ImageCount \in Nat
  BY DEF FileOK, DocumentOK, ImageCount
<1>3. FontCount \in Nat /\ objectNumber \in Nat \ {0, 1} /\ contentLength \in Nat
  BY DEF FileOK, DocumentOK
<1>4. AfterPages = objectNumber + 2 * PageCount /\ AfterFonts = AfterPages + FontCount
      /\ AfterImages = AfterFonts + ImageCount
  BY DEF AfterPages, AfterFonts, AfterImages
<1>5. QED
  BY <1>1, <1>2, <1>3, <1>4

EmptyBuild == [content |-> <<>>, length |-> contentLength, number |-> objectNumber,
               offsets |-> <<>>, fonts |-> fonts, images |-> images]

LEMMA HeaderStage ==
  ASSUME FileOK
  PROVE  LET b == Put(EmptyBuild, HeaderEntry)
         IN  Stage(b, objectNumber, {}, {HeaderEntry}) /\ b.images = images
<1>1. EmptyBuild \in Builds
  <2>1. <<>> \in Offsets /\ <<>> \in Seq(Entries)
    <3>1. <<>> \in Seq(Nat) /\ <<>> \in Seq(Entries)
      OBVIOUS
    <3>2. QED
      BY <3>1, SeqIsOffsets, Zenon
  <2>2. images \in [1 .. Len(images) -> Nat]
    BY DEF FileOK, DocumentOK
  <2>3. QED
    BY <2>1, <2>2 DEF EmptyBuild, Builds, FileOK, DocumentOK
<1>2. /\ EmptyBuild.content = <<>> /\ EmptyBuild.length = contentLength
      /\ EmptyBuild.offsets = <<>> /\ EmptyBuild.number = objectNumber
      /\ EmptyBuild.images = images
  BY DEF EmptyBuild
<1>3. Len(EmptyBuild.content) = 0 /\ DOMAIN EmptyBuild.offsets = {} /\ 1 .. 0 = {}
  BY <1>2
<1>4. Located(EmptyBuild, contentLength) /\ InFile(EmptyBuild) = {}
  BY <1>1, <1>2, <1>3 DEF Located, InFile, FileOK
<1>5. HeaderEntry \in Entries /\ HeaderEntry.obj = 0
  <2>1. "header" \in Kinds /\ {} \in Refs /\ 0 \in Data
    BY DataFacts DEF Kinds, Refs
  <2>2. QED
    BY <2>1, EntryFacts DEF HeaderEntry
<1> DEFINE b == Put(EmptyBuild, HeaderEntry)
<1>6. Grown(EmptyBuild, b, 0, {HeaderEntry}, contentLength) /\ b.offsets = EmptyBuild.offsets
      /\ b.images = EmptyBuild.images
  BY <1>4, <1>5, PutFacts DEF FileOK
<1> HIDE DEF b
<1>7. b.number = objectNumber
  BY <1>2, <1>6 DEF Grown, FileOK
<1>8. Stage(b, objectNumber, {}, {HeaderEntry})
  BY <1>3, <1>4, <1>6, <1>7 DEF Stage, Grown
<1>9. QED
  BY <1>2, <1>6, <1>8 DEF b

LEMMA StageSound ==
  ASSUME FileOK, NEW b, NEW n \in Nat, NEW D, NEW E, Stage(b, n, D, E), D \subseteq 1 .. n
  PROVE  b \in Sound(contentLength)
BY DEF Stage, Sound, Fresh, Located

LEMMA StageGrown ==
  ASSUME FileOK, NEW b, NEW c, NEW n \in Nat, NEW D, NEW E, Stage(b, n, D, E),
         NEW k \in Nat, NEW F, Grown(b, c, k, F, contentLength)
  PROVE  Stage(c, n + k, D \cup (n + 1 .. n + k), E \cup F)
BY DEF Stage, Grown

LEMMA StagePlaced ==
  ASSUME FileOK, NEW b, NEW c, NEW n, NEW D, NEW E, Stage(b, n, D, E),
         NEW m, NEW e, Placed(b, c, contentLength, b.number, m, e)
  PROVE  Stage(c, n, D \cup {m}, E \cup {e}) /\ c.fonts = b.fonts /\ c.images = b.images
BY DEF Stage, Placed, Joined

AfterPutPages == {HeaderEntry} \cup PageEntries(objectNumber, PageCount) \cup {PagesEntry}

LEMMA PagesStage ==
  ASSUME FileOK, NEW b, Stage(b, objectNumber, {}, {HeaderEntry})
  PROVE  LET c == PutPages(b)
         IN  /\ Stage(c, AfterPages, {1} \cup (objectNumber + 1 .. AfterPages), AfterPutPages)
             /\ c.images = b.images
<1> DEFINE all == Loop(PutPage, b, Len(docPages))
           kids == {<<"page", 3 + 2 * i>> : i \in 0 .. Len(docPages) - 1}
           c == PutFixed(all, 1, "pages", kids, Len(docPages))
<1>1. PutPages(b) = c
  BY Zenon DEF PutPages
<1>2. objectNumber \in Nat /\ PageCount \in Nat /\ AfterPages = objectNumber + 2 * PageCount
      /\ AfterPages \in Nat /\ objectNumber >= 2 /\ contentLength \in Nat /\ DocumentOK
  BY CountFacts DEF FileOK
<1>3. b \in Sound(contentLength) /\ b.number = objectNumber
  BY <1>2, StageSound DEF Stage
<1>4. Grown(b, all, 2 * PageCount, PageEntries(b.number, PageCount), contentLength)
      /\ all.images = b.images
  BY <1>2, <1>3, PagesLoop DEF PageCount
<1> HIDE DEF all
<1>5. Stage(all, objectNumber + 2 * PageCount,
            {} \cup (objectNumber + 1 .. objectNumber + 2 * PageCount),
            {HeaderEntry} \cup PageEntries(objectNumber, PageCount))
  <2>1. 2 * PageCount \in Nat
    BY <1>2
  <2>2. QED
    BY <1>2, <1>3, <1>4, <2>1, StageGrown
<1>6. Stage(all, AfterPages, objectNumber + 1 .. AfterPages,
            {HeaderEntry} \cup PageEntries(objectNumber, PageCount))
  BY <1>2, <1>5
<1>7. 1 \notin DOMAIN all.offsets /\ Located(all, contentLength)
  BY <1>2, <1>6 DEF Stage
<1>8. kids \in Refs /\ "pages" \in Kinds /\ Len(docPages) \in Data
  BY <1>2, DataFacts DEF Refs, Kinds, PageCount
<1>9. Entry(1, "pages", kids, Len(docPages)) = PagesEntry
  BY Zenon DEF PagesEntry, PageCount
<1> HIDE DEF kids
<1>10. Placed(all, c, contentLength, all.number, 1, PagesEntry)
  BY <1>2, <1>7, <1>8, <1>9, PutFixedFacts
<1> HIDE DEF c
<1>11. Stage(c, AfterPages, (objectNumber + 1 .. AfterPages) \cup {1}, AfterPutPages)
       /\ c.images = all.images
  BY <1>6, <1>10, StagePlaced DEF AfterPutPages
<1>12. (objectNumber + 1 .. AfterPages) \cup {1} = {1} \cup (objectNumber + 1 .. AfterPages)
  OBVIOUS
<1>13. QED
  BY <1>1, <1>4, <1>11, <1>12

AfterPutResources ==
  AfterPutPages \cup FontEntries(AfterPages, FontCount)
    \cup ImageEntries(AfterFonts, ImageCount) \cup {ResourcesEntry}

LEMMA ResourcesStage ==
  ASSUME FileOK, NEW b, b.images = images,
         Stage(b, AfterPages, {1} \cup (objectNumber + 1 .. AfterPages), AfterPutPages)
  PROVE  Stage(PutResources(b), AfterImages, {1, 2} \cup (objectNumber + 1 .. AfterImages),
               AfterPutResources)
<1> DEFINE withFonts == Loop(PutFont, b, FontCount)
           all == IF hooked THEN Loop(PutImage, withFonts, Len(images)) ELSE withFonts
           named == IF hooked THEN all.images ELSE <<>>
           refs == {<<"font", all.fonts[i]>> : i \in 1 .. FontCount}
                     \cup {<<"image", named[i]>> : i \in DOMAIN named}
           c == PutFixed(all, 2, "resources", refs, named)
<1>1. PutResources(b) = c
  BY Zenon DEF PutResources
<1>2. /\ objectNumber \in Nat /\ objectNumber >= 2 /\ contentLength \in Nat
      /\ AfterPages \in Nat /\ AfterPages >= objectNumber
      /\ FontCount \in Nat /\ AfterFonts = AfterPages + FontCount /\ AfterFonts \in Nat
      /\ ImageCount \in Nat /\ AfterImages = AfterFonts + ImageCount /\ AfterImages \in Nat
      /\ DocumentOK /\ hooked \in BOOLEAN
  BY CountFacts DEF FileOK
<1>3. b \in Sound(contentLength) /\ b.number = AfterPages
  <2>1. {1} \cup (objectNumber + 1 .. AfterPages) \subseteq 1 .. AfterPages
    BY <1>2
  <2>2. QED
    BY <1>2, <2>1, StageSound DEF Stage
<1>4. /\ Grown(b, withFonts, FontCount, FontEntries(b.number, FontCount), contentLength)
      /\ withFonts.images = b.images
      /\ \A f \in 1 .. FontCount : withFonts.fonts[f] = b.number + f
  BY <1>2, <1>3, FontsLoop
<1> HIDE DEF withFonts
<1>5. withFonts \in Sound(contentLength) /\ withFonts.number = AfterFonts
  <2>1. withFonts \in Sound(contentLength)
    BY <1>2, <1>3, <1>4, SoundGrown
  <2>2. QED
    BY <1>2, <1>3, <1>4, <2>1 DEF Grown
<1>6. /\ Grown(withFonts, all, ImageCount, ImageEntries(AfterFonts, ImageCount), contentLength)
      /\ \A f \in 1 .. FontCount : all.fonts[f] = AfterPages + f
      /\ \A i \in 1 .. ImageCount : all.images[i] = AfterFonts + i
  <2>1. CASE hooked
    <3> DEFINE last == Loop(PutImage, withFonts, Len(images))
    <3>1. ImageCount = Len(images) /\ all = last /\ Len(images) \in Nat
      BY <2>1 DEF ImageCount, FileOK, DocumentOK
    <3>2. /\ Grown(withFonts, last, Len(images),
                   ImageEntries(withFonts.number, Len(images)), contentLength)
          /\ last.fonts = withFonts.fonts
          /\ \A i \in 1 .. Len(images) : last.images[i] = withFonts.number + i
      BY <1>2, <1>5, <3>1, ImagesLoop
    <3> HIDE DEF last
    <3>3. QED
      BY <1>3, <1>4, <1>5, <3>1, <3>2
  <2>2. CASE ~hooked
    <3>1. ImageCount = 0 /\ all = withFonts /\ 1 .. 0 = {}
      BY <2>2 DEF ImageCount
    <3>2. Grown(withFonts, withFonts, 0, {}, contentLength)
      BY <1>5, GrownNothing, SoundFacts
    <3>3. ImageEntries(AfterFonts, 0) = {}
      BY DEF ImageEntries
    <3>4. QED
      BY <1>3, <1>4, <3>1, <3>2, <3>3
  <2>3. QED
    BY <1>2, <2>1, <2>2
<1>7. named = Names /\ DOMAIN Names = 1 .. ImageCount
      /\ \A i \in 1 .. ImageCount : Names[i] = AfterFonts + i
  <2>1. CASE hooked
    <3>1. all \in Sound(contentLength)
      BY <1>2, <1>5, <1>6, SoundGrown
    <3>2. all.images \in [1 .. Len(images) -> Nat]
      BY <3>1, SoundFacts DEF Builds
    <3>3. ImageCount = Len(images) /\ named = all.images
      BY <2>1 DEF ImageCount
    <3> HIDE DEF all, named
    <3>4. QED
      BY <1>6, <3>2, <3>3 DEF Names
  <2>2. CASE ~hooked
    <3>1. ImageCount = 0 /\ named = <<>> /\ 1 .. 0 = {}
      BY <2>2 DEF ImageCount
    <3> HIDE DEF all, named
    <3>2. QED
      BY <3>1 DEF Names
  <2>3. QED
    BY <1>2, <2>1, <2>2
<1> HIDE DEF all, named
<1>8. Stage(all, AfterImages, {1} \cup (objectNumber + 1 .. AfterImages),
            AfterPutPages \cup FontEntries(AfterPages, FontCount)
              \cup ImageEntries(AfterFonts, ImageCount))
  <2>1. Stage(withFonts, AfterPages + FontCount,
              ({1} \cup (objectNumber + 1 .. AfterPages))
                \cup (AfterPages + 1 .. AfterPages + FontCount),
              AfterPutPages \cup FontEntries(AfterPages, FontCount))
    BY <1>2, <1>3, <1>4, StageGrown
  <2>2. ({1} \cup (objectNumber + 1 .. AfterPages))
          \cup (AfterPages + 1 .. AfterPages + FontCount)
        = {1} \cup (objectNumber + 1 .. AfterFonts)
    BY <1>2
  <2>3. Stage(withFonts, AfterFonts, {1} \cup (objectNumber + 1 .. AfterFonts),
              AfterPutPages \cup FontEntries(AfterPages, FontCount))
    BY <1>2, <2>1, <2>2
  <2>4. Stage(all, AfterFonts + ImageCount,
              ({1} \cup (objectNumber + 1 .. AfterFonts))
                \cup (AfterFonts + 1 .. AfterFonts + ImageCount),
              (AfterPutPages \cup FontEntries(AfterPages, FontCount))
                \cup ImageEntries(AfterFonts, ImageCount))
    BY <1>2, <1>6, <2>3, StageGrown
  <2>5. ({1} \cup (objectNumber + 1 .. AfterFonts))
          \cup (AfterFonts + 1 .. AfterFonts + ImageCount)
        = {1} \cup (objectNumber + 1 .. AfterImages)
    BY <1>2
  <2>6. QED
    BY <1>2, <2>4, <2>5
<1>9. 2 \notin DOMAIN all.offsets /\ Located(all, contentLength)
  BY <1>2, <1>8 DEF Stage
<1>10. /\ refs = {<<"font", AfterPages + i>> : i \in 1 .. FontCount}
                   \cup {<<"image", Names[i]>> : i \in 1 .. ImageCount}
       /\ refs \in Refs
  <2>1. refs = {<<"font", AfterPages + i>> : i \in 1 .. FontCount}
                 \cup {<<"image", Names[i]>> : i \in 1 .. ImageCount}
    BY <1>6, <1>7
  <2>2. \A i \in 1 .. FontCount : <<"font", AfterPages + i>> \in Kinds \X Nat
    BY <1>2 DEF Kinds
  <2>3. \A i \in 1 .. ImageCount : <<"image", Names[i]>> \in Kinds \X Nat
    BY <1>2, <1>7 DEF Kinds
  <2> HIDE DEF refs
  <2>4. refs \subseteq Kinds \X Nat
    BY <2>1, <2>2, <2>3
  <2>5. QED
    BY <2>1, <2>4 DEF Refs
<1>11. "resources" \in Kinds /\ named \in Data
  <2>1. Names \in [1 .. ImageCount -> Nat] /\ 1 .. ImageCount \in SUBSET Nat
    BY <1>2 DEF Names
  <2>2. Names \in Offsets
    BY <2>1, OffsetsFacts
  <2>3. QED
    BY <1>7, <2>2, DataFacts, KindFacts
<1>12. Entry(2, "resources", refs, named) = ResourcesEntry
  BY <1>7, <1>10, Zenon DEF ResourcesEntry
<1> HIDE DEF refs
<1>13. Placed(all, c, contentLength, all.number, 2, ResourcesEntry)
  BY <1>2, <1>9, <1>10, <1>11, <1>12, PutFixedFacts
<1> HIDE DEF c
<1>14. Stage(c, AfterImages, ({1} \cup (objectNumber + 1 .. AfterImages)) \cup {2},
             AfterPutResources)
  <2> DEFINE D == {1} \cup (objectNumber + 1 .. AfterImages)
             E == AfterPutPages \cup FontEntries(AfterPages, FontCount)
                    \cup ImageEntries(AfterFonts, ImageCount)
  <2>1. Stage(all, AfterImages, D, E)
    BY <1>8
  <2>2. AfterPutResources = E \cup {ResourcesEntry}
    BY DEF AfterPutResources
  <2> HIDE DEF D, E
  <2>3. Stage(c, AfterImages, D \cup {2}, E \cup {ResourcesEntry})
    BY <1>13, <2>1, StagePlaced
  <2>4. QED
    BY <2>2, <2>3 DEF D
<1>15. ({1} \cup (objectNumber + 1 .. AfterImages)) \cup {2}
         = {1, 2} \cup (objectNumber + 1 .. AfterImages)
  OBVIOUS
<1>16. QED
  BY <1>1, <1>14, <1>15

BodyEntries == AfterPutResources \cup {InfoEntry} \cup {CatalogEntry}

(* What a build writes up to the table.                                    *)
LEMMA BodyFacts ==
  ASSUME FileOK
  PROVE  Stage(Body, AfterImages + 2, {1, 2} \cup (objectNumber + 1 .. AfterImages + 2),
               BodyEntries)
<1> DEFINE header == Put(EmptyBuild, HeaderEntry)
           tree == PutPages(header)
           dict == PutResources(tree)
           info == PutInfo(dict)
           c == PutCatalog(info)
           n == AfterImages
<1>1. Body = c
  BY Zenon DEF Body, EmptyBuild, HeaderEntry
<1>2. n \in Nat /\ objectNumber \in Nat /\ objectNumber >= 2 /\ n >= objectNumber
      /\ contentLength \in Nat
  BY CountFacts
<1>3. Stage(header, objectNumber, {}, {HeaderEntry}) /\ header.images = images
  BY HeaderStage
<1> HIDE DEF header
<1>4. Stage(tree, AfterPages, {1} \cup (objectNumber + 1 .. AfterPages), AfterPutPages)
      /\ tree.images = images
  BY <1>3, PagesStage
<1> HIDE DEF tree
<1>5. Stage(dict, n, {1, 2} \cup (objectNumber + 1 .. n), AfterPutResources)
  BY <1>4, ResourcesStage
<1> HIDE DEF dict, n
<1>6. Located(dict, contentLength) /\ Fresh(dict) /\ dict.number = n
  <2>1. {1, 2} \cup (objectNumber + 1 .. n) \subseteq 1 .. n
    BY <1>2
  <2>2. dict \in Sound(contentLength)
    BY <1>2, <1>5, <2>1, StageSound
  <2>3. QED
    BY <1>5, <2>2, SoundFacts DEF Stage
<1>7. "info" \in Kinds /\ "catalog" \in Kinds /\ {} \in Refs /\ 0 \in Data
      /\ {<<"pages", 1>>, <<"page", 3>>} \in Refs
  BY KindFacts, DataFacts DEF Refs, Kinds
<1>8. Grown(dict, info, 1, {InfoEntry}, contentLength) /\ Fresh(info)
  <2>1. info = PutObject(dict, "info", {}, 0)
    BY Zenon DEF PutInfo
  <2> HIDE DEF info
  <2>2. Grown(dict, info, 1, {Entry(dict.number + 1, "info", {}, 0)}, contentLength)
        /\ Fresh(info)
    BY <1>2, <1>6, <1>7, <2>1, PutObjectFacts
  <2>3. QED
    BY <1>6, <2>2 DEF InfoEntry, n
<1> HIDE DEF info
<1>9. Located(info, contentLength) /\ info.number = n + 1
  BY <1>6, <1>8 DEF Grown
<1>10. Grown(info, c, 1, {CatalogEntry}, contentLength)
  <2>1. c = PutObject(info, "catalog", {<<"pages", 1>>, <<"page", 3>>}, 0)
    BY Zenon DEF PutCatalog
  <2> HIDE DEF c
  <2>2. Grown(info, c, 1, {Entry(info.number + 1, "catalog", {<<"pages", 1>>, <<"page", 3>>}, 0)},
              contentLength)
    BY <1>2, <1>7, <1>8, <1>9, <2>1, PutObjectFacts
  <2>3. info.number + 1 = n + 2
    BY <1>2, <1>9
  <2>4. QED
    BY <2>2, <2>3 DEF CatalogEntry, n
<1> HIDE DEF c
<1>11. Stage(info, n + 1, ({1, 2} \cup (objectNumber + 1 .. n)) \cup (n + 1 .. n + 1),
             AfterPutResources \cup {InfoEntry})
  BY <1>2, <1>5, <1>8, StageGrown
<1>12. Stage(c, n + 1 + 1, (({1, 2} \cup (objectNumber + 1 .. n)) \cup (n + 1 .. n + 1))
                             \cup (n + 1 + 1 .. n + 1 + 1), BodyEntries)
  <2>1. n + 1 \in Nat
    BY <1>2
  <2>2. QED
    BY <1>10, <1>11, <2>1, StageGrown DEF BodyEntries
<1>13. (({1, 2} \cup (objectNumber + 1 .. n)) \cup (n + 1 .. n + 1)) \cup (n + 1 + 1 .. n + 1 + 1)
         = {1, 2} \cup (objectNumber + 1 .. n + 2) /\ n + 1 + 1 = n + 2
  BY <1>2
<1>14. QED
  BY <1>1, <1>12, <1>13 DEF n

-----------------------------------------------------------------------------
(* The documents delivered                                                 *)

Readable == TableLocatesObjects /\ ReferencesResolve /\ DrawnImagesNamed

FileInv ==
  /\ FileTypeOK
  /\ content \in Seq(Entries) /\ contentLength \in Nat /\ offsets \in Offsets
  /\ asDrawn \in Seq(Seq(Nat))
  /\ images # <<>> => hooked
  /\ objectNumber = 2 => contentLength = 0 /\ docPages = asDrawn /\ outToPages
  /\ Readable

LEMMA ReadableKept ==
  ASSUME Readable, delivered' = delivered
  PROVE  Readable'
<1>1. Doc' = Doc
  BY DEF Doc
<1>2. TableLocatesObjects'
  BY <1>1, Zenon DEF Readable, TableLocatesObjects, Only, Found
<1>3. ReferencesResolve'
  <2> SUFFICES ASSUME NEW n \in DOMAIN Doc', NEW r \in Doc'[n].refs
               PROVE  Cardinality({m \in DOMAIN Doc' :
                                     Doc'[m].obj = r[2] /\ Doc'[m].kind = r[1]}) = 1
    BY DEF ReferencesResolve
  <2>1. n \in DOMAIN Doc /\ r \in Doc[n].refs
    BY <1>1
  <2>2. Cardinality({m \in DOMAIN Doc : Doc[m].obj = r[2] /\ Doc[m].kind = r[1]}) = 1
    BY <2>1 DEF Readable, ReferencesResolve
  <2>3. QED
    BY <1>1, <2>2
<1>4. DrawnImagesNamed'
  <2>1. Only("resources")' = Only("resources") /\ Found("stream")' = Found("stream")
        /\ Found("image")' = Found("image")
    BY <1>1, Zenon DEF Only, Found
  <2>2. QED
    BY <1>1, <2>1 DEF Readable, DrawnImagesNamed
<1>5. QED
  BY <1>2, <1>3, <1>4 DEF Readable

LEMMA FileFacts ==
  ASSUME FileInv
  PROVE  /\ FileOK
         /\ docPages \in Seq(Seq(0 .. Len(images))) /\ PageCount \in 1 .. MaxPages
         /\ images \in Seq(Nat) /\ Len(images) \in Nat
         /\ Len(asDrawn) = Len(docPages) /\ asDrawn \in Seq(Seq(Nat))
<1>1. docPages \in Seq(Seq(0 .. Len(images))) /\ images \in Seq(Nat) /\ Len(images) \in Nat
  BY DEF FileInv, FileTypeOK
<1>2. docPages \in Seq(Seq(Nat))
  <2>1. ASSUME NEW n \in 1 .. Len(docPages) PROVE docPages[n] \in Seq(Nat)
    <3>1. docPages[n] \in Seq(0 .. Len(images))
      BY <1>1
    <3>2. QED
      BY <1>1, <3>1
  <2>2. QED
    BY <1>1, <2>1
<1>3. FontCount \in Nat
  BY FileAssumption
<1>4. FileOK
  BY <1>1, <1>2, <1>3 DEF FileInv, FileTypeOK, FileOK, DocumentOK
<1>5. QED
  BY <1>1, <1>4 DEF FileInv, FileTypeOK, PageCount

LEMMA FileInitInv == FileInit => FileInv
<1> SUFFICES ASSUME FileInit PROVE FileInv
  OBVIOUS
<1>1. /\ docPages = << <<>> >> /\ images = <<>> /\ hooked = FALSE
      /\ fonts = [f \in 1 .. FontCount |-> 0] /\ content = <<>> /\ contentLength = 0
      /\ objectNumber = 2 /\ offsets = <<>> /\ outToPages = TRUE
      /\ delivered = <<>> /\ outputs = 0 /\ asDrawn = << <<>> >>
  BY DEF FileInit
<1>2. MaxPages \in Nat \ {0} /\ MaxOutputs \in Nat
  BY FileAssumption
<1>3. FileTypeOK
  <2>1. docPages \in Seq(Seq(0 .. Len(images))) /\ Len(docPages) = 1 /\ Len(asDrawn) = 1
        /\ images \in Seq(Nat)
    BY <1>1
  <2>2. Len(content) = 0 /\ DOMAIN offsets = {} /\ fonts \in [1 .. FontCount -> Nat]
    BY <1>1
  <2>3. /\ Len(docPages) \in 1 .. MaxPages /\ hooked \in BOOLEAN
        /\ objectNumber \in Nat \ {0, 1} /\ DOMAIN offsets \subseteq 1 .. objectNumber
        /\ Len(content) <= contentLength
        /\ outToPages \in BOOLEAN /\ outputs \in 0 .. MaxOutputs
        /\ Len(asDrawn) = Len(docPages)
    <3>1. Len(docPages) \in 1 .. MaxPages
      BY <1>2, <2>1
    <3>2. DOMAIN offsets \subseteq 1 .. objectNumber
      BY <2>2
    <3>3. Len(content) <= contentLength /\ objectNumber \in Nat \ {0, 1}
      BY <1>1, <2>2
    <3>4. hooked \in BOOLEAN /\ outToPages \in BOOLEAN
      BY <1>1
    <3>5. outputs \in 0 .. MaxOutputs
      BY <1>1, <1>2
    <3>6. QED
      BY <2>1, <3>1, <3>2, <3>3, <3>4, <3>5
  <2>4. QED
    BY <2>1, <2>2, <2>3 DEF FileTypeOK
<1>4. /\ content \in Seq(Entries) /\ contentLength \in Nat /\ asDrawn \in Seq(Seq(Nat))
      /\ offsets \in Seq(Nat)
  BY <1>1
<1>5. Readable
  BY <1>1 DEF Readable, TableLocatesObjects, ReferencesResolve, DrawnImagesNamed, Doc
<1>6. QED
  BY <1>1, <1>3, <1>4, <1>5, SeqIsOffsets DEF FileInv

(* Drawing leaves what was delivered, and writes to the page or astray.    *)
LEMMA OutInv ==
  ASSUME FileInv, NEW element \in Nat, NEW more \in BOOLEAN, Out(element),
         IF more THEN images' = Append(images, 0) /\ hooked' = TRUE /\ element = Len(images) + 1
         ELSE images' = images /\ hooked' = hooked /\ element = 0,
         objectNumber' = objectNumber, offsets' = offsets, fonts' = fonts,
         outToPages' = outToPages, delivered' = delivered, outputs' = outputs
  PROVE  FileInv'
<1>1. /\ docPages \in Seq(Seq(0 .. Len(images))) /\ Len(docPages) \in 1 .. MaxPages
      /\ images \in Seq(Nat) /\ Len(images) \in Nat
      /\ Len(asDrawn) = Len(docPages) /\ asDrawn \in Seq(Seq(Nat))
  BY FileFacts DEF PageCount
<1>2. images' \in Seq(Nat) /\ Len(images') \in Nat /\ Len(images) <= Len(images')
      /\ element \in 0 .. Len(images') /\ (images' # <<>> => hooked') /\ hooked' \in BOOLEAN
  <2>1. CASE more
    <3>1. images' = Append(images, 0) /\ hooked' = TRUE /\ element = Len(images) + 1
      BY <2>1
    <3>2. images' \in Seq(Nat) /\ Len(images') = Len(images) + 1
      BY <1>1, <3>1, AppendFacts
    <3>3. QED
      BY <1>1, <3>1, <3>2
  <2>2. CASE ~more
    BY <1>1, <2>2 DEF FileInv, FileTypeOK
  <2>3. QED
    BY <2>1, <2>2
<1> DEFINE last == Len(docPages)
<1>3. last \in 1 .. Len(docPages) /\ last \in 1 .. Len(asDrawn)
  BY <1>1
<1>4. asDrawn' = [asDrawn EXCEPT ![last] = Append(asDrawn[last], element)]
  BY <1>1 DEF Out
<1>5. asDrawn' \in Seq(Seq(Nat)) /\ Len(asDrawn') = Len(asDrawn)
  <2>1. Append(asDrawn[last], element) \in Seq(Nat)
    BY <1>1, <1>3, AppendFacts
  <2>2. QED
    BY <1>1, <1>3, <1>4, <2>1, ExceptSeq
<1>6. ASSUME NEW n \in 1 .. Len(docPages)
      PROVE  docPages[n] \in Seq(0 .. Len(images'))
  <2>1. docPages[n] \in Seq(0 .. Len(images))
    BY <1>1
  <2>2. 0 .. Len(images) \subseteq 0 .. Len(images')
    BY <1>1, <1>2
  <2>3. QED
    BY <2>1, <2>2
<1>7. docPages \in Seq(Seq(0 .. Len(images')))
  BY <1>1, <1>6
<1>8. /\ docPages' \in Seq(Seq(0 .. Len(images'))) /\ Len(docPages') = Len(docPages)
      /\ content' \in Seq(Entries) /\ contentLength' \in Nat
      /\ Len(content') <= contentLength'
      /\ objectNumber = 2 => contentLength' = 0 /\ docPages' = asDrawn'
  <2>1. /\ content \in Seq(Entries) /\ contentLength \in Nat /\ Len(content) <= contentLength
        /\ objectNumber = 2 => contentLength = 0 /\ docPages = asDrawn /\ outToPages
    BY DEF FileInv, FileTypeOK
  <2>2. CASE outToPages
    <3>1. /\ docPages' = [docPages EXCEPT ![last] = Append(docPages[last], element)]
          /\ content' = content /\ contentLength' = contentLength
      BY <2>2 DEF Out
    <3>2. Append(docPages[last], element) \in Seq(0 .. Len(images'))
      BY <1>2, <1>3, <1>6, AppendFacts
    <3>3. docPages' \in Seq(Seq(0 .. Len(images'))) /\ Len(docPages') = Len(docPages)
      BY <1>3, <1>7, <3>1, <3>2, ExceptSeq
    <3>4. docPages = asDrawn => docPages' = asDrawn'
      BY <1>4, <3>1
    <3>5. QED
      BY <2>1, <3>1, <3>3, <3>4
  <2>3. CASE ~outToPages
    <3> DEFINE e == Entry(0, "stray", {}, element)
    <3>1. /\ docPages' = docPages /\ contentLength' = contentLength + 1
          /\ content' = Append(content, e)
      BY <2>3 DEF Out
    <3>2. e \in Entries
      <4>1. "stray" \in Kinds /\ {} \in Refs /\ element \in Data
        BY DataFacts DEF Kinds, Refs
      <4>2. QED
        BY <4>1, EntryFacts
    <3> HIDE DEF e
    <3>3. content' \in Seq(Entries) /\ Len(content') = Len(content) + 1 /\ Len(content) \in Nat
      BY <2>1, <3>1, <3>2, AppendFacts
    <3>4. QED
      BY <1>7, <2>1, <2>3, <3>1, <3>3
  <2>4. QED
    BY <2>2, <2>3
<1>9. FileTypeOK'
  BY <1>1, <1>2, <1>5, <1>8 DEF FileInv, FileTypeOK
<1>10. Readable'
  BY ReadableKept DEF FileInv
<1>11. (objectNumber = 2 => contentLength = 0 /\ docPages = asDrawn /\ outToPages)'
  BY <1>8 DEF FileInv
<1>12. QED
  BY <1>2, <1>5, <1>8, <1>9, <1>10, <1>11 DEF FileInv

LEMMA DrawingInv ==
  ASSUME FileInv, DrawElement \/ AddImage \/ AddUnreadableImage \/ AppendPage
  PROVE  FileInv'
<1>1. CASE DrawElement
  <2>1. /\ Out(0) /\ images' = images /\ hooked' = hooked /\ objectNumber' = objectNumber
        /\ offsets' = offsets /\ fonts' = fonts /\ outToPages' = outToPages
        /\ delivered' = delivered /\ outputs' = outputs
    BY <1>1 DEF DrawElement
  <2>2. 0 \in Nat /\ FALSE \in BOOLEAN
    OBVIOUS
  <2>3. QED
    BY <2>1, <2>2, OutInv
<1>2. CASE AddImage
  <2>1. /\ Out(Len(images) + 1) /\ images' = Append(images, 0) /\ hooked' = TRUE
        /\ objectNumber' = objectNumber
        /\ offsets' = offsets /\ fonts' = fonts /\ outToPages' = outToPages
        /\ delivered' = delivered /\ outputs' = outputs
    BY <1>2 DEF AddImage
  <2>2. Len(images) + 1 \in Nat /\ TRUE \in BOOLEAN
    BY FileFacts
  <2>3. QED
    BY <2>1, <2>2, OutInv
<1>3. CASE AddUnreadableImage
  <2>1. /\ hooked' = TRUE /\ docPages' = docPages /\ images' = images /\ content' = content
        /\ contentLength' = contentLength /\ objectNumber' = objectNumber
        /\ offsets' = offsets /\ fonts' = fonts /\ outToPages' = outToPages
        /\ delivered' = delivered /\ outputs' = outputs /\ asDrawn' = asDrawn
    BY <1>3 DEF AddUnreadableImage, file
  <2>2. FileTypeOK'
    BY <2>1 DEF FileInv, FileTypeOK
  <2>3. Readable'
    BY <2>1, ReadableKept DEF FileInv
  <2>4. QED
    BY <2>1, <2>2, <2>3 DEF FileInv
<1>4. CASE AppendPage
  <2>1. /\ Len(docPages) < MaxPages /\ docPages' = Append(docPages, <<>>)
        /\ asDrawn' = Append(asDrawn, <<>>) /\ outToPages' = TRUE
        /\ hooked' = hooked /\ images' = images /\ content' = content
        /\ contentLength' = contentLength /\ objectNumber' = objectNumber
        /\ offsets' = offsets /\ fonts' = fonts
        /\ delivered' = delivered /\ outputs' = outputs
    BY <1>4 DEF AppendPage, file
  <2>2. /\ docPages \in Seq(Seq(0 .. Len(images))) /\ Len(docPages) \in 1 .. MaxPages
        /\ Len(asDrawn) = Len(docPages) /\ asDrawn \in Seq(Seq(Nat))
    BY FileFacts DEF PageCount
  <2>3. <<>> \in Seq(0 .. Len(images)) /\ <<>> \in Seq(Nat)
    OBVIOUS
  <2>4. /\ docPages' \in Seq(Seq(0 .. Len(images))) /\ Len(docPages') = Len(docPages) + 1
        /\ asDrawn' \in Seq(Seq(Nat)) /\ Len(asDrawn') = Len(asDrawn) + 1
    BY <2>1, <2>2, <2>3, AppendFacts
  <2>5. Len(docPages') \in 1 .. MaxPages /\ Len(asDrawn') = Len(docPages')
    BY <2>1, <2>2, <2>4, FileAssumption
  <2>6. FileTypeOK'
    BY <2>1, <2>4, <2>5 DEF FileInv, FileTypeOK
  <2>7. Readable'
    BY <2>1, ReadableKept DEF FileInv
  <2>8. QED
    BY <2>1, <2>4, <2>6, <2>7 DEF FileInv
<1>5. QED
  BY <1>1, <1>2, <1>3, <1>4

(* What a build has put, entry by entry.                                   *)
LEMMA BodyCases ==
  ASSUME NEW e \in BodyEntries
  PROVE  \/ e = HeaderEntry \/ e = PagesEntry \/ e = ResourcesEntry
         \/ e = InfoEntry \/ e = CatalogEntry
         \/ \E j \in 1 .. PageCount : e = PageEntry(objectNumber + 2 * j - 1, j)
         \/ \E j \in 1 .. PageCount : e = StreamEntry(objectNumber + 2 * j, j)
         \/ \E i \in 1 .. FontCount : e = FontEntry(AfterPages + i, i)
         \/ \E i \in 1 .. ImageCount : e = ImageEntry(AfterFonts + i, i)
BY DEF BodyEntries, AfterPutResources, AfterPutPages, PageEntries, FontEntries, ImageEntries

LEMMA BodyMembers ==
  /\ HeaderEntry \in BodyEntries /\ PagesEntry \in BodyEntries
  /\ ResourcesEntry \in BodyEntries /\ InfoEntry \in BodyEntries
  /\ CatalogEntry \in BodyEntries
  /\ \A j \in 1 .. PageCount : PageEntry(objectNumber + 2 * j - 1, j) \in BodyEntries
  /\ \A j \in 1 .. PageCount : StreamEntry(objectNumber + 2 * j, j) \in BodyEntries
  /\ \A i \in 1 .. FontCount : FontEntry(AfterPages + i, i) \in BodyEntries
  /\ \A i \in 1 .. ImageCount : ImageEntry(AfterFonts + i, i) \in BodyEntries
BY DEF BodyEntries, AfterPutResources, AfterPutPages, PageEntries, FontEntries, ImageEntries

LEMMA BodyFields ==
  /\ HeaderEntry.kind = "header" /\ HeaderEntry.refs = {}
  /\ PagesEntry.kind = "pages" /\ PagesEntry.obj = 1
  /\ PagesEntry.refs = {<<"page", 3 + 2 * i>> : i \in 0 .. PageCount - 1}
  /\ ResourcesEntry.kind = "resources" /\ ResourcesEntry.obj = 2
  /\ ResourcesEntry.refs = {<<"font", AfterPages + i>> : i \in 1 .. FontCount}
                             \cup {<<"image", Names[i]>> : i \in 1 .. ImageCount}
  /\ ResourcesEntry.data = Names
  /\ InfoEntry.kind = "info" /\ InfoEntry.obj = AfterImages + 1 /\ InfoEntry.refs = {}
  /\ CatalogEntry.kind = "catalog" /\ CatalogEntry.obj = AfterImages + 2
  /\ CatalogEntry.refs = {<<"pages", 1>>, <<"page", 3>>}
  /\ \A k, j : /\ PageEntry(k, j).kind = "page" /\ PageEntry(k, j).obj = k
               /\ PageEntry(k, j).refs = {<<"pages", 1>>, <<"resources", 2>>, <<"stream", k + 1>>}
               /\ PageEntry(k, j).data = j
  /\ \A k, j : /\ StreamEntry(k, j).kind = "stream" /\ StreamEntry(k, j).obj = k
               /\ StreamEntry(k, j).refs = {} /\ StreamEntry(k, j).data = docPages[j]
  /\ \A k, i : /\ FontEntry(k, i).kind = "font" /\ FontEntry(k, i).obj = k
               /\ FontEntry(k, i).refs = {}
  /\ \A k, i : /\ ImageEntry(k, i).kind = "image" /\ ImageEntry(k, i).obj = k
               /\ ImageEntry(k, i).refs = {} /\ ImageEntry(k, i).data = i
<1>1. /\ HeaderEntry.kind = "header" /\ HeaderEntry.refs = {}
      /\ InfoEntry.kind = "info" /\ InfoEntry.obj = AfterImages + 1 /\ InfoEntry.refs = {}
  BY DEF Entry, HeaderEntry, InfoEntry
<1>2. /\ CatalogEntry.kind = "catalog" /\ CatalogEntry.obj = AfterImages + 2
      /\ CatalogEntry.refs = {<<"pages", 1>>, <<"page", 3>>}
  BY DEF Entry, CatalogEntry
<1>3. /\ PagesEntry.kind = "pages" /\ PagesEntry.obj = 1
      /\ PagesEntry.refs = {<<"page", 3 + 2 * i>> : i \in 0 .. PageCount - 1}
  <2> DEFINE kids == {<<"page", 3 + 2 * i>> : i \in 0 .. PageCount - 1}
  <2>1. PagesEntry = Entry(1, "pages", kids, PageCount)
    BY Zenon DEF PagesEntry
  <2> HIDE DEF kids
  <2>2. QED
    BY <2>1 DEF Entry, kids
<1>4. /\ ResourcesEntry.kind = "resources" /\ ResourcesEntry.obj = 2
      /\ ResourcesEntry.refs = {<<"font", AfterPages + i>> : i \in 1 .. FontCount}
                                 \cup {<<"image", Names[i]>> : i \in 1 .. ImageCount}
      /\ ResourcesEntry.data = Names
  <2> DEFINE named == {<<"font", AfterPages + i>> : i \in 1 .. FontCount}
                        \cup {<<"image", Names[i]>> : i \in 1 .. ImageCount}
  <2>1. ResourcesEntry = Entry(2, "resources", named, Names)
    BY Zenon DEF ResourcesEntry
  <2> HIDE DEF named
  <2>2. /\ ResourcesEntry.kind = "resources" /\ ResourcesEntry.obj = 2
        /\ ResourcesEntry.refs = named /\ ResourcesEntry.data = Names
    BY <2>1 DEF Entry
  <2>3. QED
    BY <2>2, Zenon DEF named
<1>5. \A k, j : /\ PageEntry(k, j).kind = "page" /\ PageEntry(k, j).obj = k
                /\ PageEntry(k, j).refs
                     = {<<"pages", 1>>, <<"resources", 2>>, <<"stream", k + 1>>}
                /\ PageEntry(k, j).data = j
  BY DEF Entry, PageEntry
<1>6. \A k, j : /\ StreamEntry(k, j).kind = "stream" /\ StreamEntry(k, j).obj = k
                /\ StreamEntry(k, j).refs = {} /\ StreamEntry(k, j).data = docPages[j]
  BY DEF Entry, StreamEntry
<1>7. \A k, i : /\ FontEntry(k, i).kind = "font" /\ FontEntry(k, i).obj = k
                /\ FontEntry(k, i).refs = {}
  BY DEF Entry, FontEntry
<1>8. \A k, i : /\ ImageEntry(k, i).kind = "image" /\ ImageEntry(k, i).obj = k
                /\ ImageEntry(k, i).refs = {} /\ ImageEntry(k, i).data = i
  BY DEF Entry, ImageEntry
<1>9. QED
  BY <1>1, <1>2, <1>3, <1>4, <1>5, <1>6, <1>7, <1>8

LEMMA BodyKinds ==
  ASSUME NEW e \in BodyEntries
  PROVE  /\ e.kind \notin {"xref", "trailer"}
         /\ e.kind = "resources" => e = ResourcesEntry
         /\ e.kind = "stream" =>
              \E j \in 1 .. PageCount : e = StreamEntry(objectNumber + 2 * j, j)
         /\ e.kind = "page" =>
              \E j \in 1 .. PageCount : e = PageEntry(objectNumber + 2 * j - 1, j)
BY BodyCases, BodyFields

(* The first build's references lead to entries of the kind meant.         *)
LEMMA BodyTargets ==
  ASSUME FileInv, objectNumber = 2, NEW e \in BodyEntries, NEW r \in e.refs
  PROVE  r[2] # 0 /\ \E q \in BodyEntries : q.obj = r[2] /\ q.kind = r[1]
<1>1. /\ PageCount \in Nat \ {0} /\ AfterPages = 2 + 2 * PageCount /\ AfterPages \in Nat
      /\ FontCount \in Nat /\ ImageCount \in Nat
      /\ AfterFonts = AfterPages + FontCount /\ AfterFonts \in Nat
  BY FileFacts, CountFacts
<1>2. /\ PagesEntry \in BodyEntries /\ PagesEntry.kind = "pages" /\ PagesEntry.obj = 1
      /\ ResourcesEntry \in BodyEntries /\ ResourcesEntry.kind = "resources"
      /\ ResourcesEntry.obj = 2
  BY BodyMembers, BodyFields
<1>3. ASSUME NEW i \in 0 .. PageCount - 1
      PROVE  \E q \in BodyEntries : q.obj = 3 + 2 * i /\ q.kind = "page"
  <2>1. i + 1 \in 1 .. PageCount /\ 2 + 2 * (i + 1) - 1 = 3 + 2 * i
    BY <1>1
  <2>2. PageEntry(2 + 2 * (i + 1) - 1, i + 1) \in BodyEntries
    BY <2>1, BodyMembers
  <2>3. PageEntry(3 + 2 * i, i + 1) \in BodyEntries
    BY <2>1, <2>2
  <2>4. QED
    BY <2>3, BodyFields
<1>4. CASE e = PagesEntry
  <2>1. PICK i \in 0 .. PageCount - 1 : r = <<"page", 3 + 2 * i>>
    BY <1>4, BodyFields
  <2>2. r[1] = "page" /\ r[2] = 3 + 2 * i /\ r[2] # 0
    BY <2>1
  <2>3. QED
    BY <1>3, <2>2
<1>5. CASE e = CatalogEntry
  <2>1. r = <<"pages", 1>> \/ r = <<"page", 3>>
    BY <1>5, BodyFields
  <2>2. CASE r = <<"pages", 1>>
    BY <1>2, <2>2
  <2>3. CASE r = <<"page", 3>>
    <3>1. 0 \in 0 .. PageCount - 1 /\ 3 + 2 * 0 = 3 /\ r[1] = "page" /\ r[2] = 3
      BY <1>1, <2>3
    <3>2. QED
      BY <1>3, <3>1
  <2>4. QED
    BY <2>1, <2>2, <2>3
<1>6. CASE e = ResourcesEntry
  <2>1. \/ \E i \in 1 .. FontCount : r = <<"font", AfterPages + i>>
        \/ \E i \in 1 .. ImageCount : r = <<"image", Names[i]>>
    BY <1>6, BodyFields
  <2>2. ASSUME NEW i \in 1 .. FontCount, r = <<"font", AfterPages + i>>
        PROVE  r[2] # 0 /\ \E q \in BodyEntries : q.obj = r[2] /\ q.kind = r[1]
    <3>1. r[1] = "font" /\ r[2] = AfterPages + i /\ r[2] # 0
      BY <1>1, <2>2
    <3>2. FontEntry(AfterPages + i, i) \in BodyEntries
      BY BodyMembers
    <3>3. QED
      BY <3>1, <3>2, BodyFields
  <2>3. ASSUME NEW i \in 1 .. ImageCount, r = <<"image", Names[i]>>
        PROVE  r[2] # 0 /\ \E q \in BodyEntries : q.obj = r[2] /\ q.kind = r[1]
    <3>1. r[1] = "image" /\ r[2] = AfterFonts + i /\ r[2] # 0
      BY <1>1, <2>3 DEF Names
    <3>2. ImageEntry(AfterFonts + i, i) \in BodyEntries
      BY BodyMembers
    <3>3. QED
      BY <3>1, <3>2, BodyFields
  <2>4. QED
    BY <2>1, <2>2, <2>3
<1>7. ASSUME NEW j \in 1 .. PageCount, e = PageEntry(objectNumber + 2 * j - 1, j)
      PROVE  r[2] # 0 /\ \E q \in BodyEntries : q.obj = r[2] /\ q.kind = r[1]
  <2>1. e.refs = {<<"pages", 1>>, <<"resources", 2>>, <<"stream", objectNumber + 2 * j - 1 + 1>>}
    BY <1>7, BodyFields
  <2>2. objectNumber + 2 * j - 1 + 1 = objectNumber + 2 * j /\ objectNumber + 2 * j # 0
    BY <1>1
  <2>3. StreamEntry(objectNumber + 2 * j, j) \in BodyEntries
        /\ StreamEntry(objectNumber + 2 * j, j).kind = "stream"
        /\ StreamEntry(objectNumber + 2 * j, j).obj = objectNumber + 2 * j
    BY BodyMembers, BodyFields
  <2>4. CASE r = <<"stream", objectNumber + 2 * j>>
    <3>1. r[1] = "stream" /\ r[2] = objectNumber + 2 * j
      BY <2>4
    <3>2. QED
      BY <2>2, <2>3, <3>1
  <2>5. CASE r = <<"pages", 1>> \/ r = <<"resources", 2>>
    BY <1>2, <2>5
  <2>6. QED
    BY <2>1, <2>2, <2>4, <2>5
<1>8. CASE e.refs = {}
  BY <1>8
<1>9. QED
  BY <1>4, <1>5, <1>6, <1>7, <1>8, BodyCases, BodyFields

-----------------------------------------------------------------------------
(* A build that ends                                                       *)

XrefEntry == Entry(0, "xref", {}, Body.offsets)
TrailerEntry ==
  Entry(0, "trailer", {<<"catalog", AfterImages + 2>>, <<"info", AfterImages + 1>>},
        [size |-> AfterImages + 3, startxref |-> Body.length])

LEMMA DocumentFacts ==
  ASSUME FileOK
  PROVE  LET t == BuildDocument(Body)
             l == Len(Body.content)
         IN  /\ Located(t, contentLength) /\ t.number = AfterImages + 2
             /\ t.offsets = Body.offsets
             /\ InFile(t) = BodyEntries \cup {XrefEntry, TrailerEntry}
             /\ l \in Nat /\ Len(t.content) = l + 2
             /\ \A k \in 1 .. l : t.content[k] = Body.content[k]
             /\ t.content[l + 1] = XrefEntry
<1> DEFINE b == Body
           d == contentLength
           l == Len(b.content)
           x == Put(b, XrefEntry)
           t == Put(x, TrailerEntry)
<1>1. AfterImages \in Nat /\ d \in Nat
  BY CountFacts
<1>2. Located(b, d) /\ b.number = AfterImages + 2 /\ InFile(b) = BodyEntries
  BY BodyFacts DEF Stage
<1>3. b.offsets \in Offsets /\ b.length \in Nat /\ b.content \in Seq(Entries) /\ l \in Nat
  BY <1>2 DEF Located, Builds
<1>4. XrefEntry \in Entries /\ XrefEntry.obj = 0
  <2>1. "xref" \in Kinds /\ {} \in Refs /\ b.offsets \in Data
    BY <1>3, DataFacts DEF Kinds, Refs
  <2>2. QED
    BY <2>1, EntryFacts DEF XrefEntry
<1>5. TrailerEntry \in Entries /\ TrailerEntry.obj = 0
  <2>1. "trailer" \in Kinds /\ [size |-> AfterImages + 3, startxref |-> b.length] \in Data
        /\ {<<"catalog", AfterImages + 2>>, <<"info", AfterImages + 1>>} \in Refs
    BY <1>1, <1>3, DataFacts DEF Kinds, Refs
  <2>2. QED
    BY <2>1, EntryFacts DEF TrailerEntry
<1> HIDE DEF b, d
<1>6. Grown(b, x, 0, {XrefEntry}, d) /\ x.offsets = b.offsets
      /\ x.content = Append(b.content, XrefEntry)
  BY <1>1, <1>2, <1>4, PutFacts
<1> HIDE DEF x
<1>7. Located(x, d) /\ x.number = AfterImages + 2 /\ InFile(x) = BodyEntries \cup {XrefEntry}
  BY <1>1, <1>2, <1>6 DEF Grown
<1>8. Grown(x, t, 0, {TrailerEntry}, d) /\ t.offsets = x.offsets
      /\ t.content = Append(x.content, TrailerEntry)
  BY <1>1, <1>5, <1>7, PutFacts
<1> HIDE DEF t
<1>9. Located(t, d) /\ t.number = AfterImages + 2
      /\ InFile(t) = BodyEntries \cup {XrefEntry, TrailerEntry}
  BY <1>1, <1>7, <1>8 DEF Grown
<1>10. /\ Len(x.content) = l + 1 /\ x.content[l + 1] = XrefEntry
       /\ x.content \in Seq(Entries)
       /\ \A k \in 1 .. l : x.content[k] = b.content[k]
  BY <1>3, <1>4, <1>6, AppendFacts
<1>11. /\ Len(t.content) = l + 2
       /\ \A k \in 1 .. l + 1 : t.content[k] = x.content[k]
  BY <1>3, <1>8, <1>10, AppendFacts
<1>12. BuildDocument(b) = t
  <2>1. x.number - 1 = AfterImages + 1 /\ x.number + 1 = AfterImages + 3
    BY <1>1, <1>7
  <2>2. BuildDocument(b) = PutTrailer(x, b.length)
    BY Zenon DEF BuildDocument, x, XrefEntry, b
  <2>3. PutTrailer(x, b.length)
          = Put(x, Entry(0, "trailer", {<<"catalog", x.number>>, <<"info", x.number - 1>>},
                         [size |-> x.number + 1, startxref |-> b.length]))
    BY Zenon DEF PutTrailer
  <2>4. QED
    BY <1>7, <2>1, <2>2, <2>3, Zenon DEF t, TrailerEntry, b
<1>13. /\ \A k \in 1 .. l : t.content[k] = b.content[k]
       /\ t.content[l + 1] = XrefEntry
  BY <1>3, <1>10, <1>11
<1>14. QED
  BY <1>3, <1>6, <1>8, <1>9, <1>11, <1>12, <1>13 DEF b, d

(* Only a first build has an offset for every number.                      *)
LEMMA FirstBuild ==
  ASSUME FileOK, TableComplete(Body)
  PROVE  objectNumber = 2 /\ DOMAIN Body.offsets = 1 .. AfterImages + 2
<1>1. /\ AfterImages \in Nat /\ objectNumber \in Nat /\ objectNumber >= 2
      /\ AfterImages >= objectNumber
  BY CountFacts
<1>2. DOMAIN Body.offsets = {1, 2} \cup (objectNumber + 1 .. AfterImages + 2)
      /\ Body.number = AfterImages + 2
  BY BodyFacts DEF Stage
<1>3. DOMAIN Body.offsets = 1 .. AfterImages + 2
  BY <1>2 DEF TableComplete
<1>4. ASSUME objectNumber > 2 PROVE FALSE
  <2>1. 3 \in 1 .. AfterImages + 2
    BY <1>1, <1>4
  <2>2. 3 \in {1, 2} \cup (objectNumber + 1 .. AfterImages + 2)
    BY <1>2, <1>3, <2>1
  <2>3. QED
    BY <1>1, <1>4, <2>2
<1>5. QED
  BY <1>1, <1>3, <1>4


(* What the types need of a build that is kept.                            *)
LEMMA BuiltInv ==
  ASSUME FileInv, NEW c, Located(c, contentLength), c.number = AfterImages + 2,
         DOMAIN c.offsets \subseteq 1 .. c.number, Built(c), outputs < MaxOutputs,
         outToPages' \in BOOLEAN, Readable'
  PROVE  FileInv'
<1>1. /\ content' = c.content /\ contentLength' = c.length /\ objectNumber' = c.number
      /\ offsets' = c.offsets /\ fonts' = c.fonts /\ images' = c.images
      /\ outputs' = outputs + 1 /\ docPages' = docPages /\ hooked' = hooked
      /\ asDrawn' = asDrawn
  BY DEF Built
<1>2. /\ c.content \in Seq(Entries) /\ c.length \in Nat /\ c.number \in Nat
      /\ c.offsets \in Offsets /\ c.fonts \in [1 .. FontCount -> Nat]
      /\ c.images \in [1 .. Len(images) -> Nat]
      /\ c.length = Len(c.content) + contentLength
  BY DEF Located, Builds
<1>3. /\ docPages \in Seq(Seq(0 .. Len(images))) /\ images \in Seq(Nat) /\ Len(images) \in Nat
      /\ contentLength \in Nat /\ AfterImages \in Nat /\ objectNumber >= 2
      /\ AfterImages >= objectNumber /\ objectNumber \in Nat
  BY SMTT(30), FileFacts, CountFacts
<1>4. c.images \in Seq(Nat) /\ Len(c.images) = Len(images)
  <2>1. \A k \in Nat : \A f \in [1 .. k -> Nat] : f \in Seq(Nat) /\ Len(f) = k
    OBVIOUS
  <2>2. QED
    BY <1>2, <1>3, <2>1, Zenon
<1>5. Len(c.content) \in Nat /\ Len(c.content) <= c.length
  BY <1>2, <1>3
<1>6. c.number \in Nat \ {0, 1} /\ c.number # 2
  BY <1>3
<1>7. outputs + 1 \in 0 .. MaxOutputs
  BY FileAssumption DEF FileInv, FileTypeOK
<1>8. FileTypeOK'
  <2>1. /\ docPages' \in Seq(Seq(0 .. Len(images'))) /\ Len(docPages') \in 1 .. MaxPages
        /\ Len(asDrawn') = Len(docPages') /\ hooked' \in BOOLEAN
    BY <1>1, <1>3, <1>4 DEF FileInv, FileTypeOK
  <2>2. /\ images' \in Seq(Nat) /\ fonts' \in [1 .. FontCount -> Nat]
        /\ objectNumber' \in Nat \ {0, 1} /\ DOMAIN offsets' \subseteq 1 .. objectNumber'
        /\ Len(content') <= contentLength'
    BY <1>1, <1>2, <1>4, <1>5, <1>6
  <2>3. QED
    BY <1>1, <1>7, <2>1, <2>2 DEF FileTypeOK
<1>9. images' # <<>> => hooked'
  <2>1. images' # <<>> => images # <<>>
    BY <1>1, <1>3, <1>4
  <2>2. QED
    BY <1>1, <2>1 DEF FileInv
<1>10. content' \in Seq(Entries) /\ contentLength' \in Nat /\ offsets' \in Offsets
       /\ objectNumber' # 2 /\ asDrawn' \in Seq(Seq(Nat))
  BY <1>1, <1>2, <1>6, FileFacts
<1>11. QED
  BY <1>8, <1>9, <1>10 DEF FileInv

(* A document of a first build: the entries of the build and no others,    *)
(* the object of each number once, and where the table says.               *)
DocumentEntries == BodyEntries \cup {XrefEntry, TrailerEntry}

DocumentOf(D) ==
  /\ \A m \in DOMAIN D : D[m] \in DocumentEntries
  /\ \A e \in DocumentEntries : \E m \in DOMAIN D : D[m] = e
  /\ \A m, k \in DOMAIN D : D[m].obj # 0 /\ D[m].obj = D[k].obj => m = k
  /\ \A n \in 1 .. AfterImages + 2 : D[Body.offsets[n] + 1].obj = n
  /\ D[Body.length + 1] = XrefEntry

LEMMA DocumentWritten ==
  ASSUME FileInv, TableComplete(Body)
  PROVE  DocumentOf(BuildDocument(Body).content)
<1> DEFINE t == BuildDocument(Body)
           D == t.content
           l == Len(Body.content)
<1>1. FileOK /\ objectNumber = 2 /\ DOMAIN Body.offsets = 1 .. AfterImages + 2
  BY FileFacts, FirstBuild
<1>2. contentLength = 0
  BY <1>1 DEF FileInv
<1>3. /\ Located(t, 0) /\ t.offsets = Body.offsets
      /\ InFile(t) = BodyEntries \cup {XrefEntry, TrailerEntry}
      /\ l \in Nat /\ Len(D) = l + 2 /\ D[l + 1] = XrefEntry
  BY <1>1, <1>2, DocumentFacts
<1>4. Body.length = l
  <2>1. Located(Body, 0)
    BY <1>1, <1>2, BodyFacts DEF Stage
  <2>2. QED
    BY <1>3, <2>1 DEF Located
<1> HIDE DEF t, l
<1>5. D \in Seq(Entries)
  BY <1>3 DEF Located, Builds
<1>6. DOMAIN D = 1 .. Len(D) /\ InFile(t) = {D[m] : m \in 1 .. Len(D)}
  BY <1>5 DEF InFile
<1>7. /\ \A n \in DOMAIN t.offsets : D[t.offsets[n] - 0 + 1].obj = n
      /\ \A m \in 1 .. Len(D) :
           D[m].obj # 0 => /\ D[m].obj \in DOMAIN t.offsets
                           /\ t.offsets[D[m].obj] = m - 1 + 0
  BY <1>3 DEF Located
<1>8. \A n \in DOMAIN t.offsets : t.offsets[n] \in Nat
  BY <1>3, OffsetsFacts DEF Located, Builds
<1> HIDE DEF D
<1>9. \A n \in 1 .. AfterImages + 2 : D[Body.offsets[n] + 1].obj = n
  <2> SUFFICES ASSUME NEW n \in 1 .. AfterImages + 2
               PROVE  D[Body.offsets[n] + 1].obj = n
    OBVIOUS
  <2>1. n \in DOMAIN t.offsets /\ Body.offsets[n] = t.offsets[n]
    BY <1>1, <1>3
  <2>2. t.offsets[n] - 0 + 1 = t.offsets[n] + 1
    BY <1>8, <2>1
  <2>3. QED
    BY <1>7, <2>1, <2>2
<1>10. \A m, k \in DOMAIN D : D[m].obj # 0 /\ D[m].obj = D[k].obj => m = k
  <2> SUFFICES ASSUME NEW m \in DOMAIN D, NEW k \in DOMAIN D, D[m].obj # 0,
                      D[m].obj = D[k].obj
               PROVE  m = k
    OBVIOUS
  <2>1. t.offsets[D[m].obj] = m - 1 + 0 /\ t.offsets[D[k].obj] = k - 1 + 0
    BY <1>6, <1>7
  <2>2. m \in 1 .. Len(D) /\ k \in 1 .. Len(D) /\ Len(D) \in Nat
    BY <1>3, <1>6
  <2>3. QED
    BY <2>1, <2>2
<1>11. /\ \A m \in DOMAIN D : D[m] \in DocumentEntries
       /\ \A e \in DocumentEntries : \E m \in DOMAIN D : D[m] = e
  BY <1>3, <1>6 DEF DocumentEntries
<1>12. D[Body.length + 1] = XrefEntry
  BY <1>3, <1>4
<1>13. DocumentOf(D)
  BY <1>9, <1>10, <1>11, <1>12 DEF DocumentOf
<1>14. QED
  BY <1>13 DEF D, t

(* What Only finds in a document.                                          *)
OnlyIn(D, kind) == D[CHOOSE n \in {n \in DOMAIN D : D[n].kind = kind} : TRUE]

Finds(D, kind, e) == OnlyIn(D, kind) = e

LEMMA OnlyFacts ==
  ASSUME NEW D, NEW kind, NEW e, \E m \in DOMAIN D : D[m].kind = kind,
         \A m \in DOMAIN D : D[m].kind = kind => D[m] = e
  PROVE  Finds(D, kind, e)
<1> DEFINE F == {n \in DOMAIN D : D[n].kind = kind}
           k == CHOOSE n \in F : TRUE
<1>1. \E n \in F : TRUE
  OBVIOUS
<1> HIDE DEF F
<1>2. k \in F
  BY <1>1, Zenon
<1> HIDE DEF k
<1>3. D[k] = e
  BY <1>2 DEF F
<1>4. OnlyIn(D, kind) = D[k]
  BY Zenon DEF OnlyIn, k, F
<1>5. QED
  BY <1>3, <1>4 DEF Finds

LEMMA DocumentOnly ==
  ASSUME FileInv, NEW D, DocumentOf(D)
  PROVE  /\ OnlyIn(D, "xref") = XrefEntry /\ XrefEntry.data = Body.offsets
         /\ XrefEntry.kind = "xref" /\ XrefEntry.refs = {}
         /\ OnlyIn(D, "trailer") = TrailerEntry
         /\ TrailerEntry.data.size = AfterImages + 3
         /\ TrailerEntry.data.startxref = Body.length
         /\ TrailerEntry.kind = "trailer"
         /\ TrailerEntry.refs = {<<"catalog", AfterImages + 2>>, <<"info", AfterImages + 1>>}
         /\ OnlyIn(D, "resources") = ResourcesEntry
<1>1. XrefEntry.data = Body.offsets /\ XrefEntry.kind = "xref" /\ XrefEntry.refs = {}
  <2> DEFINE o == Body.offsets
  <2>1. XrefEntry = Entry(0, "xref", {}, o)
    BY Zenon DEF XrefEntry
  <2> HIDE DEF o
  <2>2. XrefEntry.data = o /\ XrefEntry.kind = "xref" /\ XrefEntry.refs = {}
    BY <2>1 DEF Entry
  <2>3. QED
    BY <2>2 DEF o
<1>2. /\ TrailerEntry.data.size = AfterImages + 3
      /\ TrailerEntry.data.startxref = Body.length
      /\ TrailerEntry.kind = "trailer"
      /\ TrailerEntry.refs = {<<"catalog", AfterImages + 2>>, <<"info", AfterImages + 1>>}
  <2> DEFINE l == Body.length
             n == AfterImages
  <2>1. TrailerEntry = Entry(0, "trailer", {<<"catalog", n + 2>>, <<"info", n + 1>>},
                             [size |-> n + 3, startxref |-> l])
    BY Zenon DEF TrailerEntry
  <2> HIDE DEF l, n
  <2>2. /\ TrailerEntry.data.size = n + 3 /\ TrailerEntry.data.startxref = l
        /\ TrailerEntry.kind = "trailer"
        /\ TrailerEntry.refs = {<<"catalog", n + 2>>, <<"info", n + 1>>}
    BY <2>1 DEF Entry
  <2>3. QED
    BY <2>2 DEF l, n
<1>3. \A m \in DOMAIN D : \/ D[m] \in BodyEntries \/ D[m] = XrefEntry \/ D[m] = TrailerEntry
  BY DEF DocumentOf, DocumentEntries
<1>4. /\ \E m \in DOMAIN D : D[m] = XrefEntry
      /\ \E m \in DOMAIN D : D[m] = TrailerEntry
      /\ \E m \in DOMAIN D : D[m] = ResourcesEntry
  BY BodyMembers DEF DocumentOf, DocumentEntries
<1>5. ResourcesEntry.kind = "resources"
  BY BodyFields
<1>6. \A m \in DOMAIN D :
        /\ D[m].kind = "xref" => D[m] = XrefEntry
        /\ D[m].kind = "trailer" => D[m] = TrailerEntry
        /\ D[m].kind = "resources" => D[m] = ResourcesEntry
  BY <1>1, <1>2, <1>3, BodyKinds
<1>7. Finds(D, "xref", XrefEntry)
  BY Zenon, <1>1, <1>4, <1>6, OnlyFacts
<1>8. Finds(D, "trailer", TrailerEntry)
  BY Zenon, <1>2, <1>4, <1>6, OnlyFacts
<1>9. Finds(D, "resources", ResourcesEntry)
  BY Zenon, <1>4, <1>5, <1>6, OnlyFacts
<1>10. QED
  BY <1>1, <1>2, <1>7, <1>8, <1>9 DEF Finds

(* Every reference of such a document is met once.                         *)
LEMMA DocumentTargets ==
  ASSUME FileInv, objectNumber = 2, NEW D, DocumentOf(D), NEW n \in DOMAIN D,
         NEW r \in D[n].refs
  PROVE  \E k \in DOMAIN D : {m \in DOMAIN D : D[m].obj = r[2] /\ D[m].kind = r[1]} = {k}
<1>1. r[2] # 0 /\ \E q \in DocumentEntries : q.obj = r[2] /\ q.kind = r[1]
  <2>1. CASE D[n] \in BodyEntries
    BY <2>1, BodyTargets DEF DocumentEntries
  <2>2. CASE D[n] = XrefEntry
    BY <2>2, DocumentOnly
  <2>3. CASE D[n] = TrailerEntry
    <3>1. r = <<"catalog", AfterImages + 2>> \/ r = <<"info", AfterImages + 1>>
      BY <2>3, DocumentOnly
    <3>2. AfterImages \in Nat
      BY FileFacts, CountFacts
    <3>3. /\ CatalogEntry \in DocumentEntries /\ CatalogEntry.obj = AfterImages + 2
          /\ CatalogEntry.kind = "catalog"
          /\ InfoEntry \in DocumentEntries /\ InfoEntry.obj = AfterImages + 1
          /\ InfoEntry.kind = "info"
      BY BodyMembers, BodyFields DEF DocumentEntries
    <3>4. CASE r = <<"catalog", AfterImages + 2>>
      <4>1. r[1] = "catalog" /\ r[2] = AfterImages + 2 /\ r[2] # 0
        BY <3>2, <3>4
      <4>2. QED
        BY <3>3, <4>1
    <3>5. CASE r = <<"info", AfterImages + 1>>
      <4>1. r[1] = "info" /\ r[2] = AfterImages + 1 /\ r[2] # 0
        BY <3>2, <3>5
      <4>2. QED
        BY <3>3, <4>1
    <3>6. QED
      BY <3>1, <3>4, <3>5
  <2>4. QED
    BY <2>1, <2>2, <2>3 DEF DocumentOf, DocumentEntries
<1>2. PICK k \in DOMAIN D : D[k].obj = r[2] /\ D[k].kind = r[1]
  BY <1>1 DEF DocumentOf
<1>3. \A m \in DOMAIN D : D[m].obj = r[2] => m = k
  BY <1>1, <1>2 DEF DocumentOf
<1>4. {m \in DOMAIN D : D[m].obj = r[2] /\ D[m].kind = r[1]} = {k}
  BY <1>2, <1>3
<1>5. QED
  BY <1>4

(* Every image that a page of such a document draws is named.              *)
LEMMA DocumentImages ==
  ASSUME FileInv, NEW D, DocumentOf(D), NEW s \in DOMAIN D, D[s].kind = "stream",
         NEW j \in DOMAIN D[s].data, D[s].data[j] # 0
  PROVE  LET i == D[s].data[j]
         IN  /\ i \in DOMAIN Names
             /\ \E m \in DOMAIN D : /\ D[m].kind = "image"
                                    /\ D[m].obj = Names[i] /\ D[m].data = i
<1> DEFINE i == D[s].data[j]
<1>1. D[s] \in BodyEntries
  <2>1. D[s] \in BodyEntries \/ D[s] = XrefEntry \/ D[s] = TrailerEntry
    BY DEF DocumentOf, DocumentEntries
  <2>2. QED
    BY <2>1, DocumentOnly
<1>2. PICK k \in 1 .. PageCount : D[s] = StreamEntry(objectNumber + 2 * k, k)
  BY <1>1, BodyKinds
<1>3. D[s].data = docPages[k]
  BY <1>2, BodyFields
<1>4. docPages[k] \in Seq(0 .. Len(images))
  BY FileFacts DEF PageCount
<1>5. i \in 0 .. Len(images)
  BY <1>3, <1>4
<1> HIDE DEF i
<1>6. i \in 1 .. ImageCount
  <2>1. i # 0 /\ images \in Seq(Nat) /\ Len(images) \in Nat
    BY FileFacts DEF i
  <2>2. images # <<>>
    BY <1>5, <2>1
  <2>3. hooked
    BY <2>2 DEF FileInv
  <2>4. QED
    BY <1>5, <2>1, <2>3 DEF ImageCount
<1>7. i \in DOMAIN Names /\ Names[i] = AfterFonts + i
  BY <1>6 DEF Names
<1>8. ImageEntry(AfterFonts + i, i) \in DocumentEntries
  BY <1>6, BodyMembers DEF DocumentEntries
<1>9. PICK m \in DOMAIN D : D[m] = ImageEntry(AfterFonts + i, i)
  BY <1>8 DEF DocumentOf
<1>10. D[m].kind = "image" /\ D[m].obj = AfterFonts + i /\ D[m].data = i
  BY <1>9, BodyFields
<1>11. QED
  BY <1>7, <1>10 DEF i


LEMMA OutputReadable ==
  ASSUME FileInv, TableComplete(Body), delivered' = BuildDocument(Body).content
  PROVE  Readable'
<1> DEFINE D == BuildDocument(Body).content
<1>1. DocumentOf(D) /\ objectNumber = 2 /\ AfterImages \in Nat
  BY DocumentWritten, FileFacts, FirstBuild, CountFacts
<1> HIDE DEF D
<1>2. Doc' = D
  BY DEF Doc, D
<1>3. \A kind : /\ Only(kind)' = OnlyIn(D, kind)
                /\ Found(kind)' = {n \in DOMAIN D : D[n].kind = kind}
  BY <1>2, Zenon DEF Only, Found, OnlyIn
<1>4. /\ Only("xref")' = XrefEntry /\ Only("trailer")' = TrailerEntry
      /\ Only("resources")' = ResourcesEntry
  BY <1>1, <1>3, DocumentOnly
<1>5. TableLocatesObjects'
  <2>1. TrailerEntry.data.size = AfterImages + 3 /\ TrailerEntry.data.startxref = Body.length
        /\ XrefEntry.data = Body.offsets /\ XrefEntry.kind = "xref"
    BY <1>1, DocumentOnly
  <2>2. AfterImages + 3 - 1 = AfterImages + 2
    BY <1>1
  <2>3. \A n \in 1 .. AfterImages + 2 : D[Body.offsets[n] + 1].obj = n
    BY <1>1 DEF DocumentOf
  <2>4. D[Body.length + 1] = XrefEntry
    BY <1>1 DEF DocumentOf
  <2>5. \A n \in 1 .. Only("trailer")'.data.size - 1 :
          Doc'[Only("xref")'.data[n] + 1].obj = n
    <3> SUFFICES ASSUME NEW n \in 1 .. Only("trailer")'.data.size - 1
                 PROVE  Doc'[Only("xref")'.data[n] + 1].obj = n
      OBVIOUS
    <3>1. n \in 1 .. AfterImages + 2 /\ Only("xref")'.data = Body.offsets
      <4>1. Only("trailer")'.data.size - 1 = AfterImages + 2
        <5>1. Only("trailer")'.data.size = AfterImages + 3
          BY <1>4, <2>1, Zenon
        <5>2. QED
          BY <1>1, <5>1
      <4>2. Only("xref")'.data = Body.offsets
        BY <1>4, <2>1, Zenon
      <4>3. QED
        BY <4>1, <4>2, Zenon
    <3>2. QED
      BY <1>2, <2>3, <3>1
  <2>6. Doc'[Only("trailer")'.data.startxref + 1].kind = "xref"
    BY <1>2, <1>4, <2>1, <2>4
  <2>7. QED
    BY <2>5, <2>6 DEF TableLocatesObjects
<1>6. ReferencesResolve'
  <2> SUFFICES ASSUME NEW n \in DOMAIN Doc', NEW r \in Doc'[n].refs
               PROVE  Cardinality({m \in DOMAIN Doc' :
                                     Doc'[m].obj = r[2] /\ Doc'[m].kind = r[1]}) = 1
    BY DEF ReferencesResolve
  <2> DEFINE met == {m \in DOMAIN Doc' : Doc'[m].obj = r[2] /\ Doc'[m].kind = r[1]}
  <2>1. \E k \in DOMAIN D : met = {k}
    <3>1. n \in DOMAIN D /\ r \in D[n].refs
      BY <1>2
    <3>2. \E k \in DOMAIN D : {m \in DOMAIN D : D[m].obj = r[2] /\ D[m].kind = r[1]} = {k}
      BY <1>1, <3>1, DocumentTargets
    <3>3. QED
      BY <1>2, <3>2
  <2> HIDE DEF met
  <2>2. Cardinality(met) = 1
    BY <2>1, FS_Singleton
  <2>3. QED
    BY <2>2 DEF met
<1>7. DrawnImagesNamed'
  <2>1. ResourcesEntry.data = Names
    BY BodyFields
  <2>2. ASSUME NEW s \in Found("stream")', NEW j \in DOMAIN Doc'[s].data, Doc'[s].data[j] # 0
        PROVE  /\ Doc'[s].data[j] \in DOMAIN Names
               /\ \E m \in Found("image")' : /\ Doc'[m].obj = Names[Doc'[s].data[j]]
                                             /\ Doc'[m].data = Doc'[s].data[j]
    <3>1. s \in DOMAIN D /\ D[s].kind = "stream" /\ j \in DOMAIN D[s].data /\ D[s].data[j] # 0
      BY <1>2, <1>3, <2>2
    <3>2. /\ D[s].data[j] \in DOMAIN Names
          /\ \E m \in DOMAIN D : /\ D[m].kind = "image"
                                 /\ D[m].obj = Names[D[s].data[j]]
                                 /\ D[m].data = D[s].data[j]
      BY <1>1, <3>1, DocumentImages
    <3>3. QED
      BY <1>2, <1>3, <3>2
  <2>3. QED
    BY <1>4, <2>1, <2>2 DEF DrawnImagesNamed
<1>8. QED
  BY <1>5, <1>6, <1>7 DEF Readable

LEMMA OutputInv == FileInv /\ Output => FileInv'
<1> SUFFICES ASSUME FileInv, Output PROVE FileInv'
  OBVIOUS
<1> DEFINE t == BuildDocument(Body)
<1>1. /\ outputs < MaxOutputs /\ TableComplete(Body) /\ Built(t)
      /\ delivered' = content' /\ outToPages' = TRUE
  BY Zenon DEF Output
<1>2. FileOK
  BY FileFacts
<1>3. /\ Located(t, contentLength) /\ t.number = AfterImages + 2
      /\ t.offsets = Body.offsets
  BY <1>2, DocumentFacts
<1> HIDE DEF t
<1>4. DOMAIN t.offsets = 1 .. t.number
  BY <1>1, <1>2, <1>3, FirstBuild
<1>5. content' = t.content
  BY <1>1 DEF Built
<1>6. Readable'
  BY <1>1, <1>5, OutputReadable DEF t
<1>7. outToPages' \in BOOLEAN
  BY <1>1
<1>8. QED
  BY <1>1, <1>3, <1>4, <1>6, <1>7, BuiltInv

LEMMA OutputThrowsInv == FileInv /\ OutputThrows => FileInv'
<1> SUFFICES ASSUME FileInv, OutputThrows PROVE FileInv'
  OBVIOUS
<1> DEFINE e == Entry(0, "xref", {}, <<>>)
           c == Put(Body, e)
<1>1. /\ outputs < MaxOutputs /\ Built(c) /\ outToPages' = FALSE /\ delivered' = delivered
  BY Zenon DEF OutputThrows
<1>2. FileOK /\ contentLength \in Nat /\ AfterImages \in Nat /\ objectNumber \in Nat
      /\ AfterImages >= objectNumber /\ objectNumber >= 2
  BY SMTT(30), FileFacts, CountFacts
<1>3. /\ Located(Body, contentLength) /\ Body.number = AfterImages + 2
      /\ DOMAIN Body.offsets = {1, 2} \cup (objectNumber + 1 .. AfterImages + 2)
  BY <1>2, BodyFacts DEF Stage
<1>4. e \in Entries /\ e.obj = 0
  <2>1. <<>> \in Seq(Nat)
    OBVIOUS
  <2>2. "xref" \in Kinds /\ {} \in Refs /\ <<>> \in Data
    BY <2>1, DataFacts DEF Kinds, Refs
  <2>3. QED
    BY <2>2, EntryFacts
<1> HIDE DEF e
<1>5. Grown(Body, c, 0, {e}, contentLength) /\ c.offsets = Body.offsets
  BY <1>2, <1>3, <1>4, PutFacts
<1> HIDE DEF c
<1>6. Located(c, contentLength) /\ c.number = AfterImages + 2
  BY <1>2, <1>3, <1>5 DEF Grown
<1>7. DOMAIN c.offsets \subseteq 1 .. c.number
  BY <1>2, <1>3, <1>5, <1>6
<1>8. Readable'
  BY <1>1, ReadableKept DEF FileInv
<1>9. outToPages' \in BOOLEAN
  BY <1>1
<1>10. QED
  BY <1>1, <1>6, <1>7, <1>8, <1>9, BuiltInv

LEMMA FileStep == FileInv /\ [FileNext]_fileVars => FileInv'
<1> SUFFICES ASSUME FileInv, [FileNext]_fileVars PROVE FileInv'
  OBVIOUS
<1>1. CASE DrawElement \/ AddImage \/ AddUnreadableImage \/ AppendPage
  BY <1>1, DrawingInv
<1>2. CASE Output
  BY <1>2, OutputInv
<1>3. CASE OutputThrows
  BY <1>3, OutputThrowsInv
<1>4. CASE UNCHANGED fileVars
  <2>1. /\ docPages' = docPages /\ images' = images /\ hooked' = hooked
        /\ content' = content /\ contentLength' = contentLength
        /\ objectNumber' = objectNumber /\ offsets' = offsets /\ fonts' = fonts
        /\ outToPages' = outToPages /\ delivered' = delivered /\ outputs' = outputs
        /\ asDrawn' = asDrawn
    BY <1>4 DEF fileVars, file
  <2>2. FileTypeOK'
    BY <2>1 DEF FileInv, FileTypeOK
  <2>3. Readable'
    BY <2>1, ReadableKept DEF FileInv
  <2>4. QED
    BY <2>1, <2>2, <2>3 DEF FileInv
<1>5. QED
  BY <1>1, <1>2, <1>3, <1>4 DEF FileNext

(* Every document that output returns can be read: its table leads to      *)
(* every object, each reference meets one object of the kind meant, and    *)
(* each image that a page draws has a name that leads to it: jspdf.js, for *)
(* any numbers of fonts, pages, images and calls of output.                *)
THEOREM FilesCanBeRead == FileSpec => []FileReadable
<1>1. FileInv => FileReadable
  BY DEF FileInv, Readable, FileReadable
<1>2. QED
  BY FileInitInv, FileStep, <1>1, PTL DEF FileSpec

(* Page n of a document of a first build refers to a stream with what was  *)
(* drawn on page n.                                                        *)
LEMMA DocumentDelivers ==
  ASSUME FileInv, objectNumber = 2, NEW D, DocumentOf(D), NEW n \in DOMAIN asDrawn
  PROVE  LET p == CHOOSE m \in DOMAIN D : D[m].kind = "page" /\ D[m].data = n
         IN  \E m \in DOMAIN D : /\ <<"stream", D[m].obj>> \in D[p].refs
                                 /\ D[m].data = asDrawn[n]
<1> DEFINE p == CHOOSE m \in DOMAIN D : D[m].kind = "page" /\ D[m].data = n
           k == objectNumber + 2 * n
<1>1. docPages = asDrawn /\ n \in 1 .. PageCount /\ PageCount \in Nat
  <2>1. docPages = asDrawn /\ docPages \in Seq(Seq(0 .. Len(images)))
    BY FileFacts DEF FileInv
  <2>2. QED
    BY <2>1 DEF PageCount
<1>2. k - 1 \in Nat /\ k - 1 + 1 = k
  BY <1>1
<1>3. PageEntry(k - 1, n) \in DocumentEntries /\ StreamEntry(k, n) \in DocumentEntries
  BY <1>1, BodyMembers DEF DocumentEntries
<1> HIDE DEF k
<1>4. \E m \in DOMAIN D : D[m].kind = "page" /\ D[m].data = n
  <2>1. PICK m \in DOMAIN D : D[m] = PageEntry(k - 1, n)
    BY <1>3 DEF DocumentOf
  <2>2. QED
    BY <2>1, BodyFields
<1>5. p \in DOMAIN D /\ D[p].kind = "page" /\ D[p].data = n
  BY <1>4, Zenon
<1> HIDE DEF p
<1>6. D[p] = PageEntry(k - 1, n)
  <2>1. D[p] \in BodyEntries
    <3>1. D[p] \in BodyEntries \/ D[p] = XrefEntry \/ D[p] = TrailerEntry
      BY <1>5 DEF DocumentOf, DocumentEntries
    <3>2. QED
      BY <1>5, <3>1, DocumentOnly
  <2>2. PICK j \in 1 .. PageCount : D[p] = PageEntry(objectNumber + 2 * j - 1, j)
    BY <1>5, <2>1, BodyKinds
  <2>3. j = n
    BY <1>5, <2>2, BodyFields
  <2>4. QED
    BY <2>2, <2>3 DEF k
<1>7. <<"stream", k>> \in D[p].refs
  BY <1>2, <1>6, BodyFields
<1>8. PICK m \in DOMAIN D : D[m] = StreamEntry(k, n)
  BY <1>3 DEF DocumentOf
<1>9. D[m].obj = k /\ D[m].data = asDrawn[n]
  BY <1>1, <1>8, BodyFields
<1>10. QED
  BY <1>7, <1>8, <1>9 DEF p

Delivers ==
  delivered' # delivered =>
    LET pageOf(n) == CHOOSE m \in DOMAIN delivered' :
                       /\ delivered'[m].kind = "page"
                       /\ delivered'[m].data = n
    IN  \A n \in DOMAIN asDrawn :
          \E m \in DOMAIN delivered' :
            /\ <<"stream", delivered'[m].obj>> \in delivered'[pageOf(n)].refs
            /\ delivered'[m].data = asDrawn[n]

LEMMA DeliversStep == FileInv /\ [FileNext]_fileVars => Delivers
<1> SUFFICES ASSUME FileInv, [FileNext]_fileVars, delivered' # delivered PROVE Delivers
  BY DEF Delivers
<1>1. Output
  <2>1. ASSUME DrawElement \/ AddImage \/ AddUnreadableImage \/ AppendPage
        PROVE  delivered' = delivered
    BY <2>1 DEF DrawElement, AddImage, AddUnreadableImage, AppendPage
  <2>2. ASSUME OutputThrows PROVE delivered' = delivered
    BY <2>2, Zenon DEF OutputThrows
  <2>3. ASSUME UNCHANGED fileVars PROVE delivered' = delivered
    BY <2>3 DEF fileVars
  <2>4. QED
    BY <2>1, <2>2, <2>3 DEF FileNext
<1> DEFINE D == BuildDocument(Body).content
<1>2. TableComplete(Body) /\ delivered' = D
  <2>1. TableComplete(Body) /\ Built(BuildDocument(Body)) /\ delivered' = content'
    BY <1>1, Zenon DEF Output
  <2>2. QED
    BY <2>1, Zenon DEF Built
<1>3. DocumentOf(D) /\ objectNumber = 2
  BY <1>2, DocumentWritten, FileFacts, FirstBuild
<1> HIDE DEF D
<1>4. \A n \in DOMAIN asDrawn :
        LET p == CHOOSE m \in DOMAIN D : D[m].kind = "page" /\ D[m].data = n
        IN  \E m \in DOMAIN D : /\ <<"stream", D[m].obj>> \in D[p].refs
                                /\ D[m].data = asDrawn[n]
  BY <1>3, DocumentDelivers
<1>5. QED
  BY <1>2, <1>4 DEF Delivers

(* A document that output returns has every page in order, each with       *)
(* everything that was drawn on it by then: only the first output returns  *)
(* a document, as later ones throw over the table, and until it has begun  *)
(* out writes to the pages alone (jspdf.js: out, putPages, buildDocument). *)
THEOREM FilesDeliverDrawings == FileSpec => DeliversWhatWasDrawn
<1>1. FileInv /\ [FileNext]_fileVars =>
        [delivered' # delivered =>
           LET pageOf(n) == CHOOSE m \in DOMAIN delivered' :
                              /\ delivered'[m].kind = "page"
                              /\ delivered'[m].data = n
           IN  \A n \in DOMAIN asDrawn :
                 \E m \in DOMAIN delivered' :
                   /\ <<"stream", delivered'[m].obj>> \in delivered'[pageOf(n)].refs
                   /\ delivered'[m].data = asDrawn[n]]_fileVars
  BY DeliversStep DEF Delivers
<1>2. QED
  BY FileInitInv, FileStep, <1>1, PTL DEF FileSpec, DeliversWhatWasDrawn
=============================================================================
