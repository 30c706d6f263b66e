------------------------- MODULE ExportDrawingProofs ------------------------
(***************************************************************************)
(* Proofs about what draws an export, for any topics, callbacks, nesting   *)
(* of events and paths: listeners that change the list they are called     *)
(* from, and a path drawn as it is written.                                *)
(***************************************************************************)
EXTENDS PubSub, CanvgPath, InductionLemmas, SequenceTheorems, TLAPS

-----------------------------------------------------------------------------
(* The event channels: lists that lose entries                             *)

LEMMA RemoveAtFacts ==
  ASSUME NEW S, NEW s \in Seq(S), NEW i \in 1 .. Len(s)
  PROVE  /\ RemoveAt(s, i) \in Seq(S) /\ Len(RemoveAt(s, i)) = Len(s) - 1
         /\ \A j \in 1 .. Len(s) - 1 : RemoveAt(s, i)[j] = IF j < i THEN s[j] ELSE s[j + 1]
<1> DEFINE a == SubSeq(s, 1, i - 1)
           b == SubSeq(s, i + 1, Len(s))
           r == RemoveAt(s, i)
           n == Len(s)
<1>1. a \in Seq(S) /\ Len(a) = i - 1 /\ \A j \in 1 .. i - 1 : a[j] = s[j]
  <2>1. \A j \in 1 .. i - 1 : s[j] \in S
    OBVIOUS
  <2>2. QED
    BY <2>1, SubSeqProperties
<1>2. b \in Seq(S) /\ Len(b) = n - i /\ \A j \in 1 .. n - i : b[j] = s[i + j]
  BY SubSeqProperties
<1>3. r = a \o b /\ n \in Nat /\ i \in 1 .. n
  BY DEF RemoveAt
<1> HIDE DEF a, b, r, n
<1>4. /\ r \in Seq(S) /\ Len(r) = (i - 1) + (n - i)
      /\ \A j \in 1 .. (i - 1) + (n - i) : r[j] = IF j <= i - 1 THEN a[j] ELSE b[j - (i - 1)]
  <2>1. /\ r \in Seq(S) /\ Len(r) = Len(a) + Len(b)
        /\ \A j \in 1 .. Len(a) + Len(b) : r[j] = IF j <= Len(a) THEN a[j] ELSE b[j - Len(a)]
    BY <1>1, <1>2, <1>3, ConcatProperties, Zenon
  <2>2. QED
    BY <1>1, <1>2, <2>1
<1>5. ASSUME NEW j \in 1 .. n - 1 PROVE r[j] = IF j < i THEN s[j] ELSE s[j + 1]
  <2>1. j \in 1 .. (i - 1) + (n - i)
    BY <1>3
  <2>2. CASE j < i
    <3>1. j <= i - 1 /\ j \in 1 .. i - 1
      BY <1>3, <2>2
    <3>2. QED
      BY <1>1, <1>4, <2>1, <2>2, <3>1
  <2>3. CASE ~(j < i)
    <3>1. ~(j <= i - 1) /\ j - (i - 1) \in 1 .. n - i /\ i + (j - (i - 1)) = j + 1
      BY <1>3, <2>3
    <3>2. QED
      BY <1>2, <1>4, <2>1, <2>3, <3>1
  <2>4. QED
    BY <2>2, <2>3
<1>6. Len(r) = n - 1
  BY <1>3, <1>4
<1>7. QED
  BY <1>4, <1>5, <1>6 DEF r, n

LEMMA FrontAndLast ==
  ASSUME NEW S, NEW s \in Seq(S), s # <<>>
  PROVE  /\ Len(s) \in Nat \ {0} /\ Last(s) = s[Len(s)]
         /\ Front(s) \in Seq(S) /\ Len(Front(s)) = Len(s) - 1
         /\ \A j \in 1 .. Len(s) - 1 : Front(s)[j] = s[j]
<1>1. Len(s) \in Nat \ {0}
  BY EmptySeq
<1>2. \A j \in 1 .. Len(s) - 1 : s[j] \in S
  BY <1>1
<1> DEFINE a == SubSeq(s, 1, Len(s) - 1)
           n == Len(s)
<1>3. a \in Seq(S) /\ Len(a) = (IF 1 <= n - 1 THEN (n - 1) - 1 + 1 ELSE 0)
  BY <1>1, <1>2, SubSeqProperties
<1>4. \A j \in 1 .. (n - 1) - 1 + 1 : a[j] = s[1 + j - 1]
  BY <1>1, <1>2, SubSeqProperties
<1>5. n \in Nat \ {0}
  BY <1>1
<1> HIDE DEF n, a
<1>6. Len(a) = n - 1
  BY <1>3, <1>5
<1>7. \A j \in 1 .. n - 1 : a[j] = s[j]
  <2>1. \A j \in 1 .. n - 1 : j \in 1 .. (n - 1) - 1 + 1 /\ 1 + j - 1 = j
    BY <1>5
  <2>2. QED
    BY <1>4, <2>1
<1>8. QED
  BY <1>1, <1>3, <1>6, <1>7 DEF Last, Front, a, n

(* An entry of the list of topic t, when tk has been returned by subscribe *)
(* and the listeners have run as often as rn says.                         *)
EntryOK(t, e, tk, rn) ==
  /\ e.id \in 1 .. Len(tk)
  /\ tk[e.id].topic = t /\ e.once = tk[e.id].once
  /\ e.once /\ rn[e.id] > 0 => e.fn = EmptyFunc

ListOK(t, list, tk, rn) ==
  /\ list \in Seq(Pair)
  /\ \A j \in 1 .. Len(list) : EntryOK(t, list[j], tk, rn)
  /\ \A j, k \in 1 .. Len(list) : j < k => list[j].id < list[k].id

LEMMA RemoveAtOK ==
  ASSUME NEW t, NEW list, NEW tk, NEW rn, ListOK(t, list, tk, rn), NEW i \in 1 .. Len(list)
  PROVE  ListOK(t, RemoveAt(list, i), tk, rn)
<1> DEFINE r == RemoveAt(list, i)
           n == Len(list)
<1>1. list \in Seq(Pair) /\ n \in Nat
  BY DEF ListOK
<1>2. /\ r \in Seq(Pair) /\ Len(r) = n - 1
      /\ \A j \in 1 .. n - 1 : r[j] = IF j < i THEN list[j] ELSE list[j + 1]
  BY <1>1, RemoveAtFacts
<1>3. i \in 1 .. n
  OBVIOUS
<1>4. /\ \A j \in 1 .. n : EntryOK(t, list[j], tk, rn)
      /\ \A j, k \in 1 .. n : j < k => list[j].id < list[k].id
  BY DEF ListOK
<1> HIDE DEF r, n
<1> DEFINE at(j) == IF j < i THEN j ELSE j + 1
<1>5. \A j \in 1 .. n - 1 : at(j) \in 1 .. n /\ r[j] = list[at(j)]
  BY <1>1, <1>2, <1>3
<1>6. \A j, k \in 1 .. n - 1 : j < k => at(j) < at(k)
  BY <1>1, <1>3
<1> HIDE DEF at
<1>7. \A j \in 1 .. n - 1 : EntryOK(t, r[j], tk, rn)
  BY <1>4, <1>5, Zenon
<1>8. \A j, k \in 1 .. n - 1 : j < k => r[j].id < r[k].id
  BY <1>4, <1>5, <1>6, Zenon
<1>9. ListOK(t, r, tk, rn)
  BY <1>2, <1>7, <1>8 DEF ListOK
<1>10. QED
  BY <1>9 DEF r

LEMMA RemovalOK ==
  ASSUME NEW t, NEW list, NEW tk, NEW rn, ListOK(t, list, tk, rn), NEW f
  PROVE  ListOK(t, RemovalLoop(list, f).list, tk, rn)
<1> DEFINE l == Len(list)
           S == [list : Seq(Pair), threw : BOOLEAN]
           Turn(s, i) == IF s.threw \/ i > Len(s.list)
                         THEN [s EXCEPT !.threw = TRUE]
                         ELSE IF s.list[i].fn = f
                              THEN [s EXCEPT !.list = RemoveAt(@, i)]
                              ELSE s
           base == [list |-> list, threw |-> FALSE]
           g == [x \in S \X (1 .. l) |-> Turn(x[1], x[2])]
           step[i \in 0 .. l] == IF i = 0 THEN base ELSE Turn(step[i - 1], i)
<1>1. RemovalLoop(list, f) = step[l]
  BY Zenon DEF RemovalLoop
<1>2. l \in Nat /\ list \in Seq(Pair) /\ base \in S
  BY DEF ListOK
<1>3. ASSUME NEW s \in S, NEW i \in 1 .. l
      PROVE  /\ Turn(s, i) \in S
             /\ Turn(s, i).list = s.list \/ (i \in 1 .. Len(s.list) /\ Turn(s, i).list = RemoveAt(s.list, i))
  <2>1. s.list \in Seq(Pair) /\ s.threw \in BOOLEAN
    OBVIOUS
  <2>2. CASE s.threw \/ i > Len(s.list)
    BY <2>1, <2>2
  <2>3. CASE ~(s.threw \/ i > Len(s.list)) /\ s.list[i].fn = f
    <3>1. i \in 1 .. Len(s.list)
      BY <1>2, <2>1, <2>3
    <3>2. RemoveAt(s.list, i) \in Seq(Pair)
      BY <2>1, <3>1, RemoveAtFacts
    <3>3. Turn(s, i) = [s EXCEPT !.list = RemoveAt(s.list, i)]
      BY <2>3, Zenon
    <3>4. QED
      BY <3>1, <3>2, <3>3
  <2>4. CASE ~(s.threw \/ i > Len(s.list)) /\ s.list[i].fn # f
    <3>1. Turn(s, i) = s
      BY <2>4, Zenon
    <3>2. QED
      BY <3>1
  <2>5. QED
    BY <2>2, <2>3, <2>4, Zenon
<1> HIDE DEF Turn, S, base, l
<1>4. g \in [S \X (1 .. l) -> S]
  BY <1>3
<1>5. \A s \in S, i \in 1 .. l : g[<<s, i>>] = Turn(s, i)
  OBVIOUS
<1> HIDE DEF g
<1>6. PICK h : IsLoop(h, S, base, l, g)
  BY <1>2, <1>4, LoopExists
<1>7. h = [i \in 0 .. l |-> IF i = 0 THEN base ELSE Turn(h[i - 1], i)]
  <2>1. ASSUME NEW i \in 0 .. l, i # 0 PROVE g[<<h[i - 1], i>>] = Turn(h[i - 1], i)
    <3>1. i \in 1 .. l /\ i - 1 \in 0 .. l
      BY <1>2, <2>1
    <3>2. QED
      BY <1>5, <1>6, <3>1 DEF IsLoop
  <2>2. QED
    BY <1>6, <2>1 DEF IsLoop
<1>8. step = [i \in 0 .. l |-> IF i = 0 THEN base ELSE Turn(step[i - 1], i)]
  BY <1>7, Zenon
<1> HIDE DEF step
<1> DEFINE T == {i \in 0 .. l : step[i] \in S /\ ListOK(t, step[i].list, tk, rn)}
<1>9. 0 \in T
  <2>1. 0 \in 0 .. l
    BY <1>2
  <2>2. step[0] = base
    BY <1>8, <2>1
  <2>3. base.list = list
    BY DEF base
  <2>4. QED
    BY <1>2, <2>1, <2>2, <2>3
<1>10. ASSUME NEW i \in 1 .. l, i - 1 \in T PROVE i \in T
  <2>1. i \in 0 .. l /\ i - 1 \in 0 .. l /\ i # 0
    BY <1>2
  <2>2. step[i] = Turn(step[i - 1], i)
    BY <1>8, <2>1
  <2>3. step[i - 1] \in S /\ ListOK(t, step[i - 1].list, tk, rn)
    BY <1>10
  <2>4. step[i] \in S
    BY <1>3, <2>2, <2>3
  <2>5. ListOK(t, step[i].list, tk, rn)
    BY <1>3, <2>2, <2>3, RemoveAtOK
  <2>6. QED
    BY <2>1, <2>4, <2>5
<1> HIDE DEF T
<1>11. l \in T
  BY <1>2, <1>9, <1>10, LoopInduction
<1>12. QED
  BY <1>1, <1>11 DEF T

LEMMA SplicedOK ==
  ASSUME NEW t, NEW list, NEW tk, NEW rn, ListOK(t, list, tk, rn), NEW indices \in Seq(Nat)
  PROVE  /\ ListOK(t, Spliced(list, indices), tk, rn)
         /\ indices = <<>> => Spliced(list, indices) = list
<1> DEFINE l == Len(indices)
           S == Seq(Pair)
           Turn(s, i) == IF indices[i] \in DOMAIN s THEN RemoveAt(s, indices[i]) ELSE s
           g == [x \in S \X (1 .. l) |-> Turn(x[1], x[2])]
           after[n \in 0 .. l] == IF n = 0 THEN list ELSE Turn(after[n - 1], n)
<1>1. Spliced(list, indices) = after[l]
  BY Zenon DEF Spliced
<1>2. l \in Nat /\ list \in S
  BY DEF ListOK
<1>3. ASSUME NEW s \in S, NEW i \in 1 .. l
      PROVE  /\ Turn(s, i) \in S
             /\ Turn(s, i) = s \/ (indices[i] \in 1 .. Len(s) /\ Turn(s, i) = RemoveAt(s, indices[i]))
  <2>1. DOMAIN s = 1 .. Len(s)
    OBVIOUS
  <2>2. CASE indices[i] \in 1 .. Len(s)
    BY <2>1, <2>2, RemoveAtFacts
  <2>3. CASE indices[i] \notin 1 .. Len(s)
    BY <2>1, <2>3
  <2>4. QED
    BY <2>2, <2>3
<1> HIDE DEF Turn, S, l
<1>4. g \in [S \X (1 .. l) -> S]
  BY <1>3
<1>5. \A s \in S, i \in 1 .. l : g[<<s, i>>] = Turn(s, i)
  OBVIOUS
<1> HIDE DEF g
<1>6. PICK h : IsLoop(h, S, list, l, g)
  BY <1>2, <1>4, LoopExists
<1>7. h = [i \in 0 .. l |-> IF i = 0 THEN list ELSE Turn(h[i - 1], i)]
  <2>1. ASSUME NEW i \in 0 .. l, i # 0 PROVE g[<<h[i - 1], i>>] = Turn(h[i - 1], i)
    <3>1. i \in 1 .. l /\ i - 1 \in 0 .. l
      BY <1>2, <2>1
    <3>2. QED
      BY <1>5, <1>6, <3>1 DEF IsLoop
  <2>2. QED
    BY <1>6, <2>1 DEF IsLoop
<1>8. after = [i \in 0 .. l |-> IF i = 0 THEN list ELSE Turn(after[i - 1], i)]
  BY <1>7, Zenon
<1> HIDE DEF after
<1> DEFINE T == {i \in 0 .. l : after[i] \in S /\ ListOK(t, after[i], tk, rn)}
<1>9. 0 \in 0 .. l /\ after[0] = list
  <2>1. 0 \in 0 .. l
    BY <1>2
  <2>2. QED
    BY <1>8, <2>1
<1>10. 0 \in T
  BY <1>2, <1>9
<1>11. ASSUME NEW i \in 1 .. l, i - 1 \in T PROVE i \in T
  <2>1. i \in 0 .. l /\ i - 1 \in 0 .. l /\ i # 0
    BY <1>2
  <2>2. after[i] = Turn(after[i - 1], i)
    BY <1>8, <2>1
  <2>3. after[i - 1] \in S /\ ListOK(t, after[i - 1], tk, rn)
    BY <1>11
  <2>4. after[i] \in S
    BY <1>3, <2>2, <2>3
  <2>5. ListOK(t, after[i], tk, rn)
    BY <1>3, <2>2, <2>3, RemoveAtOK
  <2>6. QED
    BY <2>1, <2>4, <2>5
<1> HIDE DEF T
<1>12. l \in T
  BY <1>2, <1>10, <1>11, LoopInduction
<1>13. indices = <<>> => l = 0
  BY EmptySeq DEF l
<1>14. QED
  BY <1>1, <1>9, <1>12, <1>13 DEF T

-----------------------------------------------------------------------------
(* The calls under way                                                     *)

IdsTo(list, m) == {list[j].id : j \in 1 .. m}

(* A call from whose list nothing was taken has it as it was, but for      *)
(* listeners added since, and has reached those before its index.          *)
FrameOK(fr, list) ==
  /\ fr.i >= 1
  /\ fr.quiet =>
       /\ fr.l <= Len(list) /\ fr.i <= fr.l + 1
       /\ fr.present = IdsTo(list, fr.l)
       /\ fr.reached = IdsTo(list, fr.i - 1)

LEMMA SameIds ==
  ASSUME NEW list, NEW other, NEW m, \A j \in 1 .. m : other[j].id = list[j].id
  PROVE  IdsTo(other, m) = IdsTo(list, m)
BY DEF IdsTo

LEMMA NextId ==
  ASSUME NEW list, NEW m \in Nat \ {0}
  PROVE  IdsTo(list, m) = IdsTo(list, m - 1) \cup {list[m].id}
<1>1. \A j : j \in 1 .. m <=> (j \in 1 .. m - 1 \/ j = m)
  OBVIOUS
<1>2. QED
  BY <1>1 DEF IdsTo

LEMMA FrameKept ==
  ASSUME NEW fr \in Frame, NEW list, NEW other, FrameOK(fr, list),
         Len(list) \in Nat, Len(other) \in Nat, Len(list) <= Len(other),
         \A j \in 1 .. Len(list) : other[j].id = list[j].id
  PROVE  FrameOK(fr, other)
<1>1. fr.i \in Nat /\ fr.l \in Nat /\ fr.i >= 1
  BY DEF Frame, FrameOK
<1>2. ASSUME fr.quiet PROVE /\ fr.l <= Len(other) /\ fr.i <= fr.l + 1
                            /\ fr.present = IdsTo(other, fr.l)
                            /\ fr.reached = IdsTo(other, fr.i - 1)
  <2>1. /\ fr.l <= Len(list) /\ fr.i <= fr.l + 1
        /\ fr.present = IdsTo(list, fr.l) /\ fr.reached = IdsTo(list, fr.i - 1)
    BY <1>2 DEF FrameOK
  <2>2. \A j \in 1 .. fr.l : j \in 1 .. Len(list)
    BY <1>1, <2>1
  <2>3. \A j \in 1 .. fr.i - 1 : j \in 1 .. Len(list)
    BY <1>1, <2>1
  <2>4. IdsTo(other, fr.l) = IdsTo(list, fr.l)
    BY <2>2, SameIds
  <2>5. IdsTo(other, fr.i - 1) = IdsTo(list, fr.i - 1)
    BY <2>3, SameIds
  <2>6. QED
    BY <1>1, <2>1, <2>4, <2>5
<1>3. QED
  BY <1>1, <1>2 DEF FrameOK

LEMMA DisturbedFacts ==
  ASSUME NEW fs \in Seq(Frame), NEW t
  PROVE  /\ Disturbed(fs, t) \in Seq(Frame) /\ Len(Disturbed(fs, t)) = Len(fs)
         /\ \A j \in 1 .. Len(fs) :
              /\ Disturbed(fs, t)[j].topic = fs[j].topic
              /\ fs[j].topic # t => Disturbed(fs, t)[j] = fs[j]
              /\ fs[j].topic = t => /\ Disturbed(fs, t)[j].quiet = FALSE
                                    /\ Disturbed(fs, t)[j].i = fs[j].i
<1> DEFINE r == Disturbed(fs, t)
           n == Len(fs)
           at(j) == IF fs[j].topic = t THEN [fs[j] EXCEPT !.quiet = FALSE] ELSE fs[j]
<1>1. n \in Nat /\ DOMAIN fs = 1 .. n /\ \A j \in 1 .. n : fs[j] \in Frame
  OBVIOUS
<1>2. r = [j \in 1 .. n |-> at(j)]
  BY <1>1 DEF Disturbed
<1>3. ASSUME NEW j \in 1 .. n
      PROVE  /\ at(j) \in Frame /\ at(j).topic = fs[j].topic
             /\ fs[j].topic # t => at(j) = fs[j]
             /\ fs[j].topic = t => at(j).quiet = FALSE /\ at(j).i = fs[j].i
  <2>1. fs[j] \in Frame
    BY <1>1
  <2>2. QED
    BY <2>1 DEF Frame
<1> HIDE DEF r, at, n
<1>4. r \in [1 .. n -> Frame]
  BY <1>2, <1>3
<1>5. r \in Seq(Frame) /\ Len(r) = n
  BY <1>1, <1>4
<1>6. \A j \in 1 .. n : r[j] = at(j)
  BY <1>2
<1>7. QED
  BY <1>3, <1>5, <1>6 DEF r, n

FramesOK(fs, ts) == \A d \in 1 .. Len(fs) : FrameOK(fs[d], ts[fs[d].topic])

BusInv ==
  /\ PubSubTypeOK
  /\ \A t \in Topics : ListOK(t, topics[t], tokens, ran)
  /\ \A n \in Ids : n > Len(tokens) => ran[n] = 0
  /\ OnceIsOnce
  /\ FramesOK(frames, topics)

(* Only the list of topic t has changed, and the calls on it know.         *)
LEMMA FramesDisturbed ==
  ASSUME NEW fs \in Seq(Frame), NEW ts, NEW t \in Topics, NEW list,
         ts \in [Topics -> Seq(Pair)], FramesOK(fs, ts)
  PROVE  FramesOK(Disturbed(fs, t), [ts EXCEPT ![t] = list])
<1> DEFINE gs == Disturbed(fs, t)
           us == [ts EXCEPT ![t] = list]
<1>0. Len(gs) = Len(fs)
  BY DisturbedFacts
<1>1a. SUFFICES ASSUME NEW d \in 1 .. Len(fs) PROVE FrameOK(gs[d], us[gs[d].topic])
  <2> HIDE DEF gs, us
  <2>1. FramesOK(gs, us)
    BY <1>0, <1>1a DEF FramesOK
  <2>2. QED
    BY <2>1 DEF gs, us
<1>1. fs[d] \in Frame /\ FrameOK(fs[d], ts[fs[d].topic])
  BY DEF FramesOK
<1>2. /\ gs[d].topic = fs[d].topic
      /\ fs[d].topic # t => gs[d] = fs[d]
      /\ fs[d].topic = t => gs[d].quiet = FALSE /\ gs[d].i = fs[d].i
  BY DisturbedFacts
<1> HIDE DEF gs
<1>3. CASE fs[d].topic = t
  BY <1>1, <1>2, <1>3 DEF FrameOK
<1>4. CASE fs[d].topic # t
  <2>1. fs[d].topic \in Topics
    BY <1>1 DEF Frame
  <2>2. us[fs[d].topic] = ts[fs[d].topic]
    BY <1>4, <2>1
  <2>3. QED
    BY <1>1, <1>2, <1>4, <2>2
<1>5. QED
  BY <1>3, <1>4

LEMMA BusFacts ==
  ASSUME BusInv
  PROVE  /\ topics \in [Topics -> Seq(Pair)] /\ frames \in Seq(Frame) /\ Len(frames) \in Nat
         /\ tokens \in Seq(Token) /\ Len(tokens) \in Nat /\ DOMAIN tokens = 1 .. Len(tokens)
         /\ Len(tokens) <= MaxListeners /\ MaxListeners \in Nat
         /\ ran \in [Ids -> Nat] /\ dropped \subseteq Ids
         /\ \A t \in Topics : Len(topics[t]) \in Nat
BY PubSubAssumption DEF BusInv, PubSubTypeOK

LEMMA BusInit == PubSubInit => BusInv
<1> SUFFICES ASSUME PubSubInit PROVE BusInv
  OBVIOUS
<1>1. /\ topics = [t \in Topics |-> <<>>]
      /\ frames = <<>> /\ tokens = <<>> /\ published = 0
      /\ ran = [n \in Ids |-> 0] /\ dropped = {}
  BY DEF PubSubInit
<1>2. Len(<<>>) = 0 /\ \A S : <<>> \in Seq(S)
  BY EmptySeq
<1>3. {MaxListeners, MaxPublish, MaxDepth} \subseteq Nat
  BY PubSubAssumption
<1>4. PubSubTypeOK
  <2>1. topics \in [Topics -> Seq(Pair)]
    BY <1>1, <1>2
  <2>2. QED
    BY <1>1, <1>2, <1>3, <2>1 DEF PubSubTypeOK
<1>5. \A t \in Topics : ListOK(t, topics[t], tokens, ran)
  <2> DEFINE e == <<>>
  <2>1. e \in Seq(Pair) /\ Len(e) = 0
    BY <1>2
  <2>2. \A t \in Topics : topics[t] = e
    BY <1>1
  <2> HIDE DEF e
  <2>3. \A t \in Topics : ListOK(t, e, tokens, ran)
    BY <2>1 DEF ListOK
  <2>4. QED
    BY <2>2, <2>3
<1>6. OnceIsOnce /\ FramesOK(frames, topics)
  BY <1>1, <1>2 DEF OnceIsOnce, FramesOK
<1>7. \A n \in Ids : ran[n] = 0
  BY <1>1
<1>8. QED
  BY <1>4, <1>5, <1>6, <1>7 DEF BusInv

LEMMA SubscribeInv ==
  ASSUME BusInv, NEW t \in Topics, NEW f \in Callbacks, NEW o \in BOOLEAN, Subscribe(t, f, o)
  PROVE  BusInv'
<1> DEFINE n == Len(tokens)
           token == [topic |-> t, callback |-> f, once |-> o]
           e == [fn |-> f, once |-> o, id |-> n + 1]
           list == Append(topics[t], e)
<1>1. /\ n < MaxListeners /\ tokens' = Append(tokens, token)
      /\ topics' = [topics EXCEPT ![t] = list]
      /\ frames' = frames /\ published' = published /\ ran' = ran /\ dropped' = dropped
  BY DEF Subscribe
<1>2. token \in Token /\ e.id = n + 1 /\ e.once = o /\ token.once = o /\ token.topic = t
  BY DEF Token
<1>3. n \in Nat /\ MaxListeners \in Nat /\ tokens \in Seq(Token)
  BY BusFacts
<1>4. e \in Pair /\ n + 1 \in Ids
  BY <1>1, <1>3 DEF Pair, Ids
<1>5. ran[n + 1] = 0
  BY <1>3, <1>4 DEF BusInv
<1> HIDE DEF n, token, e
<1>6. /\ tokens' \in Seq(Token) /\ Len(tokens') = n + 1 /\ tokens'[n + 1] = token
      /\ \A i \in 1 .. n : tokens'[i] = tokens[i]
  BY <1>1, <1>2, <1>3, AppendProperties DEF n
<1>7. /\ list \in Seq(Pair) /\ Len(list) = Len(topics[t]) + 1 /\ list[Len(topics[t]) + 1] = e
      /\ \A j \in 1 .. Len(topics[t]) : list[j] = topics[t][j]
      /\ Len(topics[t]) \in Nat
  BY <1>4, BusFacts, AppendProperties
<1> HIDE DEF list
<1>8. \A u \in Topics : topics'[u] = IF u = t THEN list ELSE topics[u]
  BY <1>1, BusFacts
<1>9. PubSubTypeOK'
  <2>1. topics' \in [Topics -> Seq(Pair)]
    BY <1>1, <1>7, BusFacts
  <2>2. Len(tokens') <= MaxListeners
    BY <1>1, <1>3, <1>6
  <2>3. QED
    BY <1>1, <1>6, <2>1, <2>2 DEF BusInv, PubSubTypeOK
<1>10. ASSUME NEW u \in Topics, NEW j \in 1 .. Len(topics[u])
       PROVE  /\ EntryOK(u, topics[u][j], tokens', ran)
              /\ topics[u][j].id \in 1 .. n
  <2>1. EntryOK(u, topics[u][j], tokens, ran)
    BY DEF BusInv, ListOK
  <2>2. topics[u][j].id \in 1 .. n
    BY <2>1 DEF EntryOK, n
  <2>3. topics[u][j].id \in 1 .. n + 1 /\ tokens'[topics[u][j].id] = tokens[topics[u][j].id]
    BY <1>3, <1>6, <2>2
  <2>4. QED
    BY <1>6, <2>1, <2>2, <2>3 DEF EntryOK
<1>11. ASSUME NEW u \in Topics PROVE ListOK(u, topics'[u], tokens', ran')
  <2>1. /\ topics[u] \in Seq(Pair) /\ Len(topics[u]) \in Nat
        /\ \A j, k \in 1 .. Len(topics[u]) : j < k => topics[u][j].id < topics[u][k].id
    BY DEF BusInv, ListOK
  <2>2. CASE u # t
    <3>1. topics'[u] = topics[u]
      BY <1>8, <2>2
    <3>2. QED
      BY <1>1, <1>10, <2>1, <3>1 DEF ListOK
  <2>3. CASE u = t
    <3> DEFINE m == Len(topics[t])
    <3>1. topics'[u] = list /\ m \in Nat /\ Len(list) = m + 1
      BY <1>7, <1>8, <2>3
    <3>2. EntryOK(u, e, tokens', ran)
      <4>1. n + 1 \in 1 .. n + 1 /\ ~(ran[n + 1] > 0)
        BY <1>3, <1>5
      <4>2. QED
        BY <1>2, <1>6, <2>3, <4>1 DEF EntryOK
    <3>3. \A j \in 1 .. m + 1 : EntryOK(u, list[j], tokens', ran)
      <4> SUFFICES ASSUME NEW j \in 1 .. m + 1 PROVE EntryOK(u, list[j], tokens', ran)
        OBVIOUS
      <4>1. CASE j = m + 1
        BY <1>7, <3>2, <4>1
      <4>2. CASE j # m + 1
        <5>1. j \in 1 .. m
          BY <3>1, <4>2
        <5>2. QED
          BY <1>7, <1>10, <2>3, <5>1
      <4>3. QED
        BY <4>1, <4>2
    <3>4. \A j, k \in 1 .. m + 1 : j < k => list[j].id < list[k].id
      <4> SUFFICES ASSUME NEW j \in 1 .. m + 1, NEW k \in 1 .. m + 1, j < k
                   PROVE  list[j].id < list[k].id
        OBVIOUS
      <4>1. j \in 1 .. m /\ list[j] = topics[t][j] /\ list[j].id \in 1 .. n
        <5>1. j \in 1 .. m
          BY <3>1
        <5>2. QED
          BY <1>7, <1>10, <2>3, <5>1
      <4>2. CASE k = m + 1
        BY <1>2, <1>3, <1>7, <4>1, <4>2
      <4>3. CASE k # m + 1
        <5>1. k \in 1 .. m
          BY <3>1, <4>3
        <5>2. QED
          BY <1>7, <2>1, <2>3, <4>1, <5>1
      <4>4. QED
        BY <4>2, <4>3
    <3>5. QED
      BY <1>1, <1>7, <3>1, <3>3, <3>4 DEF ListOK
  <2>4. QED
    BY <2>2, <2>3
<1>12. (\A i \in Ids : i > Len(tokens) => ran[i] = 0)'
  <2>1. \A i \in Ids : i > n => ran[i] = 0
    BY DEF BusInv, n
  <2>2. \A i \in Ids : i > n + 1 => i > n
    BY <1>3 DEF Ids
  <2>3. QED
    BY <1>1, <1>6, <2>1, <2>2 DEF Ids
<1>13. OnceIsOnce'
  <2> SUFFICES ASSUME NEW i \in DOMAIN tokens', tokens'[i].once PROVE ran[i] <= 1
    BY <1>1 DEF OnceIsOnce
  <2>1. i \in 1 .. n + 1
    BY <1>6
  <2>2. CASE i = n + 1
    BY <1>5, <2>2
  <2>3. CASE i # n + 1
    <3>1. i \in 1 .. n /\ DOMAIN tokens = 1 .. n
      BY <1>3, <2>1, <2>3, BusFacts DEF n
    <3>2. QED
      BY <1>6, <3>1 DEF BusInv, OnceIsOnce
  <2>4. QED
    BY <2>2, <2>3
<1>14. FramesOK(frames, topics')
  <2> SUFFICES ASSUME NEW d \in 1 .. Len(frames) PROVE FrameOK(frames[d], topics'[frames[d].topic])
    BY DEF FramesOK
  <2>1. frames[d] \in Frame /\ FrameOK(frames[d], topics[frames[d].topic])
    BY BusFacts DEF BusInv, FramesOK
  <2>2. frames[d].topic \in Topics
    BY <2>1 DEF Frame
  <2>3. CASE frames[d].topic # t
    BY <1>8, <2>1, <2>2, <2>3
  <2>4. CASE frames[d].topic = t
    <3>1. topics'[frames[d].topic] = list
      BY <1>8, <2>2, <2>4
    <3>2. FrameOK(frames[d], topics[t])
      BY <2>1, <2>4
    <3>3. Len(topics[t]) <= Len(list) /\ Len(list) \in Nat
      BY <1>7
    <3>4. FrameOK(frames[d], list)
      BY <1>7, <2>1, <3>2, <3>3, FrameKept
    <3>5. QED
      BY <3>1, <3>4
  <2>5. QED
    BY <2>3, <2>4
<1>15. QED
  BY <1>1, <1>9, <1>11, <1>12, <1>13, <1>14 DEF BusInv

LEMMA FramesAfter ==
  ASSUME NEW fs \in Seq(Frame), NEW ts, NEW t \in Topics, NEW list, NEW gs,
         ts \in [Topics -> Seq(Pair)], FramesOK(fs, ts),
         \/ gs = fs /\ list = ts[t]
         \/ gs = Disturbed(fs, t)
         \/ gs = <<>>
  PROVE  /\ gs \in Seq(Frame) /\ Len(gs) <= Len(fs)
         /\ FramesOK(gs, [ts EXCEPT ![t] = list])
<1>1. CASE gs = fs /\ list = ts[t]
  <2> DEFINE us == [ts EXCEPT ![t] = ts[t]]
  <2>1. us = ts
    <3>1. us \in [Topics -> Seq(Pair)] /\ \A u \in Topics : us[u] = ts[u]
      OBVIOUS
    <3> HIDE DEF us
    <3>2. QED
      BY <3>1
  <2> HIDE DEF us
  <2>2. FramesOK(gs, us)
    BY <1>1, <2>1
  <2>3. QED
    BY <1>1, <2>2 DEF us
<1>2. CASE gs = Disturbed(fs, t)
  <2>1. gs \in Seq(Frame) /\ Len(gs) = Len(fs)
    BY <1>2, DisturbedFacts
  <2>2. FramesOK(gs, [ts EXCEPT ![t] = list])
    BY <1>2, FramesDisturbed
  <2>3. QED
    BY <2>1, <2>2
<1>3. CASE gs = <<>>
  <2>1. gs \in Seq(Frame) /\ Len(gs) = 0
    BY <1>3, EmptySeq
  <2>2. QED
    BY <2>1 DEF FramesOK
<1>4. QED
  BY <1>1, <1>2, <1>3

(* A step that gives topic t another list, and changes the calls.          *)
LEMMA ListReplaced ==
  ASSUME BusInv, NEW t \in Topics, NEW list, ListOK(t, list, tokens, ran),
         topics' = [topics EXCEPT ![t] = list],
         frames' \in Seq(Frame), Len(frames') <= MaxDepth, FramesOK(frames', topics'),
         tokens' = tokens, published' = published, ran' = ran, dropped' \subseteq Ids
  PROVE  BusInv'
<1>1. \A u \in Topics : ListOK(u, topics'[u], tokens', ran')
  <2> SUFFICES ASSUME NEW u \in Topics PROVE ListOK(u, topics'[u], tokens, ran)
    BY Zenon
  <2>1. CASE u = t
    BY <2>1, BusFacts
  <2>2. CASE u # t
    <3>1. topics'[u] = topics[u]
      BY <2>2, BusFacts
    <3>2. QED
      BY <3>1 DEF BusInv
  <2>3. QED
    BY <2>1, <2>2
<1>2. topics' \in [Topics -> Seq(Pair)]
  BY BusFacts DEF ListOK
<1>3. PubSubTypeOK'
  BY <1>2 DEF BusInv, PubSubTypeOK
<1>4. OnceIsOnce' /\ (\A n \in Ids : n > Len(tokens) => ran[n] = 0)'
  BY DEF BusInv, OnceIsOnce
<1>5. QED
  BY <1>1, <1>3, <1>4 DEF BusInv

LEMMA UnsubscribeInv ==
  ASSUME BusInv, NEW n \in DOMAIN tokens, Unsubscribe(n)
  PROVE  BusInv'
<1> DEFINE t == tokens[n].topic
           r == RemovalLoop(topics[t], tokens[n].callback)
           also == {j \in DOMAIN tokens : tokens[j].topic = t
                                          /\ tokens[j].callback = tokens[n].callback}
<1>1. /\ topics' = [topics EXCEPT ![t] = r.list]
      /\ dropped' = dropped \cup also
      /\ tokens' = tokens /\ published' = published /\ ran' = ran
  BY DEF Unsubscribe
<1>2. \/ frames' = frames /\ r.list = topics[t]
      \/ frames' = Disturbed(frames, t)
      \/ frames' = <<>>
  BY Zenon DEF Unsubscribe, TypeErrorThrown
<1>3. t \in Topics
  <2>1. tokens[n] \in Token
    BY BusFacts, ElementOfSeq
  <2>2. QED
    BY <2>1 DEF Token
<1>4. dropped' \subseteq Ids
  <2>1. also \subseteq DOMAIN tokens /\ DOMAIN tokens \subseteq Ids
    BY BusFacts DEF Ids
  <2> HIDE DEF also
  <2>2. QED
    BY <1>1, <2>1, BusFacts
<1> HIDE DEF also
<1>5. ListOK(t, r.list, tokens, ran)
  <2>1. ListOK(t, topics[t], tokens, ran)
    BY <1>3 DEF BusInv
  <2>2. QED
    BY <2>1, RemovalOK
<1> DEFINE list == r.list
<1> HIDE DEF list, r, t
<1>6. /\ frames' \in Seq(Frame) /\ Len(frames') <= Len(frames)
      /\ FramesOK(frames', [topics EXCEPT ![t] = r.list])
  <2>1. frames \in Seq(Frame) /\ topics \in [Topics -> Seq(Pair)] /\ FramesOK(frames, topics)
    BY BusFacts DEF BusInv
  <2>2. QED
    BY <1>2, <1>3, <2>1, FramesAfter
<1>7. Len(frames') <= MaxDepth
  <2>1. Len(frames) <= MaxDepth /\ Len(frames) \in Nat /\ Len(frames') \in Nat /\ MaxDepth \in Nat
    BY <1>6, PubSubAssumption DEF BusInv, PubSubTypeOK
  <2>2. QED
    BY <1>6, <2>1
<1>8. QED
  BY <1>1, <1>3, <1>4, <1>5, <1>6, <1>7, ListReplaced

LEMMA CallPastEndInv ==
  ASSUME BusInv, CallPastEnd
  PROVE  BusInv'
<1>1. /\ frames' = <<>>
      /\ topics' = topics /\ tokens' = tokens /\ published' = published
      /\ ran' = ran /\ dropped' = dropped
  BY DEF CallPastEnd, TypeErrorThrown
<1>2. frames' \in Seq(Frame) /\ Len(frames') = 0
  BY <1>1, EmptySeq
<1>3. PubSubTypeOK'
  BY <1>1, <1>2, PubSubAssumption DEF BusInv, PubSubTypeOK
<1>4. FramesOK(frames', topics')
  BY <1>2 DEF FramesOK
<1>5. OnceIsOnce'
  BY <1>1 DEF BusInv, OnceIsOnce
<1>6. QED
  BY <1>1, <1>3, <1>4, <1>5 DEF BusInv

LEMMA PublishEndsInv ==
  ASSUME BusInv, PublishEnds
  PROVE  BusInv'
<1> DEFINE fr == Last(frames)
           rest == Front(frames)
           list == Spliced(topics[fr.topic], fr.toremove)
<1>1. /\ frames # <<>> /\ topics' = [topics EXCEPT ![fr.topic] = list]
      /\ tokens' = tokens /\ published' = published /\ ran' = ran /\ dropped' = dropped
      /\ frames' = IF fr.toremove = <<>> THEN rest ELSE Disturbed(rest, fr.topic)
  BY DEF PublishEnds
<1>2. frames \in Seq(Frame) /\ Len(frames) \in Nat /\ topics \in [Topics -> Seq(Pair)]
  BY BusFacts
<1>3. /\ rest \in Seq(Frame) /\ Len(rest) = Len(frames) - 1 /\ fr \in Frame
      /\ \A j \in 1 .. Len(frames) - 1 : rest[j] = frames[j]
  <2>1. /\ rest \in Seq(Frame) /\ Len(rest) = Len(frames) - 1 /\ fr = frames[Len(frames)]
        /\ Len(frames) \in Nat \ {0}
        /\ \A j \in 1 .. Len(frames) - 1 : rest[j] = frames[j]
    BY <1>1, <1>2, FrontAndLast
  <2> HIDE DEF fr
  <2>2. fr \in Frame
    BY <1>2, <2>1, ElementOfSeq
  <2>3. QED
    BY <2>1, <2>2
<1>4. FramesOK(rest, topics)
  <2>1. \A j \in 1 .. Len(frames) - 1 : j \in 1 .. Len(frames)
    BY <1>2
  <2>2. \A j \in 1 .. Len(frames) : FrameOK(frames[j], topics[frames[j].topic])
    BY DEF BusInv, FramesOK
  <2> HIDE DEF rest
  <2>3. QED
    BY <1>3, <2>1, <2>2 DEF FramesOK
<1> HIDE DEF fr, rest
<1>5. fr.topic \in Topics /\ fr.toremove \in Seq(Nat)
  BY <1>3 DEF Frame
<1>6. /\ ListOK(fr.topic, list, tokens, ran)
      /\ fr.toremove = <<>> => list = topics[fr.topic]
  <2>1. ListOK(fr.topic, topics[fr.topic], tokens, ran)
    BY <1>5 DEF BusInv
  <2>2. QED
    BY <1>5, <2>1, SplicedOK
<1> HIDE DEF list
<1>7. \/ frames' = rest /\ list = topics[fr.topic]
      \/ frames' = Disturbed(rest, fr.topic)
  BY <1>1, <1>6, Zenon
<1>8. /\ frames' \in Seq(Frame) /\ Len(frames') <= Len(rest)
      /\ FramesOK(frames', [topics EXCEPT ![fr.topic] = list])
  BY <1>2, <1>3, <1>4, <1>5, <1>7, FramesAfter
<1>9. Len(frames') <= MaxDepth
  <2>1. Len(frames) <= MaxDepth /\ Len(frames') \in Nat /\ MaxDepth \in Nat
    BY <1>8, PubSubAssumption DEF BusInv, PubSubTypeOK
  <2>2. QED
    BY <1>2, <1>3, <1>8, <2>1
<1>10. dropped' \subseteq Ids
  BY <1>1, BusFacts
<1>11. QED
  BY <1>1, <1>5, <1>6, <1>8, <1>9, <1>10, ListReplaced

LEMMA PublishInv ==
  ASSUME BusInv, NEW t \in Topics, Publish(t)
  PROVE  BusInv'
<1> DEFINE fr == [topic |-> t, i |-> 1, l |-> Len(topics[t]), toremove |-> <<>>,
                  present |-> Held(t), reached |-> {}, quiet |-> TRUE]
           n == Len(frames)
<1>1. /\ published < MaxPublish /\ n < MaxDepth
      /\ published' = published + 1 /\ frames' = Append(frames, fr)
      /\ topics' = topics /\ tokens' = tokens /\ ran' = ran /\ dropped' = dropped
  BY DEF Publish
<1>2. /\ topics[t] \in Seq(Pair) /\ Len(topics[t]) \in Nat /\ n \in Nat
      /\ frames \in Seq(Frame)
  BY BusFacts
<1>3. Held(t) = IdsTo(topics[t], Len(topics[t])) /\ Held(t) \subseteq Ids
  <2>1. DOMAIN topics[t] = 1 .. Len(topics[t])
    BY <1>2
  <2>2. \A j \in 1 .. Len(topics[t]) : topics[t][j] \in Pair
    BY <1>2
  <2>3. QED
    BY <2>1, <2>2 DEF Held, IdsTo, Pair
<1>4. fr \in Frame
  <2>1. <<>> \in Seq(Nat)
    BY EmptySeq
  <2> DEFINE none == <<>>
  <2> HIDE DEF none
  <2>2. none \in Seq(Nat)
    BY <2>1 DEF none
  <2>3. fr = [topic |-> t, i |-> 1, l |-> Len(topics[t]), toremove |-> none,
              present |-> Held(t), reached |-> {}, quiet |-> TRUE]
    BY DEF none
  <2> HIDE DEF fr
  <2>4. QED
    BY <1>2, <1>3, <2>2, <2>3 DEF Frame
<1>5. FrameOK(fr, topics[t]) /\ fr.topic = t
  <2>1. /\ fr.i = 1 /\ fr.l = Len(topics[t]) /\ fr.present = Held(t) /\ fr.reached = {}
        /\ fr.topic = t
    OBVIOUS
  <2> HIDE DEF fr
  <2>2. IdsTo(topics[t], 1 - 1) = {}
    BY DEF IdsTo
  <2>3. QED
    BY <1>2, <1>3, <2>1, <2>2 DEF FrameOK
<1> HIDE DEF fr, n
<1>6. /\ frames' \in Seq(Frame) /\ Len(frames') = n + 1 /\ frames'[n + 1] = fr
      /\ \A d \in 1 .. n : frames'[d] = frames[d]
  BY <1>1, <1>2, <1>4, AppendProperties DEF n
<1>7. FramesOK(frames', topics')
  <2> SUFFICES ASSUME NEW d \in 1 .. n + 1 PROVE FrameOK(frames'[d], topics[frames'[d].topic])
    BY <1>1, <1>6 DEF FramesOK
  <2>1. CASE d = n + 1
    BY <1>5, <1>6, <2>1
  <2>2. CASE d # n + 1
    <3>1. d \in 1 .. n
      BY <1>2, <2>2
    <3>2. FrameOK(frames[d], topics[frames[d].topic])
      BY <3>1 DEF BusInv, FramesOK, n
    <3>3. QED
      BY <1>6, <3>1, <3>2
  <2>3. QED
    BY <2>1, <2>2
<1>8. PubSubTypeOK'
  <2>1. {MaxListeners, MaxPublish, MaxDepth} \subseteq Nat
    BY PubSubAssumption
  <2>2. published + 1 \in 0 .. MaxPublish /\ n + 1 <= MaxDepth
    BY <1>1, <1>2, <2>1 DEF BusInv, PubSubTypeOK
  <2>3. QED
    BY <1>1, <1>6, <2>2 DEF BusInv, PubSubTypeOK
<1>9. OnceIsOnce'
  BY <1>1 DEF BusInv, OnceIsOnce
<1>10. QED
  BY <1>1, <1>7, <1>8, <1>9 DEF BusInv

(* No entry is in two lists or twice in one.                               *)
LEMMA EntriesDiffer ==
  ASSUME BusInv, NEW t \in Topics, NEW u \in Topics,
         NEW i \in 1 .. Len(topics[t]), NEW j \in 1 .. Len(topics[u]),
         topics[t][i].id = topics[u][j].id
  PROVE  t = u /\ i = j
<1>1. ListOK(t, topics[t], tokens, ran) /\ ListOK(u, topics[u], tokens, ran)
  BY DEF BusInv
<1>2. t = u
  BY <1>1 DEF ListOK, EntryOK
<1>3. /\ i \in Nat /\ j \in Nat /\ i \in 1 .. Len(topics[t]) /\ j \in 1 .. Len(topics[t])
      /\ \A x \in 1 .. Len(topics[t]) : topics[t][x].id \in Nat
  BY <1>1, <1>2, BusFacts DEF ListOK, EntryOK
<1>4. ~(i < j)
  BY <1>1, <1>2, <1>3 DEF ListOK
<1>5. ~(j < i)
  BY <1>1, <1>2, <1>3 DEF ListOK
<1>6. QED
  BY <1>2, <1>3, <1>4, <1>5

(* What one turn of publish's loop does to the lists and to its own call.  *)
LEMMA CalledFacts ==
  ASSUME BusInv, CallListener, NEW d, d = Len(frames),
         NEW t, t = frames[d].topic, NEW i, i = frames[d].i,
         NEW p, p = topics[t][i]
  PROVE  /\ d \in 1 .. Len(frames) /\ frames[d] \in Frame /\ t \in Topics
         /\ i \in 1 .. Len(topics[t]) /\ i <= frames[d].l /\ p \in Pair
         /\ topics' \in [Topics -> Seq(Pair)]
         /\ \A u \in Topics :
              /\ Len(topics'[u]) = Len(topics[u])
              /\ \A j \in 1 .. Len(topics[u]) :
                   /\ topics'[u][j].id = topics[u][j].id
                   /\ topics'[u][j].once = topics[u][j].once
                   /\ topics[u][j].fn = EmptyFunc => topics'[u][j].fn = EmptyFunc
                   /\ u = t /\ j = i /\ p.once => topics'[u][j].fn = EmptyFunc
<1> DEFINE q == [p EXCEPT !.fn = EmptyFunc]
           list == [topics[t] EXCEPT ![i] = q]
<1>0. /\ frames # <<>> /\ i <= frames[d].l /\ i <= Len(topics[t])
      /\ p.once => topics' = [topics EXCEPT ![t] = list]
      /\ ~p.once => topics' = topics
  BY Zenon DEF CallListener
<1> HIDE DEF q, list
<1>1. /\ d \in 1 .. Len(frames) /\ frames[d] \in Frame
  <2>1. frames \in Seq(Frame) /\ frames # <<>>
    BY <1>0, BusFacts
  <2>2. d \in Nat \ {0}
    BY <2>1, FrontAndLast, Zenon
  <2>3. d \in 1 .. Len(frames)
    BY <2>2
  <2>4. QED
    BY <2>1, <2>3, ElementOfSeq
<1>2. /\ t \in Topics /\ i \in Nat /\ topics[t] \in Seq(Pair) /\ Len(topics[t]) \in Nat
      /\ i <= frames[d].l
  <2>1. t \in Topics /\ i \in Nat
    BY <1>1 DEF Frame
  <2>2. QED
    BY <1>0, <2>1, BusFacts
<1>3. i >= 1 /\ i <= Len(topics[t])
  <2>1. FrameOK(frames[d], topics[frames[d].topic])
    BY <1>1 DEF BusInv, FramesOK
  <2>2. QED
    BY <1>0, <2>1 DEF FrameOK
<1>4. i \in 1 .. Len(topics[t]) /\ p \in Pair
  BY <1>2, <1>3, ElementOfSeq
<1>5. CASE ~p.once
  <2>1. topics' = topics
    BY <1>0, <1>5
  <2>2. QED
    BY <1>1, <1>2, <1>4, <1>5, <2>1, BusFacts
<1>6. CASE p.once
  <2>1. topics' = [topics EXCEPT ![t] = list]
    BY <1>0, <1>6
  <2>2. q \in Pair /\ q.id = p.id /\ q.once = p.once /\ q.fn = EmptyFunc
    BY <1>4 DEF Pair, q
  <2>3. /\ list \in Seq(Pair) /\ Len(list) = Len(topics[t]) /\ list[i] = q
        /\ \A j \in 1 .. Len(topics[t]) : j # i => list[j] = topics[t][j]
    BY <1>2, <1>4, <2>2, ExceptSeq DEF list
  <2>4. \A u \in Topics : topics'[u] = IF u = t THEN list ELSE topics[u]
    BY <2>1, BusFacts
  <2>5. topics' \in [Topics -> Seq(Pair)]
    BY <1>2, <2>1, <2>3, BusFacts
  <2>6. ASSUME NEW u \in Topics
        PROVE  /\ Len(topics'[u]) = Len(topics[u])
               /\ \A j \in 1 .. Len(topics[u]) :
                   /\ topics'[u][j].id = topics[u][j].id
                   /\ topics'[u][j].once = topics[u][j].once
                   /\ topics[u][j].fn = EmptyFunc => topics'[u][j].fn = EmptyFunc
                   /\ u = t /\ j = i /\ p.once => topics'[u][j].fn = EmptyFunc
    <3>1. CASE u # t
      BY <2>4, <3>1
    <3>2. CASE u = t
      <4>1. topics'[u] = list
        BY <2>4, <3>2
      <4>2. ASSUME NEW j \in 1 .. Len(topics[u])
            PROVE  list[j] = IF j = i THEN q ELSE topics[u][j]
        BY <2>3, <3>2
      <4>3. QED
        BY <2>2, <2>3, <3>2, <4>1, <4>2
    <3>3. QED
      BY <3>1, <3>2
  <2>7. QED
    BY <1>1, <1>2, <1>4, <2>5, <2>6
<1>7. QED
  BY <1>5, <1>6

LEMMA CallListenerInv ==
  ASSUME BusInv, CallListener
  PROVE  BusInv'
<1> DEFINE d == Len(frames)
           fr == frames[d]
           t == fr.topic
           i == fr.i
           p == topics[t][i]
           nf == [fr EXCEPT !.i = i + 1, !.reached = fr.reached \cup {p.id},
                            !.toremove = IF p.once THEN Append(fr.toremove, i) ELSE fr.toremove]
           list == topics[t]
<1>5. p = list[i] /\ t = fr.topic /\ i = fr.i /\ fr = frames[d] /\ p = topics[t][i] /\ d = Len(frames)
  OBVIOUS
<1>3. /\ frames' = [frames EXCEPT ![d] = nf]
      /\ ran' = (IF p.fn = EmptyFunc THEN ran ELSE [ran EXCEPT ![p.id] = @ + 1])
      /\ tokens' = tokens /\ published' = published /\ dropped' = dropped
  <2>1. frames' = [frames EXCEPT ![d] = nf]
    BY Zenon DEF CallListener
  <2>2. ran' = (IF p.fn = EmptyFunc THEN ran ELSE [ran EXCEPT ![p.id] = @ + 1])
    BY Zenon DEF CallListener
  <2>3. tokens' = tokens /\ published' = published /\ dropped' = dropped
    BY Zenon DEF CallListener
  <2>4. QED
    BY <2>1, <2>2, <2>3, Zenon
<1> HIDE DEF p, i, t, fr, d, list
<1>1. /\ d \in 1 .. Len(frames) /\ fr \in Frame /\ t \in Topics
      /\ i \in 1 .. Len(topics[t]) /\ i <= fr.l /\ p \in Pair
      /\ topics' \in [Topics -> Seq(Pair)]
  BY <1>5, CalledFacts
<1>2. ASSUME NEW u \in Topics
      PROVE  /\ Len(topics'[u]) = Len(topics[u])
             /\ \A j \in 1 .. Len(topics[u]) :
                  /\ topics'[u][j].id = topics[u][j].id
                  /\ topics'[u][j].once = topics[u][j].once
                  /\ topics[u][j].fn = EmptyFunc => topics'[u][j].fn = EmptyFunc
                  /\ u = t /\ j = i /\ p.once => topics'[u][j].fn = EmptyFunc
  BY <1>5, CalledFacts
<1>4. /\ nf \in Frame /\ nf.topic = t /\ nf.i = i + 1 /\ nf.l = fr.l /\ nf.quiet = fr.quiet
      /\ nf.present = fr.present /\ nf.reached = fr.reached \cup {p.id}
  <2> DEFINE gone == IF p.once THEN Append(fr.toremove, i) ELSE fr.toremove
  <2>1. fr.toremove \in Seq(Nat) /\ i \in Nat
    BY <1>1 DEF Frame
  <2>2. gone \in Seq(Nat)
    BY <2>1, AppendProperties
  <2> DEFINE more == fr.reached \cup {p.id}
  <2>4. more \in SUBSET Ids
    BY <1>1 DEF Pair, Frame
  <2>3. nf = [fr EXCEPT !.i = i + 1, !.reached = more, !.toremove = gone]
    OBVIOUS
  <2> HIDE DEF gone, more, nf
  <2>5. nf \in Frame
    <3>1. i + 1 \in Nat
      BY <2>1
    <3>2. QED
      BY <1>1, <2>2, <2>3, <2>4, <3>1 DEF Frame
  <2>6. /\ nf.topic = fr.topic /\ nf.i = i + 1 /\ nf.l = fr.l /\ nf.quiet = fr.quiet
        /\ nf.present = fr.present /\ nf.reached = fr.reached \cup {p.id}
    BY <1>1, <2>3 DEF Frame, more
  <2>7. QED
    BY <1>5, <2>5, <2>6
<1> HIDE DEF nf
<1>6. EntryOK(t, p, tokens, ran)
  BY <1>1, <1>5 DEF BusInv, ListOK
<1>7. p.id \in 1 .. Len(tokens) /\ p.id \in Ids /\ p.once = tokens[p.id].once
  BY <1>1, <1>6 DEF EntryOK, Pair
<1>8. ran' \in [Ids -> Nat] /\ \A k \in Ids : ran'[k] = ran[k] \/ (k = p.id /\ p.fn # EmptyFunc /\ ran'[k] = ran[k] + 1)
  BY <1>3, <1>7, BusFacts
<1>9. /\ frames' \in Seq(Frame) /\ Len(frames') = Len(frames) /\ frames'[d] = nf
      /\ \A k \in 1 .. Len(frames) : k # d => frames'[k] = frames[k]
  BY <1>1, <1>3, <1>4, BusFacts, ExceptSeq
<1>10. PubSubTypeOK'
  BY <1>1, <1>3, <1>8, <1>9 DEF BusInv, PubSubTypeOK
<1>11. ASSUME NEW u \in Topics PROVE ListOK(u, topics'[u], tokens', ran')
  <2>1. ListOK(u, topics[u], tokens, ran)
    BY DEF BusInv
  <2>2. ASSUME NEW j \in 1 .. Len(topics[u])
        PROVE  EntryOK(u, topics'[u][j], tokens, ran')
    <3>1. EntryOK(u, topics[u][j], tokens, ran)
      BY <2>1 DEF ListOK
    <3>2. /\ topics'[u][j].id = topics[u][j].id
          /\ topics'[u][j].once = topics[u][j].once
          /\ topics[u][j].fn = EmptyFunc => topics'[u][j].fn = EmptyFunc
          /\ u = t /\ j = i /\ p.once => topics'[u][j].fn = EmptyFunc
      BY <1>2
    <3>3. topics[u][j].id \in Ids
      BY <3>1, BusFacts DEF EntryOK, Ids
    <3>4. ASSUME topics[u][j].once, ran'[topics[u][j].id] > 0 PROVE topics'[u][j].fn = EmptyFunc
      <4>1. CASE topics[u][j].id = p.id
        <5>1. u = t /\ j = i
          <6>1. topics[t][i].id = topics[u][j].id /\ i \in 1 .. Len(topics[t]) /\ t \in Topics
            BY <1>1, <1>5, <4>1
          <6>2. QED
            BY <6>1, EntriesDiffer
        <5>2. p = topics[u][j]
          BY <1>5, <5>1 DEF list
        <5>3. QED
          BY <3>2, <3>4, <5>1, <5>2
      <4>2. CASE topics[u][j].id # p.id
        <5>1. ran'[topics[u][j].id] = ran[topics[u][j].id]
          BY <1>8, <3>3, <4>2
        <5>2. QED
          BY <3>1, <3>2, <3>4, <5>1 DEF EntryOK
      <4>3. QED
        BY <4>1, <4>2
    <3>5. QED
      BY <3>1, <3>2, <3>4 DEF EntryOK
  <2>3. topics'[u] \in Seq(Pair) /\ Len(topics'[u]) = Len(topics[u])
    BY <1>1, <1>2
  <2>4. \A j, k \in 1 .. Len(topics[u]) : j < k => topics'[u][j].id < topics'[u][k].id
    BY <1>2, <2>1 DEF ListOK
  <2>5. QED
    BY <1>3, <2>2, <2>3, <2>4 DEF ListOK
<1>12. (\A k \in Ids : k > Len(tokens) => ran[k] = 0)'
  <2> SUFFICES ASSUME NEW k \in Ids, k > Len(tokens) PROVE ran'[k] = 0
    BY <1>3 DEF Ids
  <2>1. k # p.id /\ ran[k] = 0
    BY <1>7, BusFacts DEF BusInv, Ids
  <2>2. QED
    BY <1>8, <2>1
<1>13. OnceIsOnce'
  <2> SUFFICES ASSUME NEW k \in DOMAIN tokens, tokens[k].once PROVE ran'[k] <= 1
    BY <1>3 DEF OnceIsOnce
  <2>1. ran[k] <= 1 /\ k \in Ids /\ ran[k] \in Nat
    BY BusFacts DEF BusInv, OnceIsOnce, Ids
  <2>2. CASE ran'[k] = ran[k]
    BY <2>1, <2>2
  <2>3. CASE k = p.id /\ p.fn # EmptyFunc /\ ran'[k] = ran[k] + 1
    <3>1. ~(ran[k] > 0)
      BY <1>6, <1>7, <2>3 DEF EntryOK
    <3>2. QED
      BY <2>1, <2>3, <3>1
  <2>4. QED
    BY <1>8, <2>1, <2>2, <2>3
<1>14. FramesOK(frames', topics')
  <2> SUFFICES ASSUME NEW k \in 1 .. Len(frames) PROVE FrameOK(frames'[k], topics'[frames'[k].topic])
    BY <1>9 DEF FramesOK
  <2>1. frames[k] \in Frame /\ FrameOK(frames[k], topics[frames[k].topic])
    BY BusFacts, ElementOfSeq DEF BusInv, FramesOK
  <2>2. frames[k].topic \in Topics
    BY <2>1 DEF Frame
  <2> DEFINE before == topics[frames[k].topic]
             after == topics'[frames[k].topic]
  <2>3. /\ Len(before) \in Nat /\ Len(after) = Len(before)
        /\ \A j \in 1 .. Len(before) : after[j].id = before[j].id
    BY <1>2, <2>2, BusFacts
  <2> HIDE DEF before, after
  <2>4. FrameOK(frames[k], after)
    <3>1. FrameOK(frames[k], before)
      BY <2>1 DEF before
    <3>2. Len(after) \in Nat /\ Len(before) <= Len(after)
      BY <2>3
    <3>3. QED
      BY <2>1, <2>3, <3>1, <3>2, FrameKept
  <2>5. CASE k # d
    BY <1>9, <2>4, <2>5 DEF after
  <2>6. CASE k = d
    <3>1. frames[k] = fr /\ frames'[k] = nf
      BY <1>5, <1>9, <2>6
    <3>2. /\ before = list /\ after[i].id = list[i].id /\ nf.topic = frames[k].topic
      <4>1. before = list
        BY <1>5, <3>1 DEF before, list
      <4>2. QED
        BY <1>1, <1>4, <1>5, <2>3, <3>1, <4>1 DEF list
    <3>3. fr.i = i /\ i \in Nat \ {0} /\ fr.l \in Nat /\ i <= fr.l
      BY <1>1, <1>5 DEF Frame
    <3>4. FrameOK(fr, after)
      BY <2>4, <3>1
    <3>5. IdsTo(after, i) = IdsTo(after, i - 1) \cup {after[i].id}
      BY <3>3, NextId
    <3>6. FrameOK(nf, after)
      <4>1. nf.i >= 1 /\ nf.i - 1 = i
        BY <1>4, <3>3
      <4>2. CASE nf.quiet
        <5>1. /\ fr.l <= Len(after) /\ fr.present = IdsTo(after, fr.l)
              /\ fr.reached = IdsTo(after, i - 1)
          BY <1>4, <3>3, <3>4, <4>2 DEF FrameOK
        <5>2. nf.reached = IdsTo(after, nf.i - 1)
          BY <1>4, <1>5, <3>2, <3>5, <4>1, <5>1
        <5>3. nf.i <= nf.l + 1
          BY <1>4, <3>3
        <5>4. QED
          BY <1>4, <4>1, <5>1, <5>2, <5>3 DEF FrameOK
      <4>3. CASE ~nf.quiet
        BY <4>1, <4>3 DEF FrameOK
      <4>4. QED
        BY <4>2, <4>3
    <3>7. QED
      BY <3>1, <3>2, <3>6 DEF after
  <2>7. QED
    BY <2>5, <2>6
<1>15. QED
  BY <1>3, <1>10, <1>11, <1>12, <1>13, <1>14 DEF BusInv

LEMMA BusStep == BusInv /\ [PubSubNext]_pubSubVars => BusInv'
<1> SUFFICES ASSUME BusInv, [PubSubNext]_pubSubVars PROVE BusInv'
  OBVIOUS
<1>1. CASE UNCHANGED pubSubVars
  <2>1. /\ topics' = topics /\ frames' = frames /\ tokens' = tokens
        /\ published' = published /\ ran' = ran /\ dropped' = dropped
    BY <1>1 DEF pubSubVars
  <2>2. PubSubTypeOK' /\ OnceIsOnce'
    BY <2>1 DEF BusInv, PubSubTypeOK, OnceIsOnce
  <2>3. QED
    BY <2>1, <2>2 DEF BusInv
<1>2. CASE \E t \in Topics, f \in Callbacks, o \in BOOLEAN : Subscribe(t, f, o)
  BY <1>2, SubscribeInv
<1>3. CASE \E n \in DOMAIN tokens : Unsubscribe(n)
  BY <1>3, UnsubscribeInv
<1>4. CASE \E t \in Topics : Publish(t)
  BY <1>4, PublishInv
<1>5. CASE CallListener
  BY <1>5, CallListenerInv
<1>6. CASE CallPastEnd
  BY <1>6, CallPastEndInv
<1>7. CASE PublishEnds
  BY <1>7, PublishEndsInv
<1>8. QED
  BY <1>1, <1>2, <1>3, <1>4, <1>5, <1>6, <1>7, Zenon DEF PubSubNext

LEMMA BusInStep == BusInv => ListenersInStep
<1> SUFFICES ASSUME BusInv PROVE ListsInOrder
  BY DEF BusInv, ListenersInStep
<1> SUFFICES ASSUME NEW t \in Topics,
                    NEW j \in DOMAIN topics[t], NEW k \in DOMAIN topics[t]
             PROVE  /\ tokens[topics[t][j].id].topic = t
                    /\ j < k => topics[t][j].id < topics[t][k].id
  BY DEF ListsInOrder
<1>1. ListOK(t, topics[t], tokens, ran)
  BY DEF BusInv
<1>2. DOMAIN topics[t] = 1 .. Len(topics[t])
  BY BusFacts
<1>3. QED
  BY <1>1, <1>2 DEF ListOK, EntryOK

(* A listener subscribed to run once runs at most once, and every channel  *)
(* keeps the order of subscribing, whatever listeners do while they run.   *)
THEOREM BusKeepsInStep == PubSubSpec => []ListenersInStep
BY BusInit, BusStep, BusInStep, PTL DEF PubSubSpec

LEMMA ReachedAtEnd ==
  ASSUME BusInv, PublishEnds, NEW d \in DOMAIN frames,
         frames[d].quiet, d \notin DOMAIN frames'
  PROVE  frames[d].present = frames[d].reached
<1> DEFINE n == Len(frames)
           fr == Last(frames)
           rest == Front(frames)
<1>1. frames \in Seq(Frame) /\ frames # <<>> /\ n \in Nat /\ d \in 1 .. n
  BY BusFacts DEF PublishEnds
<1>2. /\ rest \in Seq(Frame) /\ Len(rest) = n - 1 /\ fr = frames[n] /\ n # 0
  BY <1>1, FrontAndLast
<1>3. frames' = rest \/ frames' = Disturbed(rest, fr.topic)
  BY Zenon DEF PublishEnds
<1>4. fr.i > fr.l
  BY DEF PublishEnds
<1> HIDE DEF fr, rest
<1>5. frames' \in Seq(Frame) /\ Len(frames') = n - 1
  <2> DEFINE t == fr.topic
  <2> HIDE DEF t
  <2>1. Disturbed(rest, t) \in Seq(Frame) /\ Len(Disturbed(rest, t)) = Len(rest)
    BY <1>2, DisturbedFacts, Zenon
  <2>2. QED
    BY <1>2, <1>3, <2>1 DEF t
<1>6. d = n
  BY <1>1, <1>2, <1>5
<1>7. frames[d] \in Frame /\ FrameOK(frames[d], topics[frames[d].topic])
  BY <1>1, ElementOfSeq DEF BusInv, FramesOK
<1>8. frames[d].i \in Nat /\ frames[d].l \in Nat /\ frames[d].i > frames[d].l
  BY <1>2, <1>4, <1>6, <1>7 DEF Frame
<1>9. frames[d].i <= frames[d].l + 1
  BY <1>7 DEF FrameOK
<1>10. frames[d].i - 1 = frames[d].l
  BY <1>8, <1>9
<1>11. QED
  BY <1>7, <1>10 DEF FrameOK

(* A publish from whose list nothing was taken while it ran has, when it   *)
(* ends, called every listener there was when it began.                    *)
THEOREM PublishReachesAll == PubSubSpec => EveryListenerReached
<1>1. BusInv /\ [PubSubNext]_pubSubVars
        => [\A d \in DOMAIN frames :
              (frames[d].quiet /\ d \notin DOMAIN frames' /\ PublishEnds)
                => frames[d].present = frames[d].reached]_pubSubVars
  BY ReachedAtEnd
<1>2. QED
  BY <1>1, BusInit, BusStep, PTL DEF PubSubSpec, EveryListenerReached

-----------------------------------------------------------------------------
(* Paths                                                                   *)

(* A parser as a record of its fields                                      *)

Points == Int \X Int

Angles == (Points \X Points) \cup {NoAngle}

Commands == Letters \cup {"none"}

Ops == {"move", "line", "curve", "quadratic", "close"}

Segments == [op : Ops, points : Seq(Points)]

Fields ==
  {"command", "relative", "previous", "start", "control", "current", "points", "angles",
   "drawn", "boxed"}

IsParser(p) == DOMAIN p = Fields /\ p = [f \in Fields |-> p[f]]

Typed(p) ==
  /\ IsParser(p)
  /\ p.command \in Commands /\ p.previous \in Commands
  /\ p.start \in Points /\ p.control \in Points /\ p.current \in Points
  /\ p.points \in Seq(Points) /\ p.angles \in Seq(Angles)
  /\ Len(p.points) = Len(p.angles)
  /\ p.drawn \in Seq(Segments)

(* The last move of a path is where its subpath starts.                    *)
IsMove(p, m) == m \in 1 .. Len(p.drawn) /\ p.drawn[m].op = "move"

IsLastMove(p, m) ==
  /\ IsMove(p, m) /\ EndOf(p.drawn[m]) = p.start
  /\ \A j \in 1 .. Len(p.drawn) : p.drawn[j].op = "move" => j <= m

(* Where the pen is.                                                       *)
PenIsCurrent(p) ==
  Len(p.drawn) > 0 =>
    /\ p.drawn[1].op = "move"
    /\ \E m \in 1 .. Len(p.drawn) : IsLastMove(p, m)
    /\ p.drawn[Len(p.drawn)].op # "close" => p.current = EndOf(p.drawn[Len(p.drawn)])
    /\ p.drawn[Len(p.drawn)].op = "close" => p.current = p.start

(* An open angle is that of a move.                                        *)
OpenAreMoves(p) ==
  \A i \in 1 .. Len(p.angles) :
    p.angles[i] = NoAngle =>
      \E d \in 1 .. Len(p.drawn) :
        p.drawn[d].op = "move" /\ EndOf(p.drawn[d]) = p.points[i]

BoxHolds(p) ==
  \A i \in 1 .. Len(p.drawn) :
    LET s == p.drawn[i]
    IN  /\ s.op \in {"move", "line"} => <<s.points[1]>> \in p.boxed
        /\ s.op = "curve" /\ p.drawn[i - 1].op # "close" =>
             <<EndOf(p.drawn[i - 1]), s.points[1], s.points[2], s.points[3]>> \in p.boxed

Parsed(p) == Typed(p) /\ PenIsCurrent(p) /\ OpenAreMoves(p) /\ BoxHolds(p)

-----------------------------------------------------------------------------
(* The path and the path written out                                       *)

(* The command before the one that is being read.                          *)
LastCommand ==
  IF taken = 0 /\ pp.command # "Z" THEN pp.previous ELSE pp.command

SamePlace(p, a) ==
  /\ a.start = p.start /\ a.control = p.control /\ a.current = p.current
  /\ a.drawn = p.drawn

SameMarks(p, a) == a.points = p.points /\ a.angles = p.angles

PathInv ==
  /\ taken \in Nat /\ plain \in BOOLEAN /\ moved \in BOOLEAN
  /\ Parsed(pp) /\ IsParser(abs)
  /\ pp.command = "none" => pp.previous = "none" /\ taken = 0
  /\ Len(pp.drawn) = 0 =>
       pp.command = "none" \/ (pp.command = "M" /\ taken = 0)
  /\ pp.command = "M" /\ taken = 1 => pp.start = pp.current
  /\ (LastCommand \in Curves) <=> (abs.command \in Curves)
  /\ plain => SamePlace(pp, abs)
  /\ plain /\ ~moved => SameMarks(pp, abs)

-----------------------------------------------------------------------------
(* What one group does to a parser                                         *)

Angle(from, to) == IF from = NoAngle THEN NoAngle ELSE <<from, to>>

Settled(p, prior) ==
  LET last == Len(p.angles)
  IN  IF prior # NoAngle /\ last > 0 /\ p.angles[last] = NoAngle
      THEN [p.angles EXCEPT ![last] = <<p.points[last], prior>>]
      ELSE p.angles

(* q is p after the marker and the drawing of a segment to `to`.           *)
Marked(p, q, op, points, to, box, from, prior) ==
  /\ IsParser(q)
  /\ q.command = p.command /\ q.relative = p.relative /\ q.previous = p.previous
  /\ q.points = Append(p.points, to)
  /\ q.angles = Append(Settled(p, prior), Angle(from, to))
  /\ q.drawn = Append(p.drawn, [op |-> op, points |-> points])
  /\ q.boxed = p.boxed \cup box

(* q is p after a group that draws a segment.                              *)
Step(p, q, op, points, to, box, from, prior, start, control) ==
  /\ Marked(p, q, op, points, to, box, from, prior)
  /\ q.start = start /\ q.control = control /\ q.current = to

LEMMA PairIsAngle == \A a, b : <<a, b>> # NoAngle
BY DEF NoAngle

LEMMA PointIsNoOpenAngle == \A a \in Points : a # NoAngle
BY DEF NoAngle, Points

LEMMA MarkedAndDrawn ==
  ASSUME NEW p, IsParser(p), NEW op, NEW points, NEW to, NEW box, NEW from, NEW prior
  PROVE  LET q == Drawn(AddMarker(p, to, from, prior), op, points, box)
         IN  /\ Marked(p, q, op, points, to, box, from, prior)
             /\ q.start = p.start /\ q.control = p.control
<1> DEFINE angles == Append(Settled(p, prior), Angle(from, to))
           r == AddMarker(p, to, from, prior)
           q == Drawn(AddMarker(p, to, from, prior), op, points, box)
<1>1. r = [p EXCEPT !.points = Append(p.points, to), !.angles = angles]
  BY Zenon DEF AddMarker, Settled, Angle
<1>2. q = [r EXCEPT !.drawn = Append(r.drawn, [op |-> op, points |-> points]), !.boxed = r.boxed \cup box]
  BY Zenon DEF Drawn
<1> HIDE DEF angles, r, q
<1>3. /\ IsParser(r) /\ r.points = Append(p.points, to) /\ r.angles = angles
      /\ r.command = p.command /\ r.relative = p.relative /\ r.previous = p.previous
      /\ r.start = p.start /\ r.control = p.control
      /\ r.drawn = p.drawn /\ r.boxed = p.boxed
  BY <1>1 DEF IsParser, Fields
<1>4. Marked(p, q, op, points, to, box, from, prior) /\ q.start = p.start /\ q.control = p.control
  BY <1>2, <1>3 DEF Marked, IsParser, Fields, angles
<1>5. QED
  BY <1>4 DEF q

LEMMA MoveToStep ==
  ASSUME NEW p, IsParser(p), NEW to
  PROVE  Step(p, [Drawn(AddMarker(p, to, NoAngle, NoAngle), "move", <<to>>, AddPoint(to))
            EXCEPT !.current = to, !.start = to], "move", <<to>>, to, AddPoint(to),
              NoAngle, NoAngle, to, p.control)
<1> DEFINE q == Drawn(AddMarker(p, to, NoAngle, NoAngle), "move", <<to>>,
                      AddPoint(to))
           r == [Drawn(AddMarker(p, to, NoAngle, NoAngle), "move", <<to>>, AddPoint(to))
            EXCEPT !.current = to, !.start = to]
<1>1. r = [q EXCEPT !.current = to, !.start = to]
  OBVIOUS
<1>2. /\ Marked(p, q, "move", <<to>>, to, AddPoint(to), NoAngle, NoAngle)
      /\ q.start = p.start /\ q.control = p.control
  BY MarkedAndDrawn, SMT
<1> HIDE DEF q, r
<1>3. IsParser(r) /\ r.start = to /\ r.control = p.control /\ r.current = to
  BY <1>1, <1>2 DEF Marked, IsParser, Fields
<1>4. /\ r.command = q.command /\ r.relative = q.relative /\ r.previous = q.previous
      /\ r.points = q.points /\ r.angles = q.angles /\ r.drawn = q.drawn /\ r.boxed = q.boxed
  BY <1>1, <1>2 DEF Marked, IsParser, Fields
<1>5. Step(p, r, "move", <<to>>, to, AddPoint(to),
           NoAngle, NoAngle, to, p.control)
  BY <1>2, <1>3, <1>4, Zenon DEF Step, Marked
<1>6. QED
  BY <1>5 DEF r

LEMMA LineStep ==
  ASSUME NEW p, IsParser(p), NEW to, NEW from
  PROVE  Step(p, [Drawn(AddMarker(p, to, from, NoAngle), "line", <<to>>, AddPoint(to))
            EXCEPT !.current = to], "line", <<to>>, to, AddPoint(to),
              from, NoAngle, p.start, p.control)
<1> DEFINE q == Drawn(AddMarker(p, to, from, NoAngle), "line", <<to>>,
                      AddPoint(to))
           r == [Drawn(AddMarker(p, to, from, NoAngle), "line", <<to>>, AddPoint(to))
            EXCEPT !.current = to]
<1>1. r = [q EXCEPT !.current = to]
  OBVIOUS
<1>2. /\ Marked(p, q, "line", <<to>>, to, AddPoint(to), from, NoAngle)
      /\ q.start = p.start /\ q.control = p.control
  BY MarkedAndDrawn, SMT
<1> HIDE DEF q, r
<1>3. IsParser(r) /\ r.start = p.start /\ r.control = p.control /\ r.current = to
  BY <1>1, <1>2 DEF Marked, IsParser, Fields
<1>4. /\ r.command = q.command /\ r.relative = q.relative /\ r.previous = q.previous
      /\ r.points = q.points /\ r.angles = q.angles /\ r.drawn = q.drawn /\ r.boxed = q.boxed
  BY <1>1, <1>2 DEF Marked, IsParser, Fields
<1>5. Step(p, r, "line", <<to>>, to, AddPoint(to),
           from, NoAngle, p.start, p.control)
  BY <1>2, <1>3, <1>4, Zenon DEF Step, Marked
<1>6. QED
  BY <1>5 DEF r

LEMMA BezierStep ==
  ASSUME NEW p, IsParser(p), NEW p1, NEW cntrl, NEW cp
  PROVE  Step(p, Bezier(p, p1, cntrl, cp), "curve", <<p1, cntrl, cp>>, cp, AddBezierCurve(p.current, p1, cntrl, cp),
              cntrl, p1, p.start, cntrl)
<1> DEFINE q == Drawn(AddMarker(p, cp, cntrl, p1), "curve", <<p1, cntrl, cp>>,
                      AddBezierCurve(p.current, p1, cntrl, cp))
           r == Bezier(p, p1, cntrl, cp)
<1>1. r = [q EXCEPT !.control = cntrl, !.current = cp]
  BY Zenon DEF Bezier
<1>2. /\ Marked(p, q, "curve", <<p1, cntrl, cp>>, cp, AddBezierCurve(p.current, p1, cntrl, cp), cntrl, p1)
      /\ q.start = p.start /\ q.control = p.control
  BY MarkedAndDrawn, SMT
<1> HIDE DEF q, r
<1>3. IsParser(r) /\ r.start = p.start /\ r.control = cntrl /\ r.current = cp
  BY <1>1, <1>2 DEF Marked, IsParser, Fields
<1>4. /\ r.command = q.command /\ r.relative = q.relative /\ r.previous = q.previous
      /\ r.points = q.points /\ r.angles = q.angles /\ r.drawn = q.drawn /\ r.boxed = q.boxed
  BY <1>1, <1>2 DEF Marked, IsParser, Fields
<1>5. Step(p, r, "curve", <<p1, cntrl, cp>>, cp, AddBezierCurve(p.current, p1, cntrl, cp),
           cntrl, p1, p.start, cntrl)
  BY <1>2, <1>3, <1>4, Zenon DEF Step, Marked
<1>6. QED
  BY <1>5 DEF r

LEMMA QuadraticStep ==
  ASSUME NEW p, IsParser(p), NEW cntrl, NEW cp
  PROVE  Step(p, Quadratic(p, cntrl, cp), "quadratic", <<cntrl, cp>>, cp, AddQuadraticCurve(p.current, cntrl, cp),
              cntrl, cntrl, p.start, cntrl)
<1> DEFINE q == Drawn(AddMarker(p, cp, cntrl, cntrl), "quadratic", <<cntrl, cp>>,
                      AddQuadraticCurve(p.current, cntrl, cp))
           r == Quadratic(p, cntrl, cp)
<1>1. r = [q EXCEPT !.control = cntrl, !.current = cp]
  BY Zenon DEF Quadratic
<1>2. /\ Marked(p, q, "quadratic", <<cntrl, cp>>, cp, AddQuadraticCurve(p.current, cntrl, cp), cntrl, cntrl)
      /\ q.start = p.start /\ q.control = p.control
  BY MarkedAndDrawn, SMT
<1> HIDE DEF q, r
<1>3. IsParser(r) /\ r.start = p.start /\ r.control = cntrl /\ r.current = cp
  BY <1>1, <1>2 DEF Marked, IsParser, Fields
<1>4. /\ r.command = q.command /\ r.relative = q.relative /\ r.previous = q.previous
      /\ r.points = q.points /\ r.angles = q.angles /\ r.drawn = q.drawn /\ r.boxed = q.boxed
  BY <1>1, <1>2 DEF Marked, IsParser, Fields
<1>5. Step(p, r, "quadratic", <<cntrl, cp>>, cp, AddQuadraticCurve(p.current, cntrl, cp),
           cntrl, cntrl, p.start, cntrl)
  BY <1>2, <1>3, <1>4, Zenon DEF Step, Marked
<1>6. QED
  BY <1>5 DEF r

LEMMA CloseStep ==
  ASSUME NEW p, IsParser(p), NEW q, q = ClosePath(p)
  PROVE  /\ IsParser(q)
         /\ q.command = p.command /\ q.relative = p.relative /\ q.previous = p.previous
         /\ q.start = p.start /\ q.control = p.control /\ q.current = p.start
         /\ q.points = p.points /\ q.angles = p.angles /\ q.boxed = p.boxed
         /\ q.drawn = Append(p.drawn, [op |-> "close", points |-> <<>>])
BY DEF ClosePath, Drawn, IsParser, Fields

LEMMA CommandStep ==
  ASSUME NEW p, IsParser(p), NEW c, NEW relative, NEW q, q = NextCommand(p, c, relative)
  PROVE  /\ IsParser(q)
         /\ q.command = c /\ q.relative = relative /\ q.previous = p.command
         /\ q.start = p.start /\ q.control = p.control /\ q.current = p.current
         /\ q.points = p.points /\ q.angles = p.angles /\ q.boxed = p.boxed
         /\ q.drawn = p.drawn
BY DEF NextCommand, IsParser, Fields

-----------------------------------------------------------------------------
(* What a segment preserves                                                *)

(* Every parser that has drawn a segment.                                  *)
DrawsOne(p, q, segment) ==
  /\ q.drawn = Append(p.drawn, segment) /\ segment \in Segments

LEMMA DrawsOneFacts ==
  ASSUME NEW p, NEW q, NEW segment, Typed(p), DrawsOne(p, q, segment)
  PROVE  /\ Len(p.drawn) \in Nat /\ Len(q.drawn) = Len(p.drawn) + 1
         /\ q.drawn \in Seq(Segments)
         /\ q.drawn[Len(p.drawn) + 1] = segment
         /\ \A i \in 1 .. Len(p.drawn) : q.drawn[i] = p.drawn[i]
BY AppendFacts DEF Typed, DrawsOne

LEMMA SettledFacts ==
  ASSUME NEW p, Typed(p), NEW prior, prior = NoAngle \/ prior \in Points
  PROVE  /\ Settled(p, prior) \in Seq(Angles) /\ Len(Settled(p, prior)) = Len(p.angles)
         /\ \A i \in 1 .. Len(p.angles) :
              Settled(p, prior)[i] = NoAngle => p.angles[i] = NoAngle
<1> DEFINE last == Len(p.angles)
<1>1. p.angles \in Seq(Angles) /\ p.points \in Seq(Points) /\ last \in Nat /\ last = Len(p.points)
  BY DEF Typed
<1>2. CASE prior # NoAngle /\ last > 0 /\ p.angles[last] = NoAngle
  <2> DEFINE e == <<p.points[last], prior>>
  <2>1. Settled(p, prior) = [p.angles EXCEPT ![last] = e]
    BY <1>2, Zenon DEF Settled
  <2>2. e # NoAngle /\ e \in Angles
    <3>1. p.points[last] \in Points /\ prior \in Points
      BY <1>1, <1>2
    <3>2. e \in Points \X Points
      BY <3>1
    <3>3. QED
      BY <3>2, PairIsAngle DEF Angles
  <2> DEFINE a == p.angles
             b == Settled(p, prior)
  <2>3. b = [a EXCEPT ![last] = e] /\ a \in Seq(Angles) /\ a[last] = NoAngle
        /\ last = Len(a) /\ last \in 1 .. Len(a)
    BY <1>1, <1>2, <2>1
  <2> HIDE DEF e, last, a, b
  <2>4. /\ b \in Seq(Angles) /\ Len(b) = Len(a)
        /\ \A i \in 1 .. Len(a) : b[i] = IF i = last THEN e ELSE a[i]
    BY <2>2, <2>3, ExceptSeq
  <2>5. \A i \in 1 .. Len(a) : b[i] = NoAngle => a[i] = NoAngle
    BY <2>2, <2>3, <2>4
  <2>6. QED
    BY <2>4, <2>5 DEF a, b
<1>3. CASE ~(prior # NoAngle /\ last > 0 /\ p.angles[last] = NoAngle)
  <2>1. Settled(p, prior) = p.angles
    BY <1>3, Zenon DEF Settled
  <2>2. QED
    BY <1>1, <2>1
<1>4. QED
  BY <1>2, <1>3

(* A group's segment ends where it goes to, and has its points boxed.      *)
Segment(op, points, to) ==
  /\ op \in Ops \ {"close"} /\ points \in Seq(Points) /\ to \in Points
  /\ to = EndOf([op |-> op, points |-> points])

LEMMA StepTyped ==
  ASSUME NEW p, NEW q, NEW op, NEW points, NEW to, NEW box, NEW from, NEW prior, NEW start,
         NEW control,
         Typed(p), Step(p, q, op, points, to, box, from, prior, start, control),
         op \in Ops, points \in Seq(Points), to \in Points, start \in Points, control \in Points,
         from = NoAngle \/ from \in Points, prior = NoAngle \/ prior \in Points
  PROVE  /\ Typed(q)
         /\ DrawsOne(p, q, [op |-> op, points |-> points])
<1> DEFINE segment == [op |-> op, points |-> points]
<1>1. segment \in Segments
  BY DEF Segments
<1> HIDE DEF segment
<1>2. DrawsOne(p, q, segment)
  BY <1>1, Zenon DEF DrawsOne, Step, Marked, segment
<1>3. q.drawn \in Seq(Segments)
  BY <1>2, DrawsOneFacts
<1>4. q.points \in Seq(Points) /\ Len(q.points) = Len(p.points) + 1
  BY AppendFacts DEF Typed, Step, Marked
<1>5. q.angles \in Seq(Angles) /\ Len(q.angles) = Len(p.angles) + 1
  <2>1. Angle(from, to) \in Angles
    <3>1. from # NoAngle => <<from, to>> \in Points \X Points
      BY Zenon
    <3>2. QED
      BY <3>1 DEF Angle, Angles
  <2>2. q.angles = Append(Settled(p, prior), Angle(from, to))
    BY Zenon DEF Step, Marked
  <2>3. Settled(p, prior) \in Seq(Angles) /\ Len(Settled(p, prior)) = Len(p.angles)
    BY SettledFacts
  <2>4. QED
    BY <2>1, <2>2, <2>3, AppendFacts
<1>6. QED
  BY <1>2, <1>3, <1>4, <1>5 DEF Typed, Step, Marked, segment

LEMMA StepPen ==
  ASSUME NEW p, NEW q, NEW op, NEW points,
         Typed(p), PenIsCurrent(p), DrawsOne(p, q, [op |-> op, points |-> points]),
         op # "close", q.current = EndOf([op |-> op, points |-> points]),
         op = "move" => q.start = q.current,
         op # "move" => q.start = p.start /\ Len(p.drawn) > 0
  PROVE  PenIsCurrent(q)
<1> DEFINE segment == [op |-> op, points |-> points]
           n == Len(p.drawn)
<1>1. segment.op = op
  OBVIOUS
<1>2. /\ n \in Nat /\ Len(q.drawn) = n + 1 /\ q.drawn[n + 1] = segment
      /\ \A i \in 1 .. n : q.drawn[i] = p.drawn[i]
  BY DrawsOneFacts, Zenon
<1>3. q.current = EndOf(segment)
  OBVIOUS
<1> HIDE DEF segment, n
<1>4. q.drawn[1].op = "move"
  <2>1. CASE n = 0
    BY <1>1, <1>2, <2>1 DEF n
  <2>2. CASE n # 0
    BY <1>2, <2>2 DEF PenIsCurrent, n
  <2>3. QED
    BY <2>1, <2>2
<1>5. \E m \in 1 .. Len(q.drawn) : IsLastMove(q, m)
  <2>1. CASE op = "move"
    <3>1. IsLastMove(q, n + 1)
      BY <1>1, <1>2, <1>3, <2>1 DEF IsLastMove, IsMove
    <3>2. QED
      BY <1>2, <3>1
  <2>2. CASE op # "move"
    <3>1. PICK m \in 1 .. n : IsLastMove(p, m)
      BY <2>2 DEF PenIsCurrent, n
    <3>2. m \in 1 .. n + 1 /\ q.drawn[m] = p.drawn[m]
      BY <1>2
    <3>3. \A j \in 1 .. n + 1 : q.drawn[j].op = "move" => j <= m
      <4> SUFFICES ASSUME NEW j \in 1 .. n + 1, q.drawn[j].op = "move" PROVE j <= m
        OBVIOUS
      <4>1. j # n + 1
        BY <1>1, <1>2, <2>2
      <4>2. j \in 1 .. n
        BY <1>2, <4>1
      <4>3. QED
        BY <1>2, <3>1, <4>2 DEF IsLastMove, n
    <3>4. IsLastMove(q, m)
      BY <1>2, <2>2, <3>1, <3>2, <3>3 DEF IsLastMove, IsMove
    <3>5. QED
      BY <1>2, <3>2, <3>4
  <2>3. QED
    BY <2>1, <2>2
<1>6. QED
  BY <1>1, <1>2, <1>3, <1>4, <1>5 DEF PenIsCurrent

LEMMA StepAngles ==
  ASSUME NEW p, NEW q, NEW op, NEW points, NEW to, NEW box, NEW from, NEW prior,
         Typed(p), OpenAreMoves(p), DrawsOne(p, q, [op |-> op, points |-> points]),
         Marked(p, q, op, points, to, box, from, prior), Segment(op, points, to),
         op # "move" => from # NoAngle, prior = NoAngle \/ prior \in Points
  PROVE  OpenAreMoves(q)
<1> DEFINE segment == [op |-> op, points |-> points]
           n == Len(p.drawn)
           k == Len(p.angles)
           angle == Angle(from, to)
           settled == Settled(p, prior)
<1>1. segment.op = op /\ to = EndOf(segment)
  BY DEF Segment
<1>2. /\ q.points = Append(p.points, to)
       /\ q.angles = Append(settled, angle)
  BY Zenon DEF Marked
<1>3. /\ n \in Nat /\ Len(q.drawn) = n + 1 /\ q.drawn[n + 1] = segment
      /\ \A i \in 1 .. n : q.drawn[i] = p.drawn[i]
  BY DrawsOneFacts, Zenon
<1>4. k \in Nat /\ k = Len(p.points) /\ p.points \in Seq(Points)
  BY DEF Typed
<1>5. /\ settled \in Seq(Angles) /\ Len(settled) = k
      /\ \A i \in 1 .. k : settled[i] = NoAngle => p.angles[i] = NoAngle
  BY SettledFacts
<1>6. angle = NoAngle => op = "move"
  BY PairIsAngle DEF Angle
<1> HIDE DEF segment, n, k, angle, settled
<1>7. /\ Len(q.angles) = k + 1 /\ q.angles[k + 1] = angle
      /\ \A i \in 1 .. k : q.angles[i] = settled[i]
  BY <1>4, <1>5, <1>2, AppendFacts
<1>8. /\ q.points[k + 1] = to
      /\ \A i \in 1 .. k : q.points[i] = p.points[i]
  BY <1>4, <1>2, AppendFacts
<1>9. ASSUME NEW i \in 1 .. k + 1, q.angles[i] = NoAngle
      PROVE  \E d \in 1 .. n + 1 : q.drawn[d].op = "move" /\ EndOf(q.drawn[d]) = q.points[i]
  <2>1. CASE i = k + 1
    <3>1. q.drawn[n + 1].op = "move" /\ EndOf(q.drawn[n + 1]) = q.points[i]
      BY <1>1, <1>3, <1>6, <1>7, <1>8, <1>9, <2>1
    <3>2. n + 1 \in 1 .. n + 1
      BY <1>3
    <3>3. QED
      BY <3>1, <3>2, Zenon
  <2>2. CASE i # k + 1
    <3>1. i \in 1 .. k
      BY <1>4, <2>2
    <3>2. p.angles[i] = NoAngle
      BY <1>5, <1>7, <1>9, <3>1
    <3>3. PICK d \in 1 .. n : p.drawn[d].op = "move" /\ EndOf(p.drawn[d]) = p.points[i]
      BY <3>1, <3>2 DEF OpenAreMoves, n, k
    <3>4. d \in 1 .. n + 1
      BY <1>3
    <3>5. q.drawn[d] = p.drawn[d] /\ q.points[i] = p.points[i]
      BY <1>3, <1>8, <3>1, Zenon
    <3>6. QED
      BY <3>3, <3>4, <3>5, Zenon
  <2>3. QED
    BY <2>1, <2>2
<1>10. QED
  BY <1>3, <1>7, <1>9 DEF OpenAreMoves

LEMMA StepBox ==
  ASSUME NEW p, NEW q, NEW op, NEW points, NEW box,
         Typed(p), PenIsCurrent(p), BoxHolds(p),
         DrawsOne(p, q, [op |-> op, points |-> points]),
         q.boxed = p.boxed \cup box,
         op # "move" => Len(p.drawn) > 0,
         op \in {"move", "line"} => <<points[1]>> \in box,
         op = "curve" => <<p.current, points[1], points[2], points[3]>> \in box
  PROVE  BoxHolds(q)
<1> DEFINE segment == [op |-> op, points |-> points]
           n == Len(p.drawn)
<1>1. segment.op = op /\ segment.points = points
  OBVIOUS
<1>2. /\ n \in Nat /\ Len(q.drawn) = n + 1 /\ q.drawn[n + 1] = segment
      /\ \A i \in 1 .. n : q.drawn[i] = p.drawn[i]
  BY DrawsOneFacts, Zenon
<1> HIDE DEF segment, n
<1>3. ASSUME NEW i \in 1 .. n + 1
      PROVE  /\ q.drawn[i].op \in {"move", "line"} => <<q.drawn[i].points[1]>> \in q.boxed
             /\ q.drawn[i].op = "curve" /\ q.drawn[i - 1].op # "close" =>
                  <<EndOf(q.drawn[i - 1]), q.drawn[i].points[1], q.drawn[i].points[2],
                    q.drawn[i].points[3]>> \in q.boxed
  <2>1. CASE i = n + 1
    <3>1. q.drawn[i].op \in {"move", "line"} => <<q.drawn[i].points[1]>> \in q.boxed
      BY <1>1, <1>2, <2>1
    <3>2. ASSUME op = "curve", q.drawn[i - 1].op # "close"
          PROVE  EndOf(q.drawn[i - 1]) = p.current
      <4>1. i - 1 = n /\ n > 0 /\ n \in 1 .. n
        BY <1>2, <2>1, <3>2 DEF n
      <4>2. q.drawn[i - 1] = p.drawn[n]
        BY <1>2, <4>1
      <4>3. QED
        BY <3>2, <4>1, <4>2 DEF PenIsCurrent, n
    <3>3. QED
      BY <1>1, <1>2, <2>1, <3>1, <3>2
  <2>2. CASE i # n + 1
    <3>1. i \in 1 .. n /\ q.drawn[i] = p.drawn[i]
      BY <1>2, <2>2
    <3>2. CASE i = 1
      <4>1. q.drawn[i].op = "move"
        BY <3>1, <3>2 DEF PenIsCurrent, n
      <4>2. QED
        BY <3>1, <4>1 DEF BoxHolds, n
    <3>3. CASE i # 1
      <4>1. i - 1 \in 1 .. n
        BY <1>2, <3>1, <3>3
      <4>2. q.drawn[i - 1] = p.drawn[i - 1]
        BY <1>2, <4>1
      <4>3. QED
        BY <3>1, <4>2 DEF BoxHolds, n
    <3>4. QED
      BY <3>2, <3>3
  <2>3. QED
    BY <2>1, <2>2
<1>4. QED
  BY <1>2, <1>3 DEF BoxHolds

LEMMA StepParsed ==
  ASSUME NEW p, NEW q, NEW op, NEW points, NEW to, NEW box, NEW from, NEW prior, NEW start,
         NEW control,
         Parsed(p), Step(p, q, op, points, to, box, from, prior, start, control),
         Segment(op, points, to), start \in Points, control \in Points,
         from = NoAngle \/ from \in Points, prior = NoAngle \/ prior \in Points,
         op = "move" => start = to,
         op # "move" => start = p.start /\ Len(p.drawn) > 0 /\ from # NoAngle,
         op \in {"move", "line"} => <<points[1]>> \in box,
         op = "curve" => <<p.current, points[1], points[2], points[3]>> \in box
  PROVE  Parsed(q) /\ Len(q.drawn) > 0
<1>1. Typed(p) /\ PenIsCurrent(p) /\ OpenAreMoves(p) /\ BoxHolds(p)
  BY DEF Parsed
<1>2. op \in Ops /\ op # "close" /\ points \in Seq(Points) /\ to \in Points
  BY DEF Segment
<1>3. Typed(q) /\ DrawsOne(p, q, [op |-> op, points |-> points])
  BY <1>1, <1>2, StepTyped
<1>4. /\ q.current = EndOf([op |-> op, points |-> points]) /\ to = q.current /\ q.start = start
      /\ q.points = Append(p.points, to)
      /\ q.angles = Append(Settled(p, prior), Angle(from, to))
      /\ q.boxed = p.boxed \cup box
  BY Zenon DEF Segment, Step, Marked
<1>5. PenIsCurrent(q)
  BY <1>1, <1>2, <1>3, <1>4, StepPen
<1>6. OpenAreMoves(q)
  <2>1. Marked(p, q, op, points, to, box, from, prior)
    BY DEF Step
  <2>2. QED
    BY <1>1, <1>3, <2>1, StepAngles
<1>7. BoxHolds(q)
  BY <1>1, <1>2, <1>3, <1>4, StepBox
<1>8. Len(q.drawn) > 0
  BY <1>1, <1>3, DrawsOneFacts
<1>9. QED
  BY <1>3, <1>5, <1>6, <1>7, <1>8 DEF Parsed

LEMMA CloseParsed ==
  ASSUME NEW p, Parsed(p), Len(p.drawn) > 0, NEW q, q = ClosePath(p)
  PROVE  Parsed(q) /\ Len(q.drawn) > 0
<1> DEFINE segment == [op |-> "close", points |-> <<>>]
           n == Len(p.drawn)
<1>1. Typed(p) /\ PenIsCurrent(p) /\ OpenAreMoves(p) /\ BoxHolds(p) /\ IsParser(p)
  BY DEF Parsed, Typed
<1>2. /\ IsParser(q)
      /\ q.command = p.command /\ q.relative = p.relative /\ q.previous = p.previous
      /\ q.start = p.start /\ q.control = p.control /\ q.current = p.start
      /\ q.points = p.points /\ q.angles = p.angles /\ q.boxed = p.boxed
      /\ q.drawn = Append(p.drawn, segment)
  BY <1>1, CloseStep
<1>3. segment \in Segments /\ segment.op = "close"
  <2>1. <<>> \in Seq(Points)
    BY EmptySeq
  <2>2. QED
    BY <2>1 DEF Segments, Ops
<1> HIDE DEF segment
<1>4. DrawsOne(p, q, segment)
  BY <1>2, <1>3 DEF DrawsOne
<1>5. /\ n \in Nat /\ Len(q.drawn) = n + 1 /\ q.drawn[n + 1] = segment
      /\ \A i \in 1 .. n : q.drawn[i] = p.drawn[i]
      /\ q.drawn \in Seq(Segments)
  BY <1>1, <1>4, DrawsOneFacts
<1>6. Typed(q)
  BY <1>1, <1>2, <1>5 DEF Typed
<1> HIDE DEF n
<1>7. n > 0
  BY DEF n
<1>8. PenIsCurrent(q)
  <2>1. q.drawn[1].op = "move"
    BY <1>1, <1>5, <1>7 DEF PenIsCurrent, n
  <2>2. PICK m \in 1 .. n : IsLastMove(p, m)
    BY <1>1, <1>7 DEF PenIsCurrent, n
  <2>3. m \in 1 .. n + 1
    BY <1>5
  <2>4. \A j \in 1 .. n + 1 : q.drawn[j].op = "move" => j <= m
    <3> SUFFICES ASSUME NEW j \in 1 .. n + 1, q.drawn[j].op = "move" PROVE j <= m
      OBVIOUS
    <3>1. j # n + 1
      BY <1>3, <1>5
    <3>2. j \in 1 .. n
      BY <1>5, <3>1
    <3>3. QED
      BY <1>5, <2>2, <3>2 DEF IsLastMove, n
  <2>5. IsLastMove(q, m)
    BY <1>2, <1>5, <2>2, <2>3, <2>4 DEF IsLastMove, IsMove
  <2>6. QED
    BY <1>2, <1>3, <1>5, <2>1, <2>3, <2>5 DEF PenIsCurrent
<1>9. OpenAreMoves(q)
  <2> SUFFICES ASSUME NEW i \in 1 .. Len(p.angles), p.angles[i] = NoAngle
               PROVE  \E d \in 1 .. Len(q.drawn) :
                        q.drawn[d].op = "move" /\ EndOf(q.drawn[d]) = q.points[i]
    BY <1>2 DEF OpenAreMoves
  <2>1. PICK d \in 1 .. n : p.drawn[d].op = "move" /\ EndOf(p.drawn[d]) = p.points[i]
    BY <1>1 DEF OpenAreMoves, n
  <2>2. d \in 1 .. Len(q.drawn) /\ q.drawn[d] = p.drawn[d]
    BY <1>5
  <2>3. QED
    BY <1>2, <2>1, <2>2
<1>10. BoxHolds(q)
  <2> SUFFICES ASSUME NEW i \in 1 .. n + 1
               PROVE  /\ q.drawn[i].op \in {"move", "line"} => <<q.drawn[i].points[1]>> \in q.boxed
                      /\ q.drawn[i].op = "curve" /\ q.drawn[i - 1].op # "close" =>
                           <<EndOf(q.drawn[i - 1]), q.drawn[i].points[1], q.drawn[i].points[2],
                             q.drawn[i].points[3]>> \in q.boxed
    BY <1>5 DEF BoxHolds
  <2>1. CASE i = n + 1
    BY <1>3, <1>5, <2>1
  <2>2. CASE i # n + 1
    <3>1. i \in 1 .. n /\ q.drawn[i] = p.drawn[i]
      BY <1>5, <2>2
    <3>2. CASE i = 1
      <4>1. q.drawn[i].op = "move"
        BY <1>1, <1>7, <3>1, <3>2 DEF PenIsCurrent, n
      <4>2. QED
        BY <1>1, <1>2, <3>1, <4>1 DEF BoxHolds, n
    <3>3. CASE i # 1
      <4>1. i - 1 \in 1 .. n
        BY <1>5, <3>1, <3>3
      <4>2. q.drawn[i - 1] = p.drawn[i - 1]
        BY <1>5, <4>1
      <4>3. QED
        BY <1>1, <1>2, <3>1, <4>2 DEF BoxHolds, n
    <3>4. QED
      BY <3>2, <3>3
  <2>3. QED
    BY <2>1, <2>2
<1>11. Len(q.drawn) > 0
  BY <1>5
<1>12. QED
  BY <1>6, <1>8, <1>9, <1>10, <1>11 DEF Parsed

LEMMA CommandParsed ==
  ASSUME NEW p, Parsed(p), NEW c \in Commands, NEW relative, NEW q, q = NextCommand(p, c, relative)
  PROVE  Parsed(q)
<1>1. /\ IsParser(q)
      /\ q.command = c /\ q.relative = relative /\ q.previous = p.command
      /\ q.start = p.start /\ q.control = p.control /\ q.current = p.current
      /\ q.points = p.points /\ q.angles = p.angles /\ q.boxed = p.boxed
      /\ q.drawn = p.drawn
  BY CommandStep DEF Parsed, Typed
<1>2. Typed(q)
  BY <1>1 DEF Parsed, Typed
<1>3. PenIsCurrent(q)
  BY <1>1 DEF Parsed, PenIsCurrent, IsLastMove, IsMove
<1>4. OpenAreMoves(q) /\ BoxHolds(q)
  BY <1>1 DEF Parsed, OpenAreMoves, BoxHolds
<1>5. QED
  BY <1>2, <1>3, <1>4 DEF Parsed

-----------------------------------------------------------------------------
(* The same group in both notations                                        *)

LEMMA GroupCases ==
  ASSUME NEW p, NEW g, NEW nth
  PROVE  /\ p.command = "M" /\ nth = 0 => Group(p, g, nth) = MoveTo(p, g)
         /\ p.command = "M" /\ nth # 0 => Group(p, g, nth) = LineOn(p, g)
         /\ p.command = "L" => Group(p, g, nth) = LineTo(p, g)
         /\ p.command = "H" => Group(p, g, nth) = Horizontal(p, g)
         /\ p.command = "V" => Group(p, g, nth) = Vertical(p, g)
         /\ p.command = "C" => Group(p, g, nth) = CurveTo(p, g)
         /\ p.command = "S" => Group(p, g, nth) = SmoothCurveTo(p, g)
         /\ p.command = "Q" => Group(p, g, nth) = QuadraticTo(p, g)
         /\ p.command = "T" => Group(p, g, nth) = SmoothQuadraticTo(p, g)
BY DEF Group

LEMMA AbsolutePoint ==
  ASSUME NEW p, p.current \in Points, NEW x \in Points
  PROVE  MakeAbsolute(p, x) \in Points
BY DEF MakeAbsolute, Plus, Points

LEMMA PointsOfSegments ==
  /\ \A a \in Points : Segment("move", <<a>>, a) /\ Segment("line", <<a>>, a)
  /\ \A a, b, c \in Points : Segment("curve", <<a, b, c>>, c)
  /\ \A a, b \in Points : Segment("quadratic", <<a, b>>, b)
BY DEF Segment, Ops, EndOf

LEMMA StepsAgree ==
  ASSUME NEW p, NEW q, NEW a, NEW b, NEW op, NEW points, NEW to, NEW box, NEW from, NEW prior,
         NEW start, NEW control, NEW boxOf, NEW fromOf,
         Step(p, q, op, points, to, box, from, prior, start, control),
         Step(a, b, op, points, to, boxOf, fromOf, prior, start, control),
         a.drawn = p.drawn
  PROVE  /\ SamePlace(q, b)
         /\ SameMarks(p, a) /\ fromOf = from => SameMarks(q, b)
<1>1. SamePlace(q, b)
  BY DEF SamePlace, Step, Marked
<1>2. SameMarks(p, a) => Settled(a, prior) = Settled(p, prior)
  BY DEF SameMarks, Settled
<1>3. QED
  BY <1>1, <1>2 DEF SameMarks, Step, Marked

(* q and b are what the same group makes of p and of a: p stays a parser   *)
(* as above, and what p and a have in common q and b have.                 *)
Pairs(p, a, q, b, same, marked) ==
  /\ Parsed(q) /\ Len(q.drawn) > 0
  /\ q.command = p.command /\ q.previous = p.previous
  /\ IsParser(b) /\ b.command = a.command
  /\ same /\ SamePlace(p, a) => SamePlace(q, b)
  /\ same /\ marked /\ SamePlace(p, a) /\ SameMarks(p, a) => SameMarks(q, b)

LEMMA MovePair ==
  ASSUME NEW p, NEW a, Parsed(p), IsParser(a), NEW to \in Points,
         NEW q, Step(p, q, "move", <<to>>, to, AddPoint(to), NoAngle, NoAngle, to, p.control),
         NEW b, Step(a, b, "move", <<to>>, to, AddPoint(to), NoAngle, NoAngle, to, a.control)
  PROVE  Pairs(p, a, q, b, TRUE, TRUE) /\ q.start = q.current
<1>1. Segment("move", <<to>>, to) /\ <<to>>[1] = to /\ <<to>> \in AddPoint(to) /\ p.control \in Points
  BY PointsOfSegments DEF AddPoint, Parsed, Typed
<1>2. Parsed(q) /\ Len(q.drawn) > 0
  BY <1>1, StepParsed
<1>3. ASSUME SamePlace(p, a) PROVE SamePlace(q, b) /\ (SameMarks(p, a) => SameMarks(q, b))
  <2>1. a.drawn = p.drawn /\ a.control = p.control
    BY <1>3 DEF SamePlace
  <2>2. Step(a, b, "move", <<to>>, to, AddPoint(to), NoAngle, NoAngle, to, p.control)
    BY <2>1
  <2>3. QED
    BY <2>1, <2>2, StepsAgree
<1>4. QED
  BY <1>2, <1>3 DEF Pairs, Step, Marked

LEMMA LinePair ==
  ASSUME NEW p, NEW a, Parsed(p), IsParser(a), Len(p.drawn) > 0, NEW to \in Points, NEW toOf,
         NEW from \in Points,
         NEW q, Step(p, q, "line", <<to>>, to, AddPoint(to), from, NoAngle, p.start, p.control),
         NEW b, Step(a, b, "line", <<toOf>>, toOf, AddPoint(toOf), a.current, NoAngle,
                     a.start, a.control),
         NEW marked, SamePlace(p, a) => toOf = to, marked => from = p.current
  PROVE  Pairs(p, a, q, b, TRUE, marked)
<1>1. /\ Segment("line", <<to>>, to) /\ <<to>>[1] = to /\ <<to>> \in AddPoint(to)
      /\ p.control \in Points /\ p.start \in Points /\ from # NoAngle
  BY PointsOfSegments, PointIsNoOpenAngle DEF AddPoint, Parsed, Typed
<1>2. Parsed(q) /\ Len(q.drawn) > 0
  BY <1>1, StepParsed
<1>3. ASSUME SamePlace(p, a)
      PROVE  SamePlace(q, b) /\ (marked /\ SameMarks(p, a) => SameMarks(q, b))
  <2>1. a.drawn = p.drawn /\ a.control = p.control /\ a.start = p.start /\ a.current = p.current
    BY <1>3 DEF SamePlace
  <2>2. Step(a, b, "line", <<to>>, to, AddPoint(to), a.current, NoAngle, p.start, p.control)
    BY <1>3, <2>1
  <2>3. QED
    BY <2>1, <2>2, StepsAgree
<1>4. QED
  BY <1>2, <1>3 DEF Pairs, Step, Marked

LEMMA BezierPair ==
  ASSUME NEW p, NEW a, Parsed(p), IsParser(a), Len(p.drawn) > 0,
         NEW p1 \in Points, NEW cntrl \in Points, NEW cp \in Points, NEW p1Of
  PROVE  Pairs(p, a, Bezier(p, p1, cntrl, cp), Bezier(a, p1Of, cntrl, cp), p1Of = p1, TRUE)
<1> DEFINE q == Bezier(p, p1, cntrl, cp)
           b == Bezier(a, p1Of, cntrl, cp)
<1>1. Step(p, q, "curve", <<p1, cntrl, cp>>, cp, AddBezierCurve(p.current, p1, cntrl, cp),
           cntrl, p1, p.start, cntrl)
  BY BezierStep DEF Parsed, Typed
<1>2. Step(a, b, "curve", <<p1Of, cntrl, cp>>, cp, AddBezierCurve(a.current, p1Of, cntrl, cp),
           cntrl, p1Of, a.start, cntrl)
  BY BezierStep
<1> HIDE DEF q, b
<1>3. /\ Segment("curve", <<p1, cntrl, cp>>, cp)
      /\ <<p1, cntrl, cp>>[1] = p1 /\ <<p1, cntrl, cp>>[2] = cntrl /\ <<p1, cntrl, cp>>[3] = cp
      /\ <<p.current, p1, cntrl, cp>> \in AddBezierCurve(p.current, p1, cntrl, cp)
      /\ p.start \in Points /\ cntrl # NoAngle
  BY PointsOfSegments, PointIsNoOpenAngle DEF AddBezierCurve, Parsed, Typed
<1>4. Parsed(q) /\ Len(q.drawn) > 0
  BY <1>1, <1>3, StepParsed
<1>5. ASSUME SamePlace(p, a), p1Of = p1
      PROVE  SamePlace(q, b) /\ (SameMarks(p, a) => SameMarks(q, b))
  <2>1. a.drawn = p.drawn /\ a.start = p.start /\ a.current = p.current
    BY <1>5 DEF SamePlace
  <2>2. Step(a, b, "curve", <<p1, cntrl, cp>>, cp, AddBezierCurve(p.current, p1, cntrl, cp),
             cntrl, p1, p.start, cntrl)
    BY <1>2, <1>5, <2>1
  <2>3. QED
    BY <1>1, <2>1, <2>2, StepsAgree
<1>6. Pairs(p, a, q, b, p1Of = p1, TRUE)
  BY <1>1, <1>2, <1>4, <1>5 DEF Pairs, Step, Marked
<1>7. QED
  BY <1>6 DEF q, b

LEMMA QuadraticPair ==
  ASSUME NEW p, NEW a, Parsed(p), IsParser(a), Len(p.drawn) > 0,
         NEW cntrl \in Points, NEW cp \in Points, NEW cntrlOf
  PROVE  Pairs(p, a, Quadratic(p, cntrl, cp), Quadratic(a, cntrlOf, cp), cntrlOf = cntrl, TRUE)
<1> DEFINE q == Quadratic(p, cntrl, cp)
           b == Quadratic(a, cntrlOf, cp)
<1>1. Step(p, q, "quadratic", <<cntrl, cp>>, cp, AddQuadraticCurve(p.current, cntrl, cp),
           cntrl, cntrl, p.start, cntrl)
  BY QuadraticStep DEF Parsed, Typed
<1>2. Step(a, b, "quadratic", <<cntrlOf, cp>>, cp, AddQuadraticCurve(a.current, cntrlOf, cp),
           cntrlOf, cntrlOf, a.start, cntrlOf)
  BY QuadraticStep
<1> HIDE DEF q, b
<1>3. /\ Segment("quadratic", <<cntrl, cp>>, cp) /\ p.start \in Points /\ cntrl # NoAngle
  BY PointsOfSegments, PointIsNoOpenAngle DEF Parsed, Typed
<1>4. Parsed(q) /\ Len(q.drawn) > 0
  BY <1>1, <1>3, StepParsed
<1>5. ASSUME SamePlace(p, a), cntrlOf = cntrl
      PROVE  SamePlace(q, b) /\ (SameMarks(p, a) => SameMarks(q, b))
  <2>1. a.drawn = p.drawn /\ a.start = p.start /\ a.current = p.current
    BY <1>5 DEF SamePlace
  <2>2. Step(a, b, "quadratic", <<cntrl, cp>>, cp, AddQuadraticCurve(p.current, cntrl, cp),
             cntrl, cntrl, p.start, cntrl)
    BY <1>2, <1>5, <2>1
  <2>3. QED
    BY <1>1, <2>1, <2>2, StepsAgree
<1>6. Pairs(p, a, q, b, cntrlOf = cntrl, TRUE)
  BY <1>1, <1>2, <1>4, <1>5 DEF Pairs, Step, Marked
<1>7. QED
  BY <1>6 DEF q, b

(* A group of p, and the group of a whose coordinates c1, c2 and c3 are    *)
(* those of p made absolute.                                               *)
LEMMA GroupPair ==
  ASSUME NEW p, NEW a, NEW g, NEW h, NEW nth,
         Parsed(p), IsParser(p), IsParser(a), p.command \in Letters \ {"Z"},
         a.command = Explicit(p.command, nth), nth > 0 <=> nth # 0,
         ~(p.command = "M" /\ nth = 0) => Len(p.drawn) > 0,
         p.start \in Points, p.current \in Points, ReflectedControlPoint(p) \in Points,
         NEW c1 \in Points, NEW c2, NEW c3,
         p.command \in {"C", "S", "Q"} => c2 \in Points,
         p.command = "C" => c3 \in Points,
         MakeAbsolute(p, g[1]) = c1 /\ MakeAbsolute(a, h[1]) = c1,
         p.command \in {"C", "S", "Q"} => MakeAbsolute(p, g[2]) = c2 /\ MakeAbsolute(a, h[2]) = c2,
         p.command = "C" => MakeAbsolute(p, g[3]) = c3 /\ MakeAbsolute(a, h[3]) = c3
  PROVE  /\ Pairs(p, a, Group(p, g, nth), Group(a, h, 0),
                  p.command \in {"S", "T"} => ReflectedControlPoint(a) = ReflectedControlPoint(p),
                  p.command = "M" /\ nth > 0 => p.start = p.current)
         /\ p.command = "M" /\ nth = 0 =>
              Group(p, g, nth).start = Group(p, g, nth).current
<1> DEFINE q == Group(p, g, nth)
           b == Group(a, h, 0)
<1>1. CASE p.command = "M" /\ nth = 0
  <2>1. a.command = "M"
    BY <1>1 DEF Explicit
  <2>2. q = MoveTo(p, g) /\ b = MoveTo(a, h)
    BY <1>1, <2>1, GroupCases
  <2> HIDE DEF q, b
  <2>3. /\ q = [Drawn(AddMarker(p, c1, NoAngle, NoAngle), "move", <<c1>>, AddPoint(c1))
                  EXCEPT !.current = c1, !.start = c1]
        /\ b = [Drawn(AddMarker(a, c1, NoAngle, NoAngle), "move", <<c1>>, AddPoint(c1))
                  EXCEPT !.current = c1, !.start = c1]
    BY <2>2, Zenon DEF MoveTo
  <2>4. /\ Step(p, q, "move", <<c1>>, c1, AddPoint(c1), NoAngle, NoAngle, c1, p.control)
        /\ Step(a, b, "move", <<c1>>, c1, AddPoint(c1), NoAngle, NoAngle, c1, a.control)
    BY <2>3, MoveToStep, Zenon
  <2>5. Pairs(p, a, q, b, TRUE, TRUE) /\ q.start = q.current
    BY <2>4, MovePair, Zenon
  <2>6. QED
    BY <2>5 DEF Pairs, q, b
<1>2. CASE p.command = "M" /\ nth # 0
  <2>1. a.command = "L"
    BY <1>2 DEF Explicit
  <2>2. q = LineOn(p, g) /\ b = LineTo(a, h)
    BY <1>2, <2>1, GroupCases
  <2> HIDE DEF q, b
  <2>3. /\ q = [Drawn(AddMarker(p, c1, p.start, NoAngle), "line", <<c1>>, AddPoint(c1))
                  EXCEPT !.current = c1]
        /\ b = [Drawn(AddMarker(a, c1, a.current, NoAngle), "line", <<c1>>, AddPoint(c1))
                  EXCEPT !.current = c1]
    BY <2>2, Zenon DEF LineOn, LineTo, LineFromHere
  <2>4. /\ Step(p, q, "line", <<c1>>, c1, AddPoint(c1), p.start, NoAngle, p.start, p.control)
        /\ Step(a, b, "line", <<c1>>, c1, AddPoint(c1), a.current, NoAngle, a.start, a.control)
    BY <2>3, LineStep, Zenon
  <2>5. Pairs(p, a, q, b, TRUE, p.start = p.current)
    BY <1>2, <2>4, LinePair, Zenon
  <2>6. QED
    BY <1>2, <2>5 DEF Pairs, q, b
<1>3. CASE p.command = "L"
  <2> DEFINE to == c1
             toOf == c1
             from == p.current
  <2>1. a.command = "L"
    BY <1>3 DEF Explicit
  <2>2. q = LineTo(p, g) /\ b = LineTo(a, h)
    BY <1>3, <2>1, GroupCases
  <2>3. to \in Points /\ (SamePlace(p, a) => toOf = to) /\ from \in Points /\ from = p.current
    BY DEF Points, SamePlace
  <2> HIDE DEF q, b
  <2>4. /\ q = [Drawn(AddMarker(p, to, p.current, NoAngle), "line", <<to>>, AddPoint(to))
                  EXCEPT !.current = to]
        /\ b = [Drawn(AddMarker(a, toOf, a.current, NoAngle), "line", <<toOf>>, AddPoint(toOf))
                  EXCEPT !.current = toOf]
    BY <2>2, Zenon DEF LineTo, LineFromHere
  <2> HIDE DEF to, toOf
  <2>5. /\ Step(p, q, "line", <<to>>, to, AddPoint(to), from, NoAngle, p.start, p.control)
        /\ Step(a, b, "line", <<toOf>>, toOf, AddPoint(toOf), a.current, NoAngle, a.start, a.control)
    BY <2>4, LineStep, Zenon
  <2>6. Pairs(p, a, q, b, TRUE, TRUE)
    <3>1. Len(p.drawn) > 0
      BY <1>3
    <3> HIDE DEF from
    <3>2. QED
      BY <2>3, <2>5, <3>1, LinePair, Zenon
  <2>7. QED
    BY <1>3, <2>3, <2>6 DEF Pairs, q, b
<1>4. CASE p.command = "H"
  <2> DEFINE to == <<c1[1], p.current[2]>>
             toOf == <<c1[1], a.current[2]>>
             from == p.current
  <2>1. a.command = "H"
    BY <1>4 DEF Explicit
  <2>2. q = Horizontal(p, g) /\ b = Horizontal(a, h)
    BY <1>4, <2>1, GroupCases
  <2>3. to \in Points /\ (SamePlace(p, a) => toOf = to) /\ from \in Points /\ from = p.current
    BY DEF Points, SamePlace
  <2> HIDE DEF q, b
  <2>4. /\ q = [Drawn(AddMarker(p, to, p.current, NoAngle), "line", <<to>>, AddPoint(to))
                  EXCEPT !.current = to]
        /\ b = [Drawn(AddMarker(a, toOf, a.current, NoAngle), "line", <<toOf>>, AddPoint(toOf))
                  EXCEPT !.current = toOf]
    BY <2>2, Zenon DEF Horizontal, LineFromHere
  <2> HIDE DEF to, toOf
  <2>5. /\ Step(p, q, "line", <<to>>, to, AddPoint(to), from, NoAngle, p.start, p.control)
        /\ Step(a, b, "line", <<toOf>>, toOf, AddPoint(toOf), a.current, NoAngle, a.start, a.control)
    BY <2>4, LineStep, Zenon
  <2>6. Pairs(p, a, q, b, TRUE, TRUE)
    <3>1. Len(p.drawn) > 0
      BY <1>4
    <3> HIDE DEF from
    <3>2. QED
      BY <2>3, <2>5, <3>1, LinePair, Zenon
  <2>7. QED
    BY <1>4, <2>3, <2>6 DEF Pairs, q, b
<1>5. CASE p.command = "V"
  <2> DEFINE to == <<p.current[1], c1[2]>>
             toOf == <<a.current[1], c1[2]>>
             from == p.current
  <2>1. a.command = "V"
    BY <1>5 DEF Explicit
  <2>2. q = Vertical(p, g) /\ b = Vertical(a, h)
    BY <1>5, <2>1, GroupCases
  <2>3. to \in Points /\ (SamePlace(p, a) => toOf = to) /\ from \in Points /\ from = p.current
    BY DEF Points, SamePlace
  <2> HIDE DEF q, b
  <2>4. /\ q = [Drawn(AddMarker(p, to, p.current, NoAngle), "line", <<to>>, AddPoint(to))
                  EXCEPT !.current = to]
        /\ b = [Drawn(AddMarker(a, toOf, a.current, NoAngle), "line", <<toOf>>, AddPoint(toOf))
                  EXCEPT !.current = toOf]
    BY <2>2, Zenon DEF Vertical, LineFromHere
  <2> HIDE DEF to, toOf
  <2>5. /\ Step(p, q, "line", <<to>>, to, AddPoint(to), from, NoAngle, p.start, p.control)
        /\ Step(a, b, "line", <<toOf>>, toOf, AddPoint(toOf), a.current, NoAngle, a.start, a.control)
    BY <2>4, LineStep, Zenon
  <2>6. Pairs(p, a, q, b, TRUE, TRUE)
    <3>1. Len(p.drawn) > 0
      BY <1>5
    <3> HIDE DEF from
    <3>2. QED
      BY <2>3, <2>5, <3>1, LinePair, Zenon
  <2>7. QED
    BY <1>5, <2>3, <2>6 DEF Pairs, q, b
<1>6. CASE p.command = "C"
  <2>1. a.command = "C"
    BY <1>6 DEF Explicit
  <2>2. q = CurveTo(p, g) /\ b = CurveTo(a, h)
    BY <1>6, <2>1, GroupCases
  <2>3. /\ c2 \in Points /\ c3 \in Points /\ MakeAbsolute(p, g[2]) = c2 /\ MakeAbsolute(a, h[2]) = c2
        /\ MakeAbsolute(p, g[3]) = c3 /\ MakeAbsolute(a, h[3]) = c3 /\ Len(p.drawn) > 0
    BY <1>6
  <2> HIDE DEF q, b
  <2>4. /\ q = Bezier(p, c1, c2, c3)
        /\ b = Bezier(a, c1, c2, c3)
    BY <2>2, <2>3, Zenon DEF CurveTo
  <2>5. Pairs(p, a, q, b, c1 = c1, TRUE)
    BY <2>3, <2>4, BezierPair, Zenon
  <2>6. QED
    BY <1>6, <2>5 DEF Pairs, q, b
<1>7. CASE p.command = "S"
  <2>1. a.command = "S"
    BY <1>7 DEF Explicit
  <2>2. q = SmoothCurveTo(p, g) /\ b = SmoothCurveTo(a, h)
    BY <1>7, <2>1, GroupCases
  <2>3. /\ c2 \in Points /\ MakeAbsolute(p, g[2]) = c2 /\ MakeAbsolute(a, h[2]) = c2
        /\ Len(p.drawn) > 0
    BY <1>7
  <2> HIDE DEF q, b
  <2>4. /\ q = Bezier(p, ReflectedControlPoint(p), c1, c2)
        /\ b = Bezier(a, ReflectedControlPoint(a), c1, c2)
    BY <2>2, <2>3, Zenon DEF SmoothCurveTo
  <2>5. Pairs(p, a, q, b, ReflectedControlPoint(a) = ReflectedControlPoint(p), TRUE)
    BY <2>3, <2>4, BezierPair, Zenon
  <2>6. QED
    BY <1>7, <2>5 DEF Pairs, q, b
<1>8. CASE p.command = "Q"
  <2>1. a.command = "Q"
    BY <1>8 DEF Explicit
  <2>2. q = QuadraticTo(p, g) /\ b = QuadraticTo(a, h)
    BY <1>8, <2>1, GroupCases
  <2>3. /\ c2 \in Points /\ MakeAbsolute(p, g[2]) = c2 /\ MakeAbsolute(a, h[2]) = c2
        /\ Len(p.drawn) > 0
    BY <1>8
  <2> HIDE DEF q, b
  <2>4. /\ q = Quadratic(p, c1, c2)
        /\ b = Quadratic(a, c1, c2)
    BY <2>2, <2>3, Zenon DEF QuadraticTo
  <2>5. Pairs(p, a, q, b, c1 = c1, TRUE)
    BY <2>3, <2>4, QuadraticPair, Zenon
  <2>6. QED
    BY <1>8, <2>5 DEF Pairs, q, b
<1>9. CASE p.command = "T"
  <2>1. a.command = "T"
    BY <1>9 DEF Explicit
  <2>2. q = SmoothQuadraticTo(p, g) /\ b = SmoothQuadraticTo(a, h)
    BY <1>9, <2>1, GroupCases
  <2>3. /\ Len(p.drawn) > 0
    BY <1>9
  <2> HIDE DEF q, b
  <2>4. /\ q = Quadratic(p, ReflectedControlPoint(p), c1)
        /\ b = Quadratic(a, ReflectedControlPoint(a), c1)
    BY <2>2, <2>3, Zenon DEF SmoothQuadraticTo
  <2>5. Pairs(p, a, q, b, ReflectedControlPoint(a) = ReflectedControlPoint(p), TRUE)
    BY <2>3, <2>4, QuadraticPair, Zenon
  <2>6. QED
    BY <1>9, <2>5 DEF Pairs, q, b
<1>10. p.command \in {"M", "L", "H", "V", "C", "S", "Q", "T"}
  BY DEF Letters
<1>11. QED
  <2> HIDE DEF q, b
  <2>1. QED
    BY <1>1, <1>2, <1>3, <1>4, <1>5, <1>6, <1>7, <1>8, <1>9, <1>10, Zenon

-----------------------------------------------------------------------------
(* The steps                                                               *)

LEMMA FreshParsed == Parsed(Fresh)
<1>1. /\ Fresh.command = "none" /\ Fresh.previous = "none"
      /\ Fresh.start = <<0, 0>> /\ Fresh.control = <<0, 0>> /\ Fresh.current = <<0, 0>>
      /\ Fresh.points = <<>> /\ Fresh.angles = <<>> /\ Fresh.drawn = <<>> /\ Fresh.boxed = {}
  BY DEF Fresh
<1>2. IsParser(Fresh)
  BY DEF IsParser, Fields, Fresh
<1>3. <<0, 0>> \in Points /\ "none" \in Commands
  BY DEF Points, Commands
<1>4. Len(<<>>) = 0 /\ \A S : <<>> \in Seq(S)
  BY EmptySeq
<1>5. Typed(Fresh)
  BY <1>1, <1>2, <1>3, <1>4 DEF Typed
<1>6. PenIsCurrent(Fresh) /\ OpenAreMoves(Fresh) /\ BoxHolds(Fresh)
  <2>1. Len(Fresh.drawn) = 0 /\ Len(Fresh.angles) = 0
    BY <1>1, <1>4
  <2>2. \A i \in 1 .. 0 : FALSE
    OBVIOUS
  <2>3. QED
    BY <2>1, <2>2 DEF PenIsCurrent, OpenAreMoves, BoxHolds
<1>7. QED
  BY <1>5, <1>6 DEF Parsed

LEMMA PathInitInv == PathInit => PathInv
<1> SUFFICES ASSUME PathInit PROVE PathInv
  OBVIOUS
<1>1. pp = Fresh /\ abs = Fresh /\ taken = 0 /\ plain = TRUE /\ moved = FALSE
  BY DEF PathInit
<1>2. Fresh.command = "none" /\ Fresh.previous = "none" /\ IsParser(Fresh)
  BY DEF Fresh, IsParser, Fields
<1>3. SamePlace(Fresh, Fresh) /\ SameMarks(Fresh, Fresh)
  BY DEF SamePlace, SameMarks
<1>4. LastCommand = "none"
  BY <1>1, <1>2 DEF LastCommand
<1>5. QED
  BY <1>1, <1>2, <1>3, <1>4, FreshParsed DEF PathInv

(* Only a parser that has drawn nothing has read no command, or a first    *)
(* moveto without a group.                                                 *)
LEMMA HasDrawn ==
  ASSUME PathInv, pp.command # "none", pp.command # "M" \/ taken > 0
  PROVE  Len(pp.drawn) > 0
<1>1. Len(pp.drawn) \in Nat /\ taken \in Nat
  BY DEF PathInv, Parsed, Typed
<1>2. Len(pp.drawn) = 0 => pp.command = "none" \/ (pp.command = "M" /\ taken = 0)
  BY DEF PathInv
<1>3. QED
  BY <1>1, <1>2

LEMMA ReadCommandInv ==
  ASSUME PathInv, NEW c \in Letters, NEW relative \in BOOLEAN, ReadCommand(c, relative)
  PROVE  PathInv'
<1>1. /\ pp' = NextCommand(pp, c, relative) /\ taken' = 0
      /\ abs' = abs /\ plain' = plain /\ moved' = moved /\ c # "Z" /\ MayFollow(c)
  BY DEF ReadCommand
<1>2. /\ Parsed(pp) /\ IsParser(pp) /\ IsParser(abs) /\ taken \in Nat
      /\ plain \in BOOLEAN /\ moved \in BOOLEAN
      /\ plain => SamePlace(pp, abs)
      /\ plain /\ ~moved => SameMarks(pp, abs)
      /\ (LastCommand \in Curves) <=> (abs.command \in Curves)
      /\ pp.command = "none" => pp.previous = "none" /\ taken = 0
  BY DEF PathInv, Parsed, Typed
<1>3. c \in Commands /\ c # "none"
  BY DEF Commands, Letters
<1>4. /\ pp'.command = c /\ pp'.previous = pp.command
      /\ pp'.start = pp.start /\ pp'.control = pp.control /\ pp'.current = pp.current
      /\ pp'.points = pp.points /\ pp'.angles = pp.angles /\ pp'.drawn = pp.drawn
  BY <1>1, <1>2, CommandStep
<1>5. Parsed(pp')
  BY <1>1, <1>2, <1>3, CommandParsed
<1>6. Len(pp'.drawn) = 0 => c = "M"
  <2>1. pp.command # "none" => Len(pp.drawn) > 0
    BY <1>1, HasDrawn DEF MayFollow
  <2>2. QED
    BY <1>1, <1>4, <2>1 DEF MayFollow
<1>7. plain' => SamePlace(pp', abs')
  BY <1>1, <1>2, <1>4 DEF SamePlace
<1>8. plain' /\ ~moved' => SameMarks(pp', abs')
  BY <1>1, <1>2, <1>4 DEF SameMarks
<1>9. (LastCommand' \in Curves) <=> (abs'.command \in Curves)
  <2>1. LastCommand' = pp.command
    BY <1>1, <1>4 DEF LastCommand
  <2>2. (pp.command \in Curves) <=> (LastCommand \in Curves)
    <3>1. CASE pp.command = "none"
      BY <1>2, <3>1 DEF LastCommand
    <3>2. CASE pp.command # "none" /\ pp.command # "Z"
      BY <1>1, <3>2 DEF LastCommand, MayFollow
    <3>3. CASE pp.command = "Z"
      BY <3>3 DEF LastCommand
    <3>4. QED
      BY <3>1, <3>2, <3>3
  <2>3. QED
    BY <1>1, <1>2, <2>1, <2>2
<1>10. QED
  BY <1>1, <1>2, <1>3, <1>4, <1>5, <1>6, <1>7, <1>8, <1>9 DEF PathInv

LEMMA ReadCloseInv ==
  ASSUME PathInv, NEW relative \in BOOLEAN, ReadClose(relative)
  PROVE  PathInv'
<1> DEFINE p == NextCommand(pp, "Z", relative)
           a == NextCommand(abs, "Z", FALSE)
<1>1. /\ pp' = ClosePath(p) /\ abs' = ClosePath(a) /\ taken' = 0
      /\ plain' = plain /\ moved' = moved /\ MayFollow("Z") /\ pp.command # "Z"
  BY DEF ReadClose
<1>2. /\ Parsed(pp) /\ IsParser(pp) /\ IsParser(abs)
      /\ plain \in BOOLEAN /\ moved \in BOOLEAN
      /\ plain => SamePlace(pp, abs)
      /\ plain /\ ~moved => SameMarks(pp, abs)
  BY DEF PathInv, Parsed, Typed
<1>3. "Z" \in Commands
  BY DEF Commands, Letters
<1>4. Len(pp.drawn) > 0
  BY <1>1, HasDrawn DEF MayFollow
<1>5. /\ IsParser(p) /\ p.command = "Z"
      /\ p.start = pp.start /\ p.control = pp.control
      /\ p.points = pp.points /\ p.angles = pp.angles /\ p.drawn = pp.drawn
  BY <1>2, CommandStep
<1>6. /\ IsParser(a) /\ a.command = "Z"
      /\ a.start = abs.start /\ a.control = abs.control
      /\ a.points = abs.points /\ a.angles = abs.angles /\ a.drawn = abs.drawn
  <2>1. a = NextCommand(abs, "Z", FALSE)
    OBVIOUS
  <2> HIDE DEF a
  <2>2. QED
    BY <1>2, <2>1 DEF NextCommand, IsParser, Fields
<1>7. Parsed(p)
  BY <1>2, <1>3, CommandParsed
<1> HIDE DEF p, a
<1>8. /\ pp'.command = "Z"
      /\ pp'.start = pp.start /\ pp'.control = pp.control /\ pp'.current = pp.start
      /\ pp'.points = pp.points /\ pp'.angles = pp.angles
      /\ pp'.drawn = Append(pp.drawn, [op |-> "close", points |-> <<>>])
  BY <1>1, <1>5, CloseStep
<1>9. /\ IsParser(abs') /\ abs'.command = "Z"
      /\ abs'.start = abs.start /\ abs'.control = abs.control /\ abs'.current = abs.start
      /\ abs'.points = abs.points /\ abs'.angles = abs.angles
      /\ abs'.drawn = Append(abs.drawn, [op |-> "close", points |-> <<>>])
  BY <1>1, <1>6, CloseStep
<1>10. Parsed(pp') /\ Len(pp'.drawn) > 0
  BY <1>1, <1>4, <1>5, <1>7, CloseParsed
<1>11. plain' => SamePlace(pp', abs')
  BY <1>1, <1>2, <1>8, <1>9 DEF SamePlace
<1>12. plain' /\ ~moved' => SameMarks(pp', abs')
  BY <1>1, <1>2, <1>8, <1>9 DEF SameMarks
<1>13. (LastCommand' \in Curves) <=> (abs'.command \in Curves)
  BY <1>8, <1>9 DEF LastCommand
<1>14. QED
  BY <1>1, <1>2, <1>8, <1>9, <1>10, <1>11, <1>12, <1>13 DEF PathInv

LEMMA GroupFacts ==
  ASSUME pp.command \in Letters \ {"Z"}, NEW g \in Groups[pp.command],
         NEW h, h = [i \in DOMAIN g |-> MakeAbsolute(pp, g[i])], pp.current \in Points
  PROVE  /\ MakeAbsolute(pp, g[1]) \in Points /\ h[1] = MakeAbsolute(pp, g[1])
         /\ pp.command \in {"C", "S", "Q"} =>
              MakeAbsolute(pp, g[2]) \in Points /\ h[2] = MakeAbsolute(pp, g[2])
         /\ pp.command = "C" => MakeAbsolute(pp, g[3]) \in Points /\ h[3] = MakeAbsolute(pp, g[3])
<1>1. /\ g \in Seq(Points)
      /\ Len(g) = IF pp.command = "C" THEN 3 ELSE IF pp.command \in {"S", "Q"} THEN 2 ELSE 1
  BY PathAssumption, Zenon DEF Points
<1> DEFINE n == Len(g)
<1>2. DOMAIN g = 1 .. n /\ \A i \in 1 .. n : g[i] \in Points
  BY <1>1, ElementOfSeq, LenProperties
<1>3. n = IF pp.command = "C" THEN 3 ELSE IF pp.command \in {"S", "Q"} THEN 2 ELSE 1
  BY <1>1
<1> HIDE DEF n
<1>4. ASSUME NEW i \in 1 .. n
      PROVE  MakeAbsolute(pp, g[i]) \in Points /\ h[i] = MakeAbsolute(pp, g[i])
  BY <1>2, AbsolutePoint
<1>5. /\ 1 \in 1 .. n
      /\ pp.command \in {"C", "S", "Q"} => 2 \in 1 .. n
      /\ pp.command = "C" => 3 \in 1 .. n
  BY <1>3
<1>6. QED
  BY <1>4, <1>5, Zenon

LEMMA ReadGroupInv == ASSUME PathInv, ReadGroup PROVE PathInv'
<1> DEFINE a == NextCommand(abs, Explicit(pp.command, taken), FALSE)
           plainly == plain /\ ~(taken > 0 /\ pp.command \in {"S", "T"} /\ pp.previous \notin Curves)
<1>1. PICK g \in Groups[pp.command] :
        /\ pp' = Group(pp, g, taken)
        /\ abs' = Group(a, [i \in DOMAIN g |-> MakeAbsolute(pp, g[i])], 0)
  BY DEF ReadGroup
<1>2. /\ taken' = taken + 1 /\ pp.command \notin {"none", "Z"}
      /\ plain' = plainly /\ moved' = (moved \/ (taken > 1 /\ pp.command = "M"))
  BY DEF ReadGroup
<1>3. /\ Parsed(pp) /\ IsParser(pp) /\ IsParser(abs) /\ taken \in Nat
      /\ plain \in BOOLEAN /\ moved \in BOOLEAN
      /\ pp.command \in Commands
      /\ pp.start \in Points /\ pp.control \in Points /\ pp.current \in Points
  BY DEF PathInv, Parsed, Typed
<1>4. pp.command \in Letters \ {"Z"}
  BY <1>2, <1>3 DEF Commands
<1>5. /\ plain => SamePlace(pp, abs)
      /\ plain /\ ~moved => SameMarks(pp, abs)
      /\ (LastCommand \in Curves) <=> (abs.command \in Curves)
      /\ pp.command = "M" /\ taken = 1 => pp.start = pp.current
  BY DEF PathInv
<1>6. /\ IsParser(a) /\ a.command = Explicit(pp.command, taken) /\ a.relative = FALSE
      /\ a.previous = abs.command
      /\ a.start = abs.start /\ a.control = abs.control /\ a.current = abs.current
      /\ a.points = abs.points /\ a.angles = abs.angles /\ a.drawn = abs.drawn
  <2>1. a = NextCommand(abs, Explicit(pp.command, taken), FALSE)
    OBVIOUS
  <2> HIDE DEF a
  <2>2. QED
    BY <1>3, <2>1 DEF NextCommand, IsParser, Fields
<1> DEFINE h == [i \in DOMAIN g |-> MakeAbsolute(pp, g[i])]
           c1 == MakeAbsolute(pp, g[1])
           c2 == MakeAbsolute(pp, g[2])
           c3 == MakeAbsolute(pp, g[3])
           Reflects == pp.command \in {"S", "T"} =>
                         ReflectedControlPoint(a) = ReflectedControlPoint(pp)
           Starts == pp.command = "M" /\ taken > 0 => pp.start = pp.current
<1>7. /\ c1 \in Points /\ h[1] = c1
      /\ pp.command \in {"C", "S", "Q"} => c2 \in Points /\ h[2] = c2
      /\ pp.command = "C" => c3 \in Points /\ h[3] = c3
  BY <1>3, <1>4, GroupFacts, Zenon
<1>8. \A x : MakeAbsolute(a, x) = x
  BY <1>6 DEF MakeAbsolute
<1>9. ReflectedControlPoint(pp) \in Points
  BY <1>3 DEF ReflectedControlPoint, Points
<1>10. ~(pp.command = "M" /\ taken = 0) => Len(pp.drawn) > 0
  BY <1>2, <1>3, HasDrawn
<1>11. SamePlace(pp, abs) => SamePlace(pp, a)
  BY <1>6, Zenon DEF SamePlace
<1>12. SameMarks(pp, abs) => SameMarks(pp, a)
  BY <1>6, Zenon DEF SameMarks
<1>13. plainly => Reflects
  <2> SUFFICES ASSUME plainly, pp.command \in {"S", "T"}
               PROVE  ReflectedControlPoint(a) = ReflectedControlPoint(pp)
    OBVIOUS
  <2>1. (pp.previous \in Curves) <=> (a.previous \in Curves)
    <3>1. CASE taken = 0
      <4>1. LastCommand = pp.previous
        BY <1>2, <3>1 DEF LastCommand
      <4>2. QED
        BY <1>5, <1>6, <4>1
    <3>2. CASE taken > 0
      <4>1. LastCommand = pp.command /\ pp.command \in Curves /\ pp.previous \in Curves
        BY <3>2 DEF LastCommand, Curves
      <4>2. QED
        BY <1>5, <1>6, <4>1
    <3>3. taken = 0 \/ taken > 0
      BY <1>3
    <3>4. QED
      BY <3>1, <3>2, <3>3, Zenon
  <2>2. a.control = pp.control /\ a.current = pp.current
    BY <1>5, <1>11 DEF SamePlace
  <2>3. QED
    BY <2>1, <2>2 DEF ReflectedControlPoint
<1>14. /\ MakeAbsolute(pp, g[1]) = c1 /\ MakeAbsolute(a, h[1]) = c1
       /\ pp.command \in {"C", "S", "Q"} =>
            MakeAbsolute(pp, g[2]) = c2 /\ MakeAbsolute(a, h[2]) = c2
       /\ pp.command = "C" => MakeAbsolute(pp, g[3]) = c3 /\ MakeAbsolute(a, h[3]) = c3
  BY <1>7, <1>8, Zenon
<1>15. pp' = Group(pp, g, taken) /\ abs' = Group(a, h, 0)
  BY <1>1
<1>16. taken > 0 <=> taken # 0
  BY <1>3
<1> HIDE DEF a, h, c1, c2, c3
<1>17. /\ Pairs(pp, a, pp', abs', Reflects, Starts)
       /\ pp.command = "M" /\ taken = 0 => pp'.start = pp'.current
  BY <1>3, <1>4, <1>6, <1>7, <1>9, <1>10, <1>14, <1>15, <1>16, GroupPair
<1>18. /\ Parsed(pp') /\ Len(pp'.drawn) > 0 /\ IsParser(abs')
       /\ pp'.command = pp.command /\ abs'.command = Explicit(pp.command, taken)
  BY <1>6, <1>17 DEF Pairs
<1>19. plain' => SamePlace(pp', abs')
  BY <1>2, <1>5, <1>11, <1>13, <1>17 DEF Pairs
<1>20. plain' /\ ~moved' => SameMarks(pp', abs')
  <2> SUFFICES ASSUME plain', ~moved' PROVE SameMarks(pp', abs')
    OBVIOUS
  <2>1. Reflects /\ SamePlace(pp, a) /\ SameMarks(pp, a)
    BY <1>2, <1>5, <1>11, <1>12, <1>13
  <2>2. Starts
    BY <1>2, <1>3, <1>5
  <2>3. QED
    BY <1>17, <2>1, <2>2 DEF Pairs
<1>21. (LastCommand' \in Curves) <=> (abs'.command \in Curves)
  <2>1. LastCommand' = pp.command
    BY <1>2, <1>3, <1>18 DEF LastCommand
  <2>2. (pp.command \in Curves) <=> (Explicit(pp.command, taken) \in Curves)
    BY DEF Explicit, Curves
  <2>3. QED
    BY <1>18, <2>1, <2>2
<1>22. pp'.command = "M" /\ taken' = 1 => pp'.start = pp'.current
  BY <1>2, <1>3, <1>17, <1>18
<1>23. taken' \in Nat /\ plain' \in BOOLEAN /\ moved' \in BOOLEAN /\ pp'.command # "none"
  BY <1>2, <1>3, <1>18
<1>24. QED
  BY <1>18, <1>19, <1>20, <1>21, <1>22, <1>23 DEF PathInv

LEMMA PathStep == PathInv /\ [PathNext]_pathVars => PathInv'
<1>1. PathInv /\ UNCHANGED pathVars => PathInv'
  BY DEF PathInv, pathVars, LastCommand
<1>2. QED
  BY <1>1, ReadCommandInv, ReadCloseInv, ReadGroupInv DEF PathNext

LEMMA PathImplies == PathInv => PathAsWritten
<1> SUFFICES ASSUME PathInv PROVE PathAsWritten
  OBVIOUS
<1>1. Typed(pp) /\ PenIsCurrent(pp) /\ OpenAreMoves(pp) /\ BoxHolds(pp)
  BY DEF PathInv, Parsed
<1> DEFINE n == Len(pp.drawn)
<1>2. /\ pp.drawn \in Seq(Segments) /\ DOMAIN pp.drawn = 1 .. n /\ n \in Nat
      /\ DOMAIN pp.angles = 1 .. Len(pp.angles)
  BY <1>1 DEF Typed
<1>3. PathTypeOK
  <2>1. /\ pp.command \in Letters \cup {"none"} /\ pp.previous \in Letters \cup {"none"}
        /\ pp.current \in Int \X Int /\ pp.control \in Int \X Int
        /\ Len(pp.points) = Len(pp.angles)
    BY <1>1 DEF Typed, Commands, Points
  <2>2. \A i \in DOMAIN pp.angles :
          pp.angles[i] = NoAngle =>
            \E d \in DOMAIN pp.drawn :
              pp.drawn[d].op = "move" /\ EndOf(pp.drawn[d]) = pp.points[i]
    BY <1>1, <1>2, Zenon DEF OpenAreMoves
  <2>3. QED
    BY <2>1, <2>2, Zenon DEF PathTypeOK
<1>4. CurrentIsPen
  <2> SUFFICES ASSUME pp.drawn # <<>> PROVE pp.current = Pen
    BY DEF CurrentIsPen
  <2>1. n > 0
    BY <1>2, EmptySeq
  <2>2. CASE pp.drawn[n].op = "close"
    <3>1. PICK m \in 1 .. n : IsLastMove(pp, m)
      BY <1>1, <2>1 DEF PenIsCurrent
    <3>2. m \in Moves /\ \A j \in Moves : j <= m
      BY <1>2, <3>1 DEF Moves, IsLastMove, IsMove
    <3>3. \A i \in Moves : (\A j \in Moves : j <= i) => i = m
      BY <1>2, <3>2 DEF Moves
    <3>4. LastMove = m
      BY <3>2, <3>3 DEF LastMove
    <3>5. Pen = EndOf(pp.drawn[m])
      BY <2>2, <3>4 DEF Pen
    <3>6. pp.current = pp.start /\ EndOf(pp.drawn[m]) = pp.start
      BY <1>1, <2>1, <2>2, <3>1 DEF PenIsCurrent, IsLastMove
    <3>7. QED
      BY <3>5, <3>6
  <2>3. CASE pp.drawn[n].op # "close"
    BY <1>1, <2>1, <2>3 DEF PenIsCurrent, Pen
  <2>4. QED
    BY <2>2, <2>3
<1>5. DrawsTheSame /\ MarksTheSame
  BY DEF PathInv, SamePlace, SameMarks, DrawsTheSame, MarksTheSame
<1>6. BoxHoldsPath
  BY <1>1, <1>2, Zenon DEF BoxHolds, BoxHoldsPath, From
<1>7. QED
  BY <1>3, <1>4, <1>5, <1>6 DEF PathAsWritten

(* For any path data, what canvg draws, marks and boxes is what the        *)
(* absolute form of the path asks for, but for the groups DrawsTheSame and *)
(* MarksTheSame leave out, and the point it keeps as current is where the  *)
(* pen is.                                                                 *)
THEOREM PathsDrawnAsWritten == PathSpec => []PathAsWritten
BY PathInitInv, PathStep, PathImplies, PTL DEF PathSpec
=============================================================================
