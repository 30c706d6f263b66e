--------------------------- MODULE StatisticsProofs --------------------------
(***************************************************************************)
(* Proofs about the two statistics pages, for any choices, lists, times,   *)
(* page and answer sizes, chains and queues.  When nothing is outstanding  *)
(* the chart shows what was selected, and its lines run as the events were *)
(* counted.  The table of the status page shows the page its number,       *)
(* buttons and label speak of, whatever was published meanwhile, and       *)
(* implements the abstract list.                                           *)
(***************************************************************************)
EXTENDS RateChart, RateData, StatusPaging, InductionLemmas, FiniteSetTheorems, TLAPS

-----------------------------------------------------------------------------
(* The message rate page                                                   *)

AllLists == UNION {ListOf(c, s) : c \in Options, s \in Statuses}

Requests ==
  [kind : {"byStatus", "all"}, chain : Nat, status : Statuses, of : Options, min : Nat,
   found : SUBSET AllLists]

DataTypeOK ==
  /\ selected \in Options
  /\ currentOutput \in Lists
  /\ chart = NoChart \/ chart \in Lists

RequestTypeOK ==
  /\ awaited \subseteq Requests
  /\ chains \in Nat
  /\ \A r \in awaited : r.chain \in 1 .. chains
  /\ \A r, q \in awaited : r.chain = q.chain => r = q

BoxesTypeOK ==
  /\ graphs \subseteq Statuses
  /\ checked \subseteq Statuses
  /\ undisturbed \in BOOLEAN

(* A chain that was started alone has the only request there is.           *)
AloneAwaited == undisturbed => \A r, q \in awaited : r = q

Stored(s) == currentOutput[s] = ListOf(selected, s)

(* What an undisturbed chain with short answers has stored when it waits   *)
(* for the list of a status.                                               *)
StoredBefore(r) ==
  /\ r.status # "Published" => Stored("Published")
  /\ r.status = "Acknowledged" => Stored("Delivered")

ShortRequest(r) ==
  /\ r.kind = "byStatus"
  /\ r.of = selected
  /\ r.min = 0
  /\ r.found = {}
  /\ StoredBefore(r)

ShortChain == undisturbed /\ Short(selected) => \A r \in awaited : ShortRequest(r)

ChartInv ==
  /\ DataTypeOK
  /\ RequestTypeOK
  /\ BoxesTypeOK
  /\ AloneAwaited
  /\ ShortChain
  /\ ChartOfSelection
  /\ TickedGraphs

-----------------------------------------------------------------------------

(* ChartInv implies the property the page promises.                        *)
LEMMA ChartInvSuffices == ChartInv => ChartAsChosen
<1> SUFFICES ASSUME ChartInv
             PROVE  ChartTypeOK
  BY DEF ChartInv, ChartAsChosen
<1>1. \A r \in awaited : r.kind \in {"byStatus", "all"} /\ r.status \in Statuses
                         /\ r.of \in Options /\ r.min \in Nat
  BY DEF ChartInv, RequestTypeOK, Requests
<1> QED
  BY <1>1 DEF ChartInv, ChartTypeOK, DataTypeOK, RequestTypeOK, BoxesTypeOK

(* An answer holds messages of the lists only.                             *)
LEMMA AnswerInLists ==
  ASSUME NEW r \in Requests
  PROVE  AnswerTo(r) \subseteq AllLists
<1>1. CASE r.kind = "byStatus"
  BY <1>1 DEF AnswerTo, AllLists, Requests
<1>2. CASE r.kind # "byStatus"
  BY <1>2 DEF AnswerTo, AllLists, Requests, Statuses
<1> QED
  BY <1>1, <1>2

(* A list has no more messages than were counted.                          *)
LEMMA ListCounted ==
  ASSUME NEW c \in Options, NEW s \in Statuses
  PROVE  Cardinality(ListOf(c, s)) <= Count[c][s]
<1> DEFINE message == [i \in 1 .. Count[c][s] |-> [of |-> c, status |-> s, id |-> i]]
<1>1. Count[c][s] \in Nat
  BY ChartAssumption
<1>2. message \in Surjection(1 .. Count[c][s], ListOf(c, s))
  BY DEF Surjection, ListOf
<1>3. ExistsSurjection(1 .. Count[c][s], ListOf(c, s))
  BY <1>2 DEF ExistsSurjection
<1> QED
  BY <1>1, <1>3, FS_SurjCardinalityBound

(* A short list comes whole with the first answer, which is not full.      *)
LEMMA ShortAnswer ==
  ASSUME NEW r \in Requests, r.kind = "byStatus", r.min = 0, Short(r.of)
  PROVE  /\ AnswerTo(r) = ListOf(r.of, r.status)
         /\ Cardinality(AnswerTo(r)) < DataLimit
<1>1. r.of \in Options /\ r.status \in Statuses
  BY DEF Requests
<1>2. Count[r.of][r.status] \in Nat /\ DataLimit \in Nat /\ Count[r.of][r.status] < DataLimit
  BY <1>1, ChartAssumption DEF Short
<1>3. \A m \in ListOf(r.of, r.status) : m.id \in Nat /\ 0 < m.id /\ m.id <= DataLimit
  BY <1>2 DEF ListOf
<1>4. AnswerTo(r) = ListOf(r.of, r.status)
  BY <1>2, <1>3 DEF AnswerTo
<1>5. Cardinality(ListOf(r.of, r.status)) <= Count[r.of][r.status]
  BY <1>1, ListCounted
<1>6. IsFiniteSet(ListOf(r.of, r.status))
  <2> DEFINE n == Count[r.of][r.status]
             message == [i \in 1 .. n |-> [of |-> r.of, status |-> r.status, id |-> i]]
  <2>1. message \in Surjection(1 .. n, ListOf(r.of, r.status))
    BY DEF Surjection, ListOf
  <2>2. IsFiniteSet(1 .. n)
    <3>1. 1 \in Int /\ n \in Int
      BY <1>2
    <3> HIDE DEF n
    <3> QED
      BY <3>1, FS_Interval
  <2> QED
    BY <2>1, <2>2, FS_Surjection
<1>7. Cardinality(ListOf(r.of, r.status)) \in Nat
  BY <1>6, FS_CardinalityType
<1> QED
  BY <1>2, <1>4, <1>5, <1>7

-----------------------------------------------------------------------------

LEMMA ChartInitial == ChartInit => ChartInv
<1> SUFFICES ASSUME ChartInit
             PROVE  ChartInv
  OBVIOUS
<1>1. Started(1, selected) \in Requests
  BY DEF ChartInit, Started, Request, Requests, Statuses, AllLists
<1>2. DataTypeOK /\ BoxesTypeOK
  BY DEF ChartInit, DataTypeOK, BoxesTypeOK, Lists, Statuses
<1>3. RequestTypeOK
  BY <1>1 DEF ChartInit, RequestTypeOK, Started, Request
<1>4. ShortChain
  BY DEF ChartInit, ShortChain, ShortRequest, StoredBefore, Started, Request
<1> QED
  BY <1>2, <1>3, <1>4 DEF ChartInit, ChartInv, AloneAwaited, ChartOfSelection, TickedGraphs

(* Choosing something else starts a chain beside those that run.           *)
LEMMA LoadKeepsInv ==
  ASSUME ChartInv, NEW c \in Options, LoadGraphData(c)
  PROVE  ChartInv'
<1> DEFINE new == Started(chains + 1, c)
<1>1. /\ new \in Requests /\ new.chain = chains + 1 /\ new.kind = "byStatus"
      /\ new.of = c /\ new.min = 0 /\ new.found = {} /\ new.status = "Published"
  BY DEF ChartInv, RequestTypeOK, Started, Request, Requests, Statuses
<1>2. DataTypeOK' /\ BoxesTypeOK'
  BY DEF ChartInv, LoadGraphData, DataTypeOK, BoxesTypeOK, Lists, Statuses
<1>3. RequestTypeOK'
  <2>1. \A r \in awaited' : r \in awaited \/ r = new
    BY DEF LoadGraphData
  <2> QED
    BY <1>1, <2>1 DEF ChartInv, LoadGraphData, RequestTypeOK
<1>4. AloneAwaited' /\ ShortChain'
  <2> SUFFICES ASSUME undisturbed'
               PROVE  AloneAwaited' /\ ShortChain'
    BY DEF AloneAwaited, ShortChain
  <2>1. awaited' = {new} /\ selected' = c
    BY DEF LoadGraphData
  <2> QED
    BY <1>1, <2>1 DEF AloneAwaited, ShortChain, ShortRequest, StoredBefore
<1>5. ChartOfSelection'
  BY DEF LoadGraphData, ChartOfSelection
<1>6. TickedGraphs'
  BY DEF ChartInv, LoadGraphData, TickedGraphs
<1> QED
  BY <1>2, <1>3, <1>4, <1>5, <1>6 DEF ChartInv

(* A request that goes on in the place of r keeps the requests in order.   *)
LEMMA NextRequest ==
  ASSUME ChartInv, NEW r \in awaited, NEW q \in Requests, q.chain = r.chain,
         awaited' = (awaited \ {r}) \union {q}, chains' = chains, undisturbed' = undisturbed
  PROVE  RequestTypeOK' /\ AloneAwaited'
<1>1. \A p \in awaited' : p = q \/ (p \in awaited /\ p # r)
  OBVIOUS
<1>2. RequestTypeOK'
  BY <1>1 DEF ChartInv, RequestTypeOK
<1>3. AloneAwaited'
  BY <1>1 DEF ChartInv, AloneAwaited
<1> QED
  BY <1>2, <1>3

(* A request that is the last of its chain, likewise.                      *)
LEMMA LastRequest ==
  ASSUME ChartInv, NEW r \in awaited, awaited' = awaited \ {r}, chains' = chains,
         undisturbed' = undisturbed \/ undisturbed' = FALSE
  PROVE  RequestTypeOK' /\ AloneAwaited'
BY DEF ChartInv, RequestTypeOK, AloneAwaited

(* A chain whose last answer has come draws the chart.                     *)
LEMMA AllCompleteKeepsInv ==
  ASSUME ChartInv, NEW r \in awaited, r.kind = "all", AllComplete(r),
         UNCHANGED <<selected, checked, chains, toggles, undisturbed>>
  PROVE  ChartInv'
<1>1. DataTypeOK' /\ BoxesTypeOK' /\ TickedGraphs'
  BY DEF ChartInv, AllComplete, DrawChart, DataTypeOK, BoxesTypeOK, TickedGraphs
<1>2. RequestTypeOK' /\ AloneAwaited'
  BY LastRequest DEF AllComplete
<1>3. ~(undisturbed /\ Short(selected))
  BY DEF ChartInv, ShortChain, ShortRequest
<1>4. ~(undisturbed /\ Short(selected))'
  BY <1>3 DEF Short
<1> QED
  BY <1>1, <1>2, <1>4 DEF ChartInv, ShortChain, ChartOfSelection

(* A full answer: no undisturbed chain with short lists gets one.          *)
LEMMA MoreKeepsInv ==
  ASSUME ChartInv, NEW r \in awaited, NEW found \in SUBSET AllLists, MoreToCome(r, found),
         ~(undisturbed /\ Short(selected)),
         UNCHANGED <<selected, checked, chains, toggles, undisturbed>>
  PROVE  ChartInv'
<1> DEFINE q == Request("all", r.chain, r.status, selected, r.min + DataLimit, found)
<1>1. q \in Requests /\ q.chain = r.chain
  BY ChartAssumption DEF ChartInv, DataTypeOK, RequestTypeOK, Request, Requests
<1>2. RequestTypeOK' /\ AloneAwaited'
  BY <1>1, NextRequest DEF MoreToCome
<1>3. DataTypeOK' /\ BoxesTypeOK' /\ TickedGraphs'
  BY DEF ChartInv, MoreToCome, DataTypeOK, BoxesTypeOK, TickedGraphs
<1>4. ~(undisturbed /\ Short(selected))'
  BY DEF Short
<1> QED
  BY <1>2, <1>3, <1>4 DEF ChartInv, ShortChain, ChartOfSelection

(* A list that is complete: what an undisturbed chain stores is the list   *)
(* of the selection.                                                       *)
LEMMA StatusKeepsInv ==
  ASSUME ChartInv, NEW r \in awaited, NEW found \in SUBSET AllLists, StatusComplete(r, found),
         undisturbed /\ Short(selected) => found = ListOf(selected, r.status),
         UNCHANGED <<selected, checked, chains, toggles, undisturbed>>
  PROVE  ChartInv'
<1>1. r \in Requests
  BY DEF ChartInv, RequestTypeOK
<1>2. /\ currentOutput' = [currentOutput EXCEPT ![r.status] = found]
      /\ currentOutput' \in Lists
  BY <1>1 DEF ChartInv, StatusComplete, DataTypeOK, Lists, Requests, AllLists
<1>3. DataTypeOK' /\ BoxesTypeOK' /\ TickedGraphs'
  <2>1. CASE r.status = "Acknowledged"
    BY <1>2, <2>1 DEF ChartInv, StatusComplete, DrawChart, DataTypeOK, BoxesTypeOK, TickedGraphs
  <2>2. CASE r.status # "Acknowledged"
    BY <1>2, <2>2 DEF ChartInv, StatusComplete, DataTypeOK, BoxesTypeOK, TickedGraphs
  <2> QED
    BY <2>1, <2>2
<1>4. ASSUME undisturbed, Short(selected)
      PROVE  /\ \A p \in awaited : p = r
             /\ StoredBefore(r)
             /\ currentOutput'[r.status] = ListOf(selected, r.status)
             /\ \A s \in Statuses : s # r.status => currentOutput'[s] = currentOutput[s]
  BY <1>1, <1>2, <1>4
     DEF ChartInv, AloneAwaited, ShortChain, ShortRequest, DataTypeOK, Lists, Requests
<1>5. Short(selected)' <=> Short(selected)
  BY DEF Short
<1>6. CASE r.status = "Acknowledged"
  <2>1. RequestTypeOK' /\ AloneAwaited'
    BY <1>6, LastRequest DEF StatusComplete
  <2>2. ASSUME undisturbed, Short(selected)
        PROVE  /\ awaited' = {}
               /\ \A s \in Statuses : chart'[s] = ListOf(selected, s)
    <3>1. awaited' = awaited \ {r} /\ chart' = currentOutput'
      BY <1>6 DEF StatusComplete, DrawChart
    <3>2. /\ currentOutput["Published"] = ListOf(selected, "Published")
          /\ currentOutput["Delivered"] = ListOf(selected, "Delivered")
      BY <1>4, <1>6, <2>2 DEF StoredBefore, Stored
    <3> QED
      BY <1>4, <1>6, <2>2, <3>1, <3>2 DEF Statuses
  <2>3. chart' # NoChart
    BY <1>2, <1>6, NoChartAssumption DEF StatusComplete, DrawChart
  <2>4. ShortChain' /\ ChartOfSelection'
    BY <1>5, <2>2, <2>3 DEF ShortChain, ChartOfSelection
  <2> QED
    BY <1>3, <2>1, <2>4 DEF ChartInv
<1>7. CASE r.status # "Acknowledged"
  <2> DEFINE next == IF r.status = "Published" THEN "Delivered" ELSE "Acknowledged"
             q == Request("byStatus", r.chain, next, selected, 0, {})
  <2>1. /\ q \in Requests /\ q.chain = r.chain /\ q.kind = "byStatus" /\ q.of = selected
        /\ q.min = 0 /\ q.found = {} /\ q.status = next
    BY <1>1 DEF ChartInv, DataTypeOK, Request, Requests, Statuses
  <2>2. awaited' = (awaited \ {r}) \union {q}
    BY <1>7 DEF StatusComplete
  <2>3. RequestTypeOK' /\ AloneAwaited'
    BY <2>1, <2>2, NextRequest
  <2>4. ASSUME undisturbed, Short(selected)
        PROVE  \A p \in awaited' : ShortRequest(p)'
    <3>1. awaited' = {q}
      BY <1>4, <2>2, <2>4
    <3>2. /\ q.status # "Published" => currentOutput'["Published"] = ListOf(selected, "Published")
          /\ q.status = "Acknowledged" =>
               currentOutput'["Delivered"] = ListOf(selected, "Delivered")
      BY <1>1, <1>4, <1>7, <2>1, <2>4 DEF StoredBefore, Stored, Requests, Statuses
    <3> HIDE DEF q
    <3> SUFFICES ASSUME NEW p \in awaited'
                 PROVE  ShortRequest(p)'
      OBVIOUS
    <3>3. p = q
      BY <3>1
    <3>4. p.kind = "byStatus" /\ p.of = selected' /\ p.min = 0 /\ p.found = {}
      BY <2>1, <3>3
    <3>5. StoredBefore(p)'
      BY <3>2, <3>3 DEF StoredBefore, Stored
    <3> QED
      BY <3>4, <3>5 DEF ShortRequest
  <2>5. ShortChain'
    BY <1>5, <2>4 DEF ShortChain
  <2>6. ChartOfSelection'
    BY <2>2 DEF ChartOfSelection
  <2> QED
    BY <1>3, <2>3, <2>5, <2>6 DEF ChartInv
<1> QED
  BY <1>6, <1>7

LEMMA AnswerKeepsInv ==
  ASSUME ChartInv, NEW r \in awaited, DataAnswer(r)
  PROVE  ChartInv'
<1> DEFINE output == AnswerTo(r)
           found == r.found \union output
<1>1. r \in Requests
  BY DEF ChartInv, RequestTypeOK
<1>2. found \in SUBSET AllLists
  BY <1>1, AnswerInLists DEF Requests
<1>3. UNCHANGED <<selected, checked, chains, toggles, undisturbed>>
  BY DEF DataAnswer
<1>4. undisturbed /\ Short(selected) =>
        /\ r.kind = "byStatus"
        /\ Cardinality(output) < DataLimit
        /\ found = ListOf(selected, r.status)
  BY <1>1, ShortAnswer DEF ChartInv, ShortChain, ShortRequest
<1> HIDE DEF found, output
<1>5. CASE Cardinality(output) < DataLimit /\ r.kind = "byStatus"
  <2>1. StatusComplete(r, found)
    BY <1>5 DEF DataAnswer, output, found
  <2> QED
    BY <1>2, <1>3, <1>4, <2>1, StatusKeepsInv
<1>6. CASE Cardinality(output) < DataLimit /\ r.kind # "byStatus"
  <2>1. AllComplete(r) /\ r.kind = "all"
    BY <1>1, <1>6 DEF DataAnswer, output, found, Requests
  <2> QED
    BY <1>3, <2>1, AllCompleteKeepsInv
<1>7. CASE ~(Cardinality(output) < DataLimit)
  <2>1. MoreToCome(r, found)
    BY <1>7 DEF DataAnswer, output, found
  <2> QED
    BY <1>2, <1>3, <1>4, <1>7, <2>1, MoreKeepsInv
<1> QED
  BY <1>5, <1>6, <1>7

LEMMA FailureKeepsInv ==
  ASSUME ChartInv, NEW r \in awaited, DataFails(r)
  PROVE  ChartInv'
<1>1. RequestTypeOK' /\ AloneAwaited'
  BY LastRequest DEF DataFails
<1> QED
  BY <1>1 DEF ChartInv, DataFails, DataTypeOK, BoxesTypeOK, ShortChain, ChartOfSelection,
              TickedGraphs

(* Clicking a box changes the graphs the way it changes the boxes.         *)
LEMMA ToggleKeepsInv ==
  ASSUME ChartInv, NEW s \in Statuses, AddRemoveData(s)
  PROVE  ChartInv'
<1>1. DataTypeOK' /\ RequestTypeOK' /\ AloneAwaited'
  BY DEF ChartInv, AddRemoveData, DataTypeOK, RequestTypeOK, AloneAwaited
<1>2. BoxesTypeOK' /\ TickedGraphs'
  BY DEF ChartInv, AddRemoveData, BoxesTypeOK, TickedGraphs
<1>3. ShortChain'
  BY DEF ChartInv, AddRemoveData, ShortChain, Short, ShortRequest, StoredBefore, Stored
<1>4. ChartOfSelection'
  BY DEF ChartInv, AddRemoveData, ChartOfSelection, Short
<1> QED
  BY <1>1, <1>2, <1>3, <1>4 DEF ChartInv

(* The chart shows the selection to a user who waits, and the graphs that  *)
(* are ticked: what stats.js promises, for lists and answers of any size.  *)
THEOREM ChartIsAsChosen == ChartSpec => []ChartAsChosen
<1>1. ChartInv /\ [ChartNext]_chartVars => ChartInv'
  <2> SUFFICES ASSUME ChartInv, [ChartNext]_chartVars
               PROVE  ChartInv'
    OBVIOUS
  <2>1. CASE \E c \in Options : LoadGraphData(c)
    BY <2>1, LoadKeepsInv
  <2>2. CASE \E r \in awaited : DataAnswer(r) \/ DataFails(r)
    BY <2>2, AnswerKeepsInv, FailureKeepsInv
  <2>3. CASE \E s \in Statuses : AddRemoveData(s)
    BY <2>3, ToggleKeepsInv
  <2>4. CASE UNCHANGED chartVars
    <3>1. /\ selected' = selected /\ currentOutput' = currentOutput /\ awaited' = awaited
          /\ chart' = chart /\ graphs' = graphs /\ checked' = checked /\ chains' = chains
          /\ undisturbed' = undisturbed
      BY <2>4 DEF chartVars
    <3> QED
      BY <3>1 DEF ChartInv, DataTypeOK, RequestTypeOK, BoxesTypeOK, AloneAwaited, ShortChain,
                  Short, ShortRequest, StoredBefore, Stored, ChartOfSelection, TickedGraphs
  <2> QED
    BY <2>1, <2>2, <2>3, <2>4 DEF ChartNext
<1> QED
  BY <1>1, ChartInitial, ChartInvSuffices, PTL DEF ChartSpec

-----------------------------------------------------------------------------
(* The graphs of the message rate page                                     *)

ListsOK ==
  /\ received \in [RateStatuses -> Seq(0 .. LastSecond)]
  /\ \A s \in RateStatuses : Len(received[s]) <= MaxMessages

(* The seconds with events, and those of them with none in between.        *)
Busy(s) == {t \in 1 .. LastSecond : Events(s, t) > 0}
Adjacent(s, t, u) ==
  t \in Busy(s) /\ u \in Busy(s) /\ t < u /\ \A w \in Busy(s) : ~(t < w /\ w < u)

Peak(s, t) == Point(t, Events(s, t))
Ground(t) == Point(t, 0)

(* What a loop has entered when it comes to second v.                      *)
EnteredPeak(s, v, p) == \E t \in Busy(s) : t < v /\ p = Peak(s, t)
EnteredGap(s, v, p) ==
  \E t, u \in Busy(s) : Adjacent(s, t, u) /\ u <= v /\ p \in GapFill(t, u)
Entered(s, v, p) == EnteredPeak(s, v, p) \/ EnteredGap(s, v, p)

PointsOf(s) == RatePoints(RateTimes(s)) \union StretchDown(s) \union StretchUp(s)

RateInv ==
  /\ ListsOK
  /\ chartData \in {[s \in RateStatuses |-> {}], [s \in RateStatuses |-> PointsOf(s)]}

LEMMA FunctionAsSeq ==
  ASSUME NEW n \in Nat, NEW S, NEW f \in [1 .. n -> S]
  PROVE  f \in Seq(S) /\ Len(f) = n
<1>1. f \in Seq(S)
  OBVIOUS
<1>2. QED
  BY <1>1

LEMMA EventsFacts ==
  ASSUME ListsOK, NEW s \in RateStatuses, NEW t \in Nat
  PROVE  /\ Events(s, t) \in Nat /\ EventsUpTo(s, t) \in Nat
         /\ Events(s, t) <= MaxMessages /\ EventsUpTo(s, t) <= MaxMessages
         /\ EventsUpTo(s, 0) = 0
         /\ t > 0 => EventsUpTo(s, t) = EventsUpTo(s, t - 1) + Events(s, t)
<1> DEFINE D == DOMAIN received[s]
           A == {i \in D : received[s][i] \in 1 .. t}
           B == {i \in D : received[s][i] \in 1 .. t - 1}
           C == {i \in D : received[s][i] = t}
<1>1. received[s] \in Seq(0 .. LastSecond) /\ Len(received[s]) <= MaxMessages
  BY DEF ListsOK
<1>2. /\ D = 1 .. Len(received[s]) /\ Len(received[s]) \in Nat
      /\ \A i \in D : received[s][i] \in 0 .. LastSecond
  BY <1>1, LenProperties, ElementOfSeq
<1>3. MaxMessages \in Nat /\ LastSecond \in Nat
  BY RateAssumption
<1>4. IsFiniteSet(D) /\ Cardinality(D) <= MaxMessages
  <2>1. /\ IsFiniteSet(1 .. Len(received[s]))
        /\ Cardinality(1 .. Len(received[s]))
             = IF 1 > Len(received[s]) THEN 0 ELSE Len(received[s]) - 1 + 1
    <3>1. 1 \in Int /\ Len(received[s]) \in Int
      BY <1>2
    <3> HIDE DEF A, B, C, D
    <3>2. QED
      BY <3>1, FS_Interval
  <2>2. QED
    BY <1>1, <1>2, <1>3, <2>1
<1>5. A \in SUBSET D /\ B \in SUBSET D /\ C \in SUBSET D
  OBVIOUS
<1>6. EventsUpTo(s, t) = Cardinality(A) /\ EventsUpTo(s, t - 1) = Cardinality(B)
      /\ Events(s, t) = Cardinality(C)
  BY DEF EventsUpTo, Events
<1>7. t > 0 => A \ B = C /\ A \cap B = B
  BY <1>2, <1>3
<1>8. EventsUpTo(s, 0) = 0
  <2>1. {i \in D : received[s][i] \in 1 .. 0} = {}
    BY <1>2
  <2>2. QED
    BY <2>1, FS_EmptySet DEF EventsUpTo
<1> HIDE DEF A, B, C, D
<1>9. IsFiniteSet(A) /\ IsFiniteSet(B) /\ IsFiniteSet(C)
      /\ Cardinality(A) <= Cardinality(D) /\ Cardinality(C) <= Cardinality(D)
  BY <1>4, <1>5, FS_Subset
<1>10. Cardinality(A) \in Nat /\ Cardinality(B) \in Nat /\ Cardinality(C) \in Nat
       /\ Cardinality(D) \in Nat
  BY <1>4, <1>9, FS_CardinalityType
<1>11. Cardinality(A \ B) = Cardinality(A) - Cardinality(A \cap B)
  BY <1>9, FS_Difference
<1>12. QED
  BY <1>3, <1>4, <1>6, <1>7, <1>8, <1>9, <1>10, <1>11

LEMMA EventsGrow ==
  ASSUME ListsOK, NEW s \in RateStatuses, NEW t \in Nat, NEW u \in Nat, t <= u
  PROVE  EventsUpTo(s, t) <= EventsUpTo(s, u)
<1> DEFINE T == {v \in Nat : v >= t => EventsUpTo(s, t) <= EventsUpTo(s, v)}
<1>1. \A v \in Nat : EventsUpTo(s, v) \in Nat
  BY EventsFacts
<1>2. \A v \in Nat : /\ Events(s, v) \in Nat
                     /\ v > 0 => EventsUpTo(s, v) = EventsUpTo(s, v - 1) + Events(s, v)
  BY EventsFacts
<1>3. 0 \in T
  BY <1>1
<1>4. ASSUME NEW v \in Nat, v \in T PROVE v + 1 \in T
  <2>1. /\ v + 1 \in Nat /\ v + 1 > 0 /\ (v + 1) - 1 = v
        /\ Events(s, v + 1) \in Nat
        /\ EventsUpTo(s, v + 1) = EventsUpTo(s, v) + Events(s, v + 1)
    BY <1>2
  <2>2. v + 1 >= t => EventsUpTo(s, t) <= EventsUpTo(s, v + 1)
    BY <1>1, <1>4, <2>1
  <2>3. QED
    BY <2>1, <2>2
<1> HIDE DEF T
<1>5. u \in T
  BY <1>3, <1>4, SetInduction
<1>6. QED
  BY <1>5 DEF T

LEMMA TimesFacts ==
  ASSUME ListsOK, NEW s \in RateStatuses
  PROVE  LET times == RateTimes(s)
         IN  /\ times \in Seq(1 .. LastSecond)
             /\ Len(times) = EventsUpTo(s, LastSecond) /\ Len(times) \in Nat
             /\ \A i \in 1 .. Len(times) :
                  /\ times[i] \in 1 .. LastSecond
                  /\ EventsUpTo(s, times[i] - 1) < i /\ i <= EventsUpTo(s, times[i])
<1> DEFINE N == EventsUpTo(s, LastSecond)
           Here(i, t) == i <= EventsUpTo(s, t) /\ EventsUpTo(s, t - 1) < i
           times == RateTimes(s)
<1>1. LastSecond \in Nat
  BY RateAssumption
<1>2. N \in Nat
  BY <1>1, EventsFacts
<1>3. times = [i \in 1 .. N |-> CHOOSE t \in 1 .. LastSecond : Here(i, t)]
  BY Zenon DEF RateTimes
<1>4. ASSUME NEW i \in 1 .. N PROVE \E t \in 1 .. LastSecond : Here(i, t)
  <2> DEFINE T == {t \in Nat : i <= EventsUpTo(s, t)}
  <2>1. LastSecond \in T
    BY <1>1
  <2>2. T \in SUBSET Nat /\ T # {}
    BY <2>1
  <2> HIDE DEF T
  <2>3. PICK m \in T : \A k \in T : m <= k
    BY <2>2, LeastNat
  <2>4. m \in Nat /\ i <= EventsUpTo(s, m) /\ m <= LastSecond
    BY <2>1, <2>3 DEF T
  <2>5. m # 0
    BY <1>2, <2>4, EventsFacts
  <2>6. m - 1 \in Nat /\ m - 1 \notin T
    BY <2>3, <2>4, <2>5
  <2>7. EventsUpTo(s, m - 1) \in Nat /\ ~(i <= EventsUpTo(s, m - 1))
    BY <2>6, EventsFacts DEF T
  <2>8. EventsUpTo(s, m - 1) < i
    BY <1>2, <2>7
  <2>9. m \in 1 .. LastSecond
    BY <1>1, <2>4, <2>5
  <2>10. QED
    BY <2>4, <2>8, <2>9
<1> HIDE DEF N, Here
<1>5. \A i \in 1 .. N : times[i] \in 1 .. LastSecond /\ Here(i, times[i])
  BY <1>3, <1>4
<1> HIDE DEF times
<1>6. times \in [1 .. N -> 1 .. LastSecond]
  BY <1>3, <1>5
<1>7. times \in Seq(1 .. LastSecond) /\ Len(times) = N
  BY <1>2, <1>6, FunctionAsSeq
<1>8. QED
  BY <1>2, <1>5, <1>7 DEF N, Here, times

(* The sorted seconds are the busy ones; after a second comes the next     *)
(* busy one.                                                               *)
LEMMA BusyFacts ==
  ASSUME ListsOK, NEW s \in RateStatuses, NEW t \in Nat
  PROVE  /\ t \in 1 .. LastSecond /\ EventsUpTo(s, t - 1) < EventsUpTo(s, t) => t \in Busy(s)
         /\ t \in Busy(s) => t \in 1 .. LastSecond /\ Events(s, t) \in Nat \ {0}
         /\ t \in 1 .. LastSecond /\ t \notin Busy(s) => Events(s, t) = 0
<1>1. LastSecond \in Nat
  BY RateAssumption
<1>2. Events(s, t) \in Nat /\ (t > 0 => EventsUpTo(s, t) = EventsUpTo(s, t - 1) + Events(s, t))
  BY EventsFacts
<1>3. t > 0 => t - 1 \in Nat
  OBVIOUS
<1>4. t > 0 => EventsUpTo(s, t - 1) \in Nat
  BY <1>3, EventsFacts
<1>5. QED
  BY <1>1, <1>2, <1>4 DEF Busy

LEMMA QuietBetween ==
  ASSUME ListsOK, NEW s \in RateStatuses, NEW t \in Nat, NEW u \in Nat,
         EventsUpTo(s, u) <= EventsUpTo(s, t)
  PROVE  \A w \in Busy(s) : ~(t < w /\ w <= u)
<1> SUFFICES ASSUME NEW w \in Busy(s), t < w, w <= u PROVE FALSE
  OBVIOUS
<1>1. w \in 1 .. LastSecond
  BY DEF Busy
<1>2. w \in Nat /\ w - 1 \in Nat /\ t <= w - 1 /\ w > 0
  BY <1>1, RateAssumption
<1>3. Events(s, w) > 0
  BY DEF Busy
<1>4. EventsUpTo(s, w) = EventsUpTo(s, w - 1) + Events(s, w) /\ Events(s, w) \in Nat
  BY <1>2, EventsFacts
<1>5. EventsUpTo(s, t) <= EventsUpTo(s, w - 1)
  BY <1>2, EventsGrow
<1>6. EventsUpTo(s, w) <= EventsUpTo(s, u)
  BY <1>2, EventsGrow
<1>7. EventsUpTo(s, t) \in Nat /\ EventsUpTo(s, u) \in Nat /\ EventsUpTo(s, w - 1) \in Nat
      /\ EventsUpTo(s, w) \in Nat
  BY <1>2, EventsFacts
<1>8. QED
  BY <1>3, <1>4, <1>5, <1>6, <1>7

LEMMA SortedFacts ==
  ASSUME ListsOK, NEW s \in RateStatuses, NEW times, times = RateTimes(s)
  PROVE  /\ \A i \in 1 .. Len(times) : times[i] \in Busy(s)
         /\ Len(times) > 0 => /\ \A w \in Busy(s) : times[1] <= w /\ w <= Latest(times)
                              /\ EventsUpTo(s, times[1] - 1) = 0
                              /\ Len(times) = EventsUpTo(s, Latest(times))
         /\ \A i \in 2 .. Len(times) :
              \/ times[i] = times[i - 1]
              \/ /\ Adjacent(s, times[i - 1], times[i])
                 /\ EventsUpTo(s, times[i - 1]) = i - 1 /\ EventsUpTo(s, times[i] - 1) = i - 1
<1> DEFINE N == Len(times)
<1>0. LastSecond \in Nat
  BY RateAssumption
<1>1. /\ times \in Seq(1 .. LastSecond) /\ N = EventsUpTo(s, LastSecond) /\ N \in Nat
      /\ \A i \in 1 .. N : /\ times[i] \in 1 .. LastSecond
                           /\ EventsUpTo(s, times[i] - 1) < i /\ i <= EventsUpTo(s, times[i])
  BY TimesFacts
<1> HIDE DEF N
<1>2. \A i \in 1 .. N : /\ times[i] \in Nat /\ times[i] - 1 \in Nat
                        /\ EventsUpTo(s, times[i]) \in Nat /\ EventsUpTo(s, times[i] - 1) \in Nat
                        /\ EventsUpTo(s, times[i]) <= N
  <2> SUFFICES ASSUME NEW i \in 1 .. N
               PROVE  /\ times[i] \in Nat /\ times[i] - 1 \in Nat
                      /\ EventsUpTo(s, times[i]) \in Nat /\ EventsUpTo(s, times[i] - 1) \in Nat
                      /\ EventsUpTo(s, times[i]) <= N
    OBVIOUS
  <2>1. times[i] \in Nat /\ times[i] - 1 \in Nat /\ times[i] <= LastSecond
    BY <1>0, <1>1
  <2>2. EventsUpTo(s, times[i]) \in Nat /\ EventsUpTo(s, times[i] - 1) \in Nat
    BY <2>1, EventsFacts
  <2>3. EventsUpTo(s, times[i]) <= N
    BY <1>0, <1>1, <2>1, EventsGrow
  <2>4. QED
    BY <2>1, <2>2, <2>3
<1>3. ASSUME NEW i \in 1 .. N PROVE times[i] \in Busy(s)
  <2>1. i \in Nat
    BY <1>1
  <2>2. EventsUpTo(s, times[i] - 1) < EventsUpTo(s, times[i])
    BY <1>1, <1>2, <2>1
  <2>3. QED
    BY <1>1, <1>2, <2>2, BusyFacts
<1>4. ASSUME N > 0
      PROVE  /\ \A w \in Busy(s) : times[1] <= w /\ w <= times[N]
             /\ EventsUpTo(s, times[1] - 1) = 0 /\ N = EventsUpTo(s, times[N])
  <2>1. 1 \in 1 .. N /\ N \in 1 .. N
    BY <1>1, <1>4
  <2>2. EventsUpTo(s, times[1] - 1) = 0 /\ times[1] - 1 \in Nat /\ times[1] \in Nat
    <3>1. EventsUpTo(s, times[1] - 1) < 1
      BY <1>1, <2>1, Zenon
    <3>2. /\ EventsUpTo(s, times[1] - 1) \in Nat
          /\ times[1] - 1 \in Nat /\ times[1] \in Nat
      BY <1>2, <2>1, Zenon
    <3>3. QED
      BY <3>1, <3>2
  <2>3. EventsUpTo(s, times[N]) = N /\ times[N] \in Nat
    <3>1. N <= EventsUpTo(s, times[N])
      BY <1>1, <2>1, Zenon
    <3>2. EventsUpTo(s, times[N]) \in Nat /\ EventsUpTo(s, times[N]) <= N /\ times[N] \in Nat
      BY <1>2, <2>1, Zenon
    <3>3. QED
      BY <1>1, <3>1, <3>2
  <2>4. EventsUpTo(s, 0) = 0
    BY EventsFacts, <1>0
  <2>5. \A w \in Busy(s) : ~(0 < w /\ w <= times[1] - 1)
    BY <2>2, <2>4, QuietBetween
  <2>6. \A w \in Busy(s) : ~(times[N] < w /\ w <= LastSecond)
    BY <1>0, <1>1, <2>3, QuietBetween
  <2>7. \A w \in Busy(s) : w \in 1 .. LastSecond
    BY DEF Busy
  <2>8. QED
    BY <1>0, <2>2, <2>3, <2>5, <2>6, <2>7
<1>5. ASSUME NEW i \in 2 .. N, times[i] # times[i - 1]
      PROVE  /\ Adjacent(s, times[i - 1], times[i])
             /\ EventsUpTo(s, times[i - 1]) = i - 1 /\ EventsUpTo(s, times[i] - 1) = i - 1
  <2> DEFINE t == times[i - 1]
             u == times[i]
  <2>1. i \in 1 .. N /\ i - 1 \in 1 .. N /\ i \in Nat
    BY <1>1
  <2>2. t \in Busy(s) /\ u \in Busy(s)
    BY <1>3, <2>1
  <2>3. /\ t \in Nat /\ u \in Nat /\ t - 1 \in Nat /\ u - 1 \in Nat
        /\ EventsUpTo(s, t) \in Nat /\ EventsUpTo(s, u) \in Nat
        /\ EventsUpTo(s, t - 1) \in Nat /\ EventsUpTo(s, u - 1) \in Nat
        /\ EventsUpTo(s, t - 1) < i - 1 /\ i - 1 <= EventsUpTo(s, t)
        /\ EventsUpTo(s, u - 1) < i /\ i <= EventsUpTo(s, u)
    BY <1>1, <1>2, <2>1
  <2> HIDE DEF t, u
  <2>4. t # u
    BY <1>5 DEF t, u
  <2>5. t < u
    <3> SUFFICES ASSUME u <= t - 1 PROVE FALSE
      BY <2>3, <2>4
    <3>1. EventsUpTo(s, u) <= EventsUpTo(s, t - 1)
      BY <2>3, EventsGrow
    <3>2. QED
      BY <2>1, <2>3, <3>1
  <2>6. EventsUpTo(s, t) <= EventsUpTo(s, u - 1)
    <3>1. t <= u - 1
      BY <2>3, <2>5
    <3>2. QED
      BY <2>3, <3>1, EventsGrow
  <2>7. EventsUpTo(s, t) = i - 1 /\ EventsUpTo(s, u - 1) = i - 1
    BY <2>1, <2>3, <2>6
  <2>8. \A w \in Busy(s) : ~(t < w /\ w <= u - 1)
    BY <2>3, <2>7, QuietBetween
  <2>9. \A w \in Busy(s) : w \in 1 .. LastSecond
    BY DEF Busy
  <2>10. \A w \in Busy(s) : ~(t < w /\ w < u)
    BY <1>0, <2>3, <2>8, <2>9
  <2>11. QED
    BY <2>2, <2>5, <2>7, <2>10 DEF Adjacent, t, u
<1>6. QED
  BY <1>3, <1>4, <1>5 DEF N, Latest

(* A gap between two busy seconds.                                         *)
LEMMA GapFacts ==
  ASSUME NEW t \in Nat, NEW u \in Nat, NEW p
  PROVE  p \in GapFill(t, u) <=> \/ u - t > 1 /\ p = Ground(t + 1)
                                 \/ u - t > 2 /\ p = Ground(u - 1)
BY DEF GapFill, Ground

LEMMA EnteredNext ==
  ASSUME ListsOK, NEW s \in RateStatuses, NEW t, NEW u, Adjacent(s, t, u), NEW p
  PROVE  Entered(s, u, p) <=> Entered(s, t, p) \/ p = Peak(s, t) \/ p \in GapFill(t, u)
<1>1. /\ t \in Busy(s) /\ u \in Busy(s) /\ t < u
      /\ \A w \in Busy(s) : ~(t < w /\ w < u)
  BY DEF Adjacent
<1>2. \A w \in Busy(s) : w \in Nat
  BY RateAssumption DEF Busy
<1>3. EnteredPeak(s, u, p) <=> EnteredPeak(s, t, p) \/ p = Peak(s, t)
  <2>1. \A w \in Busy(s) : w < u <=> w < t \/ w = t
    BY <1>1, <1>2
  <2>2. QED
    BY <1>1, <2>1, Zenon DEF EnteredPeak
<1>4. ASSUME NEW a \in Busy(s), NEW b \in Busy(s), Adjacent(s, a, b)
      PROVE  b <= u <=> b <= t \/ (a = t /\ b = u)
  <2>1. a < b /\ \A w \in Busy(s) : ~(a < w /\ w < b)
    BY <1>4 DEF Adjacent
  <2>2. a \in Nat /\ b \in Nat /\ t \in Nat /\ u \in Nat
    BY <1>1, <1>2
  <2>3. QED
    BY <1>1, <2>1, <2>2
<1>5. EnteredGap(s, u, p) <=> EnteredGap(s, t, p) \/ p \in GapFill(t, u)
  BY <1>1, <1>4, Zenon DEF EnteredGap
<1>6. QED
  BY <1>3, <1>5 DEF Entered

(* The loops.                                                              *)
DatedPoint == [date : Nat, n : Nat]
Turns == [unit : 1 .. LastSecond, count : Nat, points : SUBSET DatedPoint]

LEMMA CountOneFacts ==
  ASSUME NEW acc \in Turns, NEW t \in 1 .. LastSecond
  PROVE  CountOne(acc, t) \in Turns
<1>1. LastSecond \in Nat
  BY RateAssumption
<1>2. acc.unit \in Nat /\ t \in Nat /\ acc.unit \in 1 .. LastSecond
  BY <1>1 DEF Turns
<1>3. GapFill(acc.unit, t) \in SUBSET DatedPoint
  <2> SUFFICES ASSUME NEW p \in GapFill(acc.unit, t) PROVE p \in DatedPoint
    OBVIOUS
  <2>1. \/ t - acc.unit > 1 /\ p = Ground(acc.unit + 1)
        \/ t - acc.unit > 2 /\ p = Ground(t - 1)
    BY <1>2, GapFacts
  <2>2. QED
    BY <1>2, <2>1 DEF Ground, Point, DatedPoint
<1>4. Point(acc.unit, acc.count) \in DatedPoint
  BY <1>2 DEF Turns, Point, DatedPoint
<1>5. CASE t = acc.unit
  BY <1>5 DEF CountOne, Turns
<1>6. CASE t # acc.unit
  <2> DEFINE points == acc.points \union {Point(acc.unit, acc.count)} \union GapFill(acc.unit, t)
  <2>1. CountOne(acc, t) = [unit |-> t, count |-> 1, points |-> points]
    BY <1>6 DEF CountOne
  <2>2. points \in SUBSET DatedPoint
    BY <1>3, <1>4 DEF Turns
  <2> HIDE DEF points
  <2>3. QED
    BY <2>1, <2>2 DEF Turns
<1>7. QED
  BY <1>5, <1>6

LEMMA LoopTurns ==
  ASSUME NEW times \in Seq(1 .. LastSecond), Len(times) > 0
  PROVE  \E after \in [0 .. Len(times) -> Turns] :
           /\ after[0] = [unit |-> times[1], count |-> 0, points |-> {}]
           /\ \A i \in 1 .. Len(times) : after[i] = CountOne(after[i - 1], times[i])
           /\ LET end == after[Len(times)]
              IN RatePoints(times) = end.points \union {Point(end.unit, end.count)}
<1> DEFINE l == Len(times)
           first == [unit |-> IF times = <<>> THEN NoDate ELSE times[1], count |-> 0, points |-> {}]
           start == [unit |-> times[1], count |-> 0, points |-> {}]
           g == [x \in Turns \X (1 .. l) |-> CountOne(x[1], times[x[2]])]
           after[i \in 0 .. l] == IF i = 0 THEN first ELSE CountOne(after[i - 1], times[i])
<1>1. RatePoints(times) = after[l].points \union {Point(after[l].unit, after[l].count)}
  BY Zenon DEF RatePoints
<1>2. l \in Nat /\ 1 \in 1 .. l /\ \A i \in 1 .. l : times[i] \in 1 .. LastSecond
  <2> HIDE DEF first, start, g, after
  <2>1. l \in Nat
    BY LenProperties
  <2>2. \A i \in 1 .. l : times[i] \in 1 .. LastSecond
    BY ElementOfSeq
  <2> HIDE DEF l
  <2>3. l > 0
    BY DEF l
  <2>4. QED
    BY <2>1, <2>2, <2>3
<1>3. first = start
  <2>1. times # <<>>
    BY <1>2
  <2>2. QED
    BY <2>1
<1>4. start \in Turns
  BY <1>2 DEF Turns
<1> HIDE DEF first, start, l
<1>5. g \in [Turns \X (1 .. l) -> Turns]
  BY <1>2, CountOneFacts
<1>6. \A x \in Turns, i \in 1 .. l : g[<<x, i>>] = CountOne(x, times[i])
  OBVIOUS
<1> HIDE DEF g
<1>7. PICK h : IsLoop(h, Turns, start, l, g)
  BY <1>2, <1>4, <1>5, LoopExists
<1>8. h = [i \in 0 .. l |-> IF i = 0 THEN first ELSE CountOne(h[i - 1], times[i])]
  <2>1. ASSUME NEW i \in 0 .. l, i # 0 PROVE g[<<h[i - 1], i>>] = CountOne(h[i - 1], times[i])
    <3>1. i \in 1 .. l /\ i - 1 \in 0 .. l
      BY <1>2, <2>1
    <3>2. QED
      BY <1>6, <1>7, <3>1 DEF IsLoop
  <2>2. QED
    BY <1>3, <1>7, <2>1 DEF IsLoop
<1>9. after = [i \in 0 .. l |-> IF i = 0 THEN first ELSE CountOne(after[i - 1], times[i])]
  BY <1>8, Zenon
<1> HIDE DEF after
<1>10. after[0] = start
  BY <1>2, <1>3, <1>9
<1>11. ASSUME NEW i \in 1 .. l PROVE after[i] = CountOne(after[i - 1], times[i])
  <2>1. i \in 0 .. l /\ i # 0
    BY <1>2
  <2>2. QED
    BY <1>9, <2>1
<1> DEFINE T == {i \in 0 .. l : after[i] \in Turns}
<1>12. 0 \in T
  BY <1>2, <1>4, <1>10
<1>13. ASSUME NEW i \in 1 .. l, i - 1 \in T PROVE i \in T
  BY <1>2, <1>11, <1>13, CountOneFacts
<1> HIDE DEF T
<1>14. \A k \in 0 .. l : k \in T
  <2> SUFFICES ASSUME NEW k \in 0 .. l PROVE k \in T
    OBVIOUS
  <2>1. k \in Nat /\ \A i \in 1 .. k : i \in 1 .. l
    BY <1>2
  <2>2. QED
    BY <1>12, <1>13, <2>1, LoopInduction
<1>15. after \in [0 .. l -> Turns]
  BY <1>9, <1>14 DEF T
<1>16. QED
  BY <1>1, <1>10, <1>11, <1>15, Zenon DEF l, start

(* After the i-th turn the count is that of the events of the second, and  *)
(* the seconds before it are entered.                                      *)
TurnFits(s, acc, t, i) ==
  /\ acc.unit = t
  /\ acc.count = i - EventsUpTo(s, t - 1)
  /\ \A p : p \in acc.points <=> Entered(s, t, p)

LEMMA FirstTurn ==
  ASSUME ListsOK, NEW s \in RateStatuses, NEW t \in Busy(s),
         \A w \in Busy(s) : t <= w, EventsUpTo(s, t - 1) = 0,
         NEW acc, acc = CountOne([unit |-> t, count |-> 0, points |-> {}], t)
  PROVE  TurnFits(s, acc, t, 1)
<1>1. acc = [unit |-> t, count |-> 1, points |-> {}]
  BY DEF CountOne
<1>2. \A w \in Busy(s) : w \in Nat
  BY RateAssumption DEF Busy
<1>3. \A p : ~EnteredPeak(s, t, p)
  BY <1>2 DEF EnteredPeak
<1>4. \A a, b \in Busy(s) : ~(Adjacent(s, a, b) /\ b <= t)
  BY <1>2 DEF Adjacent
<1>5. \A p : ~EnteredGap(s, t, p)
  BY <1>4, Zenon DEF EnteredGap
<1>6. QED
  BY <1>1, <1>3, <1>5 DEF TurnFits, Entered

LEMMA NextTurn ==
  ASSUME ListsOK, NEW s \in RateStatuses, NEW i \in Nat, NEW t \in Busy(s), NEW u \in Busy(s),
         NEW acc \in Turns, TurnFits(s, acc, t, i), NEW next, next = CountOne(acc, u),
         \/ u = t
         \/ Adjacent(s, t, u) /\ EventsUpTo(s, t) = i /\ EventsUpTo(s, u - 1) = i
  PROVE  TurnFits(s, next, u, i + 1)
<1>1. /\ acc.unit = t /\ acc.count = i - EventsUpTo(s, t - 1)
      /\ \A p : p \in acc.points <=> Entered(s, t, p)
  BY DEF TurnFits
<1>2. t \in Nat /\ t > 0 /\ u \in Nat /\ t - 1 \in Nat
  BY RateAssumption DEF Busy
<1>3. EventsUpTo(s, t - 1) \in Nat
  BY <1>2, EventsFacts
<1>4. CASE u = t
  <2>1. next.unit = u /\ next.count = acc.count + 1 /\ next.points = acc.points
    BY <1>1, <1>4 DEF CountOne, Turns
  <2>2. QED
    BY <1>1, <1>3, <1>4, <2>1 DEF TurnFits
<1>5. CASE u # t
  <2>1. Adjacent(s, t, u) /\ EventsUpTo(s, t) = i /\ EventsUpTo(s, u - 1) = i
    BY <1>5
  <2>2. EventsUpTo(s, t) = EventsUpTo(s, t - 1) + Events(s, t) /\ Events(s, t) \in Nat
    BY <1>2, EventsFacts
  <2>3. acc.count = Events(s, t)
    BY <1>1, <1>3, <2>1, <2>2
  <2>4. next = [unit |-> u, count |-> 1,
                points |-> acc.points \union {Peak(s, t)} \union GapFill(t, u)]
    BY <1>1, <1>5, <2>3 DEF CountOne, Peak
  <2>5. next.unit = u /\ next.count = 1
        /\ \A p : p \in next.points <=> p \in acc.points \/ p = Peak(s, t) \/ p \in GapFill(t, u)
    BY <2>4
  <2>6. \A p : p \in next.points <=> Entered(s, u, p)
    <3> SUFFICES ASSUME NEW p PROVE p \in next.points <=> Entered(s, u, p)
      OBVIOUS
    <3>1. Entered(s, u, p) <=> Entered(s, t, p) \/ p = Peak(s, t) \/ p \in GapFill(t, u)
      BY <2>1, EnteredNext
    <3>2. QED
      BY <1>1, <2>5, <3>1
  <2>7. 1 = (i + 1) - EventsUpTo(s, u - 1)
    BY <2>1
  <2>8. QED
    BY <2>5, <2>6, <2>7 DEF TurnFits
<1>6. QED
  BY <1>4, <1>5

(* The points a loop leaves: the peaks, and the ground between them.       *)
Rising(s, p) == \E t \in Busy(s) : p = Peak(s, t)
Filling(s, p) == \E t, u \in Busy(s) : Adjacent(s, t, u) /\ p \in GapFill(t, u)

LEMMA RatePointsFacts ==
  ASSUME ListsOK, NEW s \in RateStatuses, NEW times, times = RateTimes(s), Len(times) > 0
  PROVE  \A p : p \in RatePoints(times) <=> Rising(s, p) \/ Filling(s, p)
<1> DEFINE l == Len(times)
           v == Latest(times)
<1>1. times \in Seq(1 .. LastSecond) /\ l \in Nat
  BY TimesFacts
<1>2. PICK after \in [0 .. l -> Turns] :
        /\ after[0] = [unit |-> times[1], count |-> 0, points |-> {}]
        /\ \A i \in 1 .. l : after[i] = CountOne(after[i - 1], times[i])
        /\ RatePoints(times) = after[l].points \union {Point(after[l].unit, after[l].count)}
  BY <1>1, LoopTurns
<1>3. /\ \A i \in 1 .. l : times[i] \in Busy(s)
      /\ \A w \in Busy(s) : times[1] <= w /\ w <= v
      /\ EventsUpTo(s, times[1] - 1) = 0
      /\ l = EventsUpTo(s, v)
      /\ \A i \in 2 .. l :
           \/ times[i] = times[i - 1]
           \/ /\ Adjacent(s, times[i - 1], times[i])
              /\ EventsUpTo(s, times[i - 1]) = i - 1 /\ EventsUpTo(s, times[i] - 1) = i - 1
  BY SortedFacts
<1> DEFINE T == {i \in 0 .. l : i > 0 => TurnFits(s, after[i], times[i], i)}
<1>4. 0 \in T
  BY <1>1
<1>5. ASSUME NEW i \in 1 .. l, i - 1 \in T PROVE i \in T
  <2>1. i \in Nat /\ i \in 0 .. l /\ i - 1 \in 0 .. l /\ 1 \in 1 .. l
    BY <1>1
  <2>2. CASE i = 1
    <3>0. after[i] = CountOne(after[i - 1], times[i]) /\ i - 1 = 0
      BY <1>2, <2>2
    <3>1. after[1] = CountOne([unit |-> times[1], count |-> 0, points |-> {}], times[1])
      BY <1>2, <2>2, <3>0
    <3>2. TurnFits(s, after[1], times[1], 1)
      BY <1>3, <2>1, <3>1, FirstTurn
    <3>3. QED
      BY <2>1, <2>2, <3>2
  <2>3. CASE i # 1
    <3>1. i - 1 \in 1 .. l /\ i \in 2 .. l /\ i - 1 \in Nat /\ i - 1 > 0 /\ (i - 1) + 1 = i
      BY <2>1, <2>3
    <3>2. TurnFits(s, after[i - 1], times[i - 1], i - 1)
      BY <1>5, <3>1
    <3>3. after[i - 1] \in Turns /\ times[i - 1] \in Busy(s) /\ times[i] \in Busy(s)
          /\ after[i] = CountOne(after[i - 1], times[i])
      BY <1>2, <1>3, <2>1, <3>1
    <3>4. \/ times[i] = times[i - 1]
          \/ /\ Adjacent(s, times[i - 1], times[i])
             /\ EventsUpTo(s, times[i - 1]) = i - 1 /\ EventsUpTo(s, times[i] - 1) = i - 1
      BY <1>3, <3>1
    <3>5. TurnFits(s, after[i], times[i], (i - 1) + 1)
      BY <3>1, <3>2, <3>3, <3>4, NextTurn
    <3>6. QED
      BY <2>1, <3>1, <3>5
  <2>4. QED
    BY <2>2, <2>3
<1> HIDE DEF T
<1>6. l \in T
  BY <1>1, <1>4, <1>5, LoopInduction
<1>7. TurnFits(s, after[l], v, l)
  BY <1>6 DEF T, Latest
<1>8. v \in Busy(s) /\ \A w \in Busy(s) : w <= v
  BY <1>1, <1>3 DEF Latest
<1> DEFINE end == after[l]
<1>9. /\ end.unit = v /\ end.count = l - EventsUpTo(s, v - 1)
      /\ \A p : p \in end.points <=> Entered(s, v, p)
  BY <1>7 DEF TurnFits
<1>10. end.count = Events(s, v)
  <2>1. v \in Nat /\ v > 0 /\ v - 1 \in Nat
    BY <1>8, RateAssumption DEF Busy
  <2>2. EventsUpTo(s, v) = EventsUpTo(s, v - 1) + Events(s, v) /\ Events(s, v) \in Nat
    BY <2>1, EventsFacts
  <2>3. EventsUpTo(s, v - 1) \in Nat
    BY <2>1, EventsFacts
  <2>4. QED
    BY <1>3, <1>9, <2>2, <2>3
<1> HIDE DEF end, v, l
<1>11. \A p : p \in RatePoints(times) <=> Entered(s, v, p) \/ p = Peak(s, v)
  BY <1>2, <1>9, <1>10 DEF Peak, end
<1>12. \A p : EnteredPeak(s, v, p) \/ p = Peak(s, v) <=> Rising(s, p)
  <2>1. \A w \in Busy(s) : w < v \/ w = v
    BY <1>8, RateAssumption DEF Busy
  <2>2. QED
    BY <1>8, <2>1, Zenon DEF EnteredPeak, Rising
<1>13. \A p : EnteredGap(s, v, p) <=> Filling(s, p)
  BY <1>8, Zenon DEF EnteredGap, Filling
<1>14. QED
  BY <1>11, <1>12, <1>13 DEF Entered

LEMMA NoPoints ==
  RatePoints(<<>>) = {Point(NoDate, 0)}
<1> DEFINE times == <<>>
           first == [unit |-> IF times = <<>> THEN NoDate ELSE times[1], count |-> 0, points |-> {}]
           after[i \in 0 .. Len(times)] ==
             IF i = 0 THEN first ELSE CountOne(after[i - 1], times[i])
           h == [i \in 0 .. 0 |-> first]
<1>1. RatePoints(times) = after[Len(times)].points
                            \union {Point(after[Len(times)].unit, after[Len(times)].count)}
  BY Zenon DEF RatePoints
<1>2. first = [unit |-> NoDate, count |-> 0, points |-> {}] /\ Len(times) = 0
  OBVIOUS
<1> HIDE DEF first, times
<1>3. h = [i \in 0 .. Len(times) |-> IF i = 0 THEN first ELSE CountOne(h[i - 1], times[i])]
  <2>1. \A i \in 0 .. 0 : i = 0
    OBVIOUS
  <2>2. QED
    BY <1>2, <2>1
<1>4. after = [i \in 0 .. Len(times) |-> IF i = 0 THEN first ELSE CountOne(after[i - 1], times[i])]
  BY <1>3, Zenon
<1> HIDE DEF after
<1>5. after[Len(times)] = first
  BY <1>2, <1>4
<1>6. QED
  BY <1>1, <1>2, <1>5 DEF times

(* The stretches.                                                          *)
LEMMA TimesEnds ==
  ASSUME ListsOK, NEW s \in RateStatuses, NEW times, times = RateTimes(s)
  PROVE  /\ times = <<>> <=> Len(times) = 0
         /\ Len(times) \in Nat
         /\ Len(times) = 0 => Busy(s) = {}
         /\ Len(times) > 0 => /\ times[1] \in Busy(s) /\ Latest(times) \in Busy(s)
                              /\ times[1] \in 1 .. LastSecond /\ Latest(times) \in 1 .. LastSecond
                              /\ \A w \in Busy(s) : times[1] <= w /\ w <= Latest(times)
<1>0. LastSecond \in Nat
  BY RateAssumption
<1>1. /\ times \in Seq(1 .. LastSecond) /\ Len(times) = EventsUpTo(s, LastSecond)
      /\ Len(times) \in Nat
  BY TimesFacts
<1>2. times = <<>> <=> Len(times) = 0
  BY <1>1, EmptySeq
<1>3. ASSUME Len(times) = 0 PROVE Busy(s) = {}
  <2>1. EventsUpTo(s, 0) = 0
    BY EventsFacts
  <2>2. 0 \in Nat /\ EventsUpTo(s, LastSecond) <= EventsUpTo(s, 0)
    BY <1>1, <1>3, <2>1
  <2>3. \A w \in Busy(s) : ~(0 < w /\ w <= LastSecond)
    BY <1>0, <2>2, QuietBetween
  <2>4. QED
    BY <1>0, <2>3 DEF Busy
<1>4. ASSUME Len(times) > 0
      PROVE  /\ times[1] \in Busy(s) /\ Latest(times) \in Busy(s)
             /\ times[1] \in 1 .. LastSecond /\ Latest(times) \in 1 .. LastSecond
             /\ \A w \in Busy(s) : times[1] <= w /\ w <= Latest(times)
  <2>1. 1 \in 1 .. Len(times) /\ Len(times) \in 1 .. Len(times)
    BY <1>1, <1>4
  <2>2. /\ \A i \in 1 .. Len(times) : times[i] \in Busy(s)
        /\ \A w \in Busy(s) : times[1] <= w /\ w <= Latest(times)
    BY <1>4, SortedFacts
  <2>3. times[1] \in Busy(s) /\ Latest(times) \in Busy(s)
    BY <2>1, <2>2 DEF Latest
  <2>4. QED
    BY <2>2, <2>3 DEF Busy
<1>5. QED
  BY <1>1, <1>2, <1>3, <1>4

LEMMA BoundaryFacts ==
  ASSUME ListsOK
  PROVE  /\ LowerBoundary = NoDate \/ LowerBoundary \in 1 .. LastSecond
         /\ UpperBoundary \in 0 .. LastSecond
<1>1. "Published" \in RateStatuses /\ "Acknowledged" \in RateStatuses
  BY DEF RateStatuses
<1>2. LET times == RateTimes("Published")
      IN times # <<>> => times[1] \in 1 .. LastSecond
  BY <1>1, TimesEnds
<1>3. LET times == RateTimes("Acknowledged")
      IN times # <<>> => Latest(times) \in 1 .. LastSecond
  BY <1>1, TimesEnds
<1>4. LowerBoundary = NoDate \/ LowerBoundary \in 1 .. LastSecond
  BY <1>2 DEF LowerBoundary
<1>5. UpperBoundary \in 0 .. LastSecond
  BY <1>3, RateAssumption DEF UpperBoundary
<1>6. QED
  BY <1>4, <1>5

LEMMA StretchFacts ==
  ASSUME ListsOK, NEW s \in RateStatuses, NEW times, times = RateTimes(s), NEW p
  PROVE  /\ p \in StretchDown(s) =>
              /\ Len(times) > 0 /\ LowerBoundary \in 1 .. LastSecond /\ LowerBoundary < times[1]
              /\ p = Ground(LowerBoundary) \/ p = Ground(times[1] - 1)
              /\ Ground(times[1] - 1) \in StretchDown(s)
         /\ p \in StretchUp(s) =>
              /\ Len(times) > 0 /\ UpperBoundary \in 1 .. LastSecond
              /\ Latest(times) < UpperBoundary
              /\ p = Ground(Latest(times) + 1) \/ p = Ground(UpperBoundary)
              /\ Ground(Latest(times) + 1) \in StretchUp(s)
<1>1. Len(times) \in Nat /\ (times # <<>> => Len(times) > 0 /\ Latest(times) \in 1 .. LastSecond)
  BY TimesEnds
<1>2. /\ LowerBoundary = NoDate \/ LowerBoundary \in 1 .. LastSecond
      /\ UpperBoundary \in 0 .. LastSecond
  BY BoundaryFacts
<1>3. ASSUME p \in StretchDown(s)
      PROVE  /\ times # <<>> /\ LowerBoundary # NoDate /\ LowerBoundary < times[1]
             /\ p = Ground(LowerBoundary) \/ p = Ground(times[1] - 1)
             /\ Ground(times[1] - 1) \in StretchDown(s)
  BY <1>3 DEF StretchDown, Ground
<1>4. ASSUME p \in StretchUp(s)
      PROVE  /\ times # <<>> /\ Latest(times) < UpperBoundary
             /\ p = Ground(Latest(times) + 1) \/ p = Ground(UpperBoundary)
             /\ Ground(Latest(times) + 1) \in StretchUp(s)
  BY <1>4 DEF StretchUp, Ground
<1>5. ASSUME Latest(times) < UpperBoundary, times # <<>> PROVE UpperBoundary \in 1 .. LastSecond
  BY <1>1, <1>2, <1>5, RateAssumption
<1>6. QED
  BY <1>1, <1>2, <1>3, <1>4, <1>5

(* The points with a date.                                                 *)
OnGraph(s, p) == Rising(s, p) \/ Filling(s, p) \/ p \in StretchDown(s) \/ p \in StretchUp(s)

LEMMA OnGraphFacts ==
  ASSUME ListsOK, NEW s \in RateStatuses, NEW p, OnGraph(s, p)
  PROVE  /\ p = Peak(s, p.date) /\ p.n = Events(s, p.date) /\ p.n \in 0 .. MaxMessages
         /\ p.date \in 1 .. LastSecond /\ p.date \in Nat
<1> DEFINE times == RateTimes(s)
<1>0. LastSecond \in Nat /\ MaxMessages \in Nat
  BY RateAssumption
<1>1. /\ Len(times) \in Nat
      /\ Len(times) > 0 => /\ times[1] \in 1 .. LastSecond /\ Latest(times) \in 1 .. LastSecond
                           /\ \A w \in Busy(s) : times[1] <= w /\ w <= Latest(times)
  BY TimesEnds
<1>2. \A w \in Busy(s) : w \in 1 .. LastSecond
  BY DEF Busy
<1>3. \E t \in 1 .. LastSecond : p = Peak(s, t) \/ (p = Ground(t) /\ t \notin Busy(s))
  <2>1. CASE Rising(s, p)
    BY <1>2, <2>1, Zenon DEF Rising
  <2>2. CASE Filling(s, p)
    <3>1. PICK t \in Busy(s), u \in Busy(s) : Adjacent(s, t, u) /\ p \in GapFill(t, u)
      BY <2>2 DEF Filling
    <3>2. t \in Nat /\ u \in Nat /\ 1 <= t /\ u <= LastSecond
          /\ t < u /\ \A w \in Busy(s) : ~(t < w /\ w < u)
      BY <1>0, <1>2, <3>1 DEF Adjacent
    <3>3. u - t > 1 /\ (p = Ground(t + 1) \/ p = Ground(u - 1))
      BY <3>1, <3>2, GapFacts
    <3>4. /\ t + 1 \in 1 .. LastSecond /\ t + 1 \notin Busy(s)
          /\ u - 1 \in 1 .. LastSecond /\ u - 1 \notin Busy(s)
      BY <1>0, <3>2, <3>3
    <3>5. QED
      BY <3>3, <3>4
  <2>3. CASE p \in StretchDown(s)
    <3>1. /\ Len(times) > 0 /\ LowerBoundary \in 1 .. LastSecond /\ LowerBoundary < times[1]
          /\ p = Ground(LowerBoundary) \/ p = Ground(times[1] - 1)
      BY <2>3, StretchFacts
    <3> HIDE DEF times
    <3>2. /\ LowerBoundary \notin Busy(s) /\ times[1] - 1 \notin Busy(s)
          /\ times[1] - 1 \in 1 .. LastSecond
      BY <1>0, <1>1, <3>1
    <3>3. QED
      BY <3>1, <3>2
  <2>4. CASE p \in StretchUp(s)
    <3>1. /\ Len(times) > 0 /\ UpperBoundary \in 1 .. LastSecond /\ Latest(times) < UpperBoundary
          /\ p = Ground(Latest(times) + 1) \/ p = Ground(UpperBoundary)
      BY <2>4, StretchFacts
    <3> HIDE DEF times
    <3>2. /\ UpperBoundary \notin Busy(s) /\ Latest(times) + 1 \notin Busy(s)
          /\ Latest(times) + 1 \in 1 .. LastSecond
      BY <1>0, <1>1, <3>1
    <3>3. QED
      BY <3>1, <3>2
  <2>5. QED
    BY <2>1, <2>2, <2>3, <2>4 DEF OnGraph
<1>4. PICK t \in 1 .. LastSecond : p = Peak(s, t) \/ (p = Ground(t) /\ t \notin Busy(s))
  BY <1>3
<1>5. t \in Nat /\ Events(s, t) \in Nat /\ Events(s, t) <= MaxMessages
      /\ (t \notin Busy(s) => Events(s, t) = 0)
  BY <1>0, EventsFacts, BusyFacts
<1>6. p = Peak(s, t)
  BY <1>4, <1>5 DEF Peak, Ground
<1>7. p.date = t /\ p.n = Events(s, t)
  BY <1>6 DEF Peak, Point
<1>8. QED
  BY <1>0, <1>5, <1>6, <1>7

LEMMA DatedFacts ==
  ASSUME ListsOK, NEW s \in RateStatuses, NEW p
  PROVE  /\ p \in PointsOf(s) /\ p.date # NoDate <=> OnGraph(s, p)
         /\ p \in PointsOf(s) => OnGraph(s, p) \/ p = Point(NoDate, 0)
<1> DEFINE times == RateTimes(s)
<1>1. OnGraph(s, p) => p.date # NoDate
  BY OnGraphFacts, RateAssumption
<1>2. /\ times = <<>> <=> Len(times) = 0
      /\ Len(times) \in Nat
      /\ Len(times) = 0 => Busy(s) = {}
  BY TimesEnds
<1>3. p \in PointsOf(s) <=> p \in RatePoints(times) \/ p \in StretchDown(s) \/ p \in StretchUp(s)
  BY DEF PointsOf
<1>4. CASE Len(times) > 0
  <2>1. p \in RatePoints(times) <=> Rising(s, p) \/ Filling(s, p)
    BY <1>4, RatePointsFacts
  <2>2. QED
    BY <1>1, <1>3, <2>1 DEF OnGraph
<1>5. CASE Len(times) = 0
  <2>1. RatePoints(times) = {Point(NoDate, 0)}
    BY <1>2, <1>5, NoPoints
  <2>2. p \notin StretchDown(s) /\ p \notin StretchUp(s)
    BY <1>5, StretchFacts
  <2>3. ~Rising(s, p) /\ ~Filling(s, p)
    BY <1>2, <1>5 DEF Rising, Filling
  <2>4. Point(NoDate, 0).date = NoDate
    BY DEF Point
  <2> HIDE DEF times
  <2>5. QED
    BY <1>3, <2>1, <2>2, <2>3, <2>4 DEF OnGraph
<1>6. QED
  BY <1>2, <1>4, <1>5

(* No line leaves a peak without touching the ground in the next second.   *)
LEMMA NextBusy ==
  ASSUME NEW s, NEW t \in Busy(s), NEW w \in Busy(s), t < w
  PROVE  \E u \in Busy(s) : Adjacent(s, t, u)
<1> DEFINE T == {v \in Busy(s) : t < v}
<1>1. \A v \in Busy(s) : v \in Nat
  BY RateAssumption DEF Busy
<1>2. T \in SUBSET Nat /\ T # {}
  BY <1>1
<1> HIDE DEF T
<1>3. PICK u \in T : \A v \in T : u <= v
  BY <1>2, LeastNat
<1>4. u \in Busy(s) /\ t < u /\ \A v \in Busy(s) : t < v => u <= v
  BY <1>3 DEF T
<1>5. \A v \in Busy(s) : ~(t < v /\ v < u)
  BY <1>1, <1>4
<1>6. QED
  BY <1>4, <1>5 DEF Adjacent

LEMMA PreviousBusy ==
  ASSUME NEW s, NEW u \in Busy(s), NEW w \in Busy(s), w < u
  PROVE  \E t \in Busy(s) : Adjacent(s, t, u)
<1> DEFINE T == {k \in Nat : k < u /\ u - 1 - k \in Busy(s)}
<1>1. \A v \in Busy(s) : v \in Nat
  BY RateAssumption DEF Busy
<1>2. T \in SUBSET Nat /\ u \in Nat /\ w \in Nat
  BY <1>1
<1>3. u - 1 - w \in T
  <2>1. u - 1 - w \in Nat /\ u - 1 - w < u /\ u - 1 - (u - 1 - w) = w
    BY <1>2
  <2>2. QED
    BY <2>1
<1> HIDE DEF T
<1>4. PICK k \in T : \A j \in T : k <= j
  BY <1>2, <1>3, LeastNat
<1> DEFINE t == u - 1 - k
<1>5. k \in Nat /\ k < u /\ t \in Busy(s)
  BY <1>4 DEF T
<1>6. t \in Nat /\ t < u
  BY <1>2, <1>5
<1>7. ASSUME NEW v \in Busy(s), t < v, v < u PROVE FALSE
  <2>1. v \in Nat
    BY <1>1
  <2>2. u - 1 - v \in Nat /\ u - 1 - v < u /\ u - 1 - (u - 1 - v) = v /\ u - 1 - v < k
    BY <1>2, <1>5, <1>7, <2>1
  <2>3. u - 1 - v \in T
    BY <2>2 DEF T
  <2>4. k <= u - 1 - v
    BY <1>4, <2>3
  <2>5. QED
    BY <1>5, <2>2, <2>4
<1> HIDE DEF t
<1>8. QED
  BY <1>5, <1>6, <1>7 DEF Adjacent, t

LEMMA GroundOn ==
  ASSUME ListsOK, NEW s \in RateStatuses, NEW t, NEW u, Adjacent(s, t, u), t + 1 < u
  PROVE  OnGraph(s, Ground(t + 1)) /\ OnGraph(s, Ground(u - 1))
<1>1. t \in Busy(s) /\ u \in Busy(s)
  BY DEF Adjacent
<1>2. t \in Nat /\ u \in Nat
  BY <1>1, RateAssumption DEF Busy
<1>3. Ground(t + 1) \in GapFill(t, u)
  BY <1>2, GapFacts
<1>4. Ground(u - 1) \in GapFill(t, u)
  <2>1. CASE u - t > 2
    BY <1>2, <2>1, GapFacts
  <2>2. CASE u - t = 2
    <3>1. u - 1 = t + 1
      BY <1>2, <2>2
    <3>2. QED
      BY <1>3, <3>1
  <2>3. QED
    BY <1>2, <2>1, <2>2
<1>5. QED
  BY <1>1, <1>3, <1>4 DEF OnGraph, Filling

LEMMA PeakOn ==
  ASSUME NEW s, NEW t \in Busy(s)
  PROVE  OnGraph(s, Peak(s, t)) /\ Peak(s, t).date = t
BY DEF OnGraph, Rising, Peak, Point

LEMMA GroundDate == ASSUME NEW t PROVE Ground(t).date = t
BY DEF Ground, Point

LEMMA RightOfPeak ==
  ASSUME ListsOK, NEW s \in RateStatuses, NEW t \in Busy(s),
         NEW q, OnGraph(s, q), t + 1 < q.date
  PROVE  \E r : OnGraph(s, r) /\ t < r.date /\ r.date < q.date
<1> DEFINE times == RateTimes(s)
<1>1. t \in Nat /\ q.date \in Nat
  BY OnGraphFacts, RateAssumption DEF Busy
<1>2. CASE \E w \in Busy(s) : t < w
  <2>1. PICK u \in Busy(s) : Adjacent(s, t, u)
    BY <1>2, NextBusy
  <2>2. u \in Nat /\ t < u
    BY <2>1, RateAssumption DEF Busy, Adjacent
  <2>3. CASE u < q.date
    BY <2>2, <2>3, PeakOn
  <2>4. CASE t + 1 < u
    <3>1. OnGraph(s, Ground(t + 1)) /\ Ground(t + 1).date = t + 1
      BY <2>1, <2>4, GroundOn, GroundDate
    <3>2. t < t + 1
      BY <1>1
    <3> DEFINE r == Ground(t + 1)
    <3> HIDE DEF r
    <3>3. OnGraph(s, r) /\ t < r.date /\ r.date < q.date
      BY <3>1, <3>2 DEF r
    <3>4. QED
      BY <3>3
  <2>5. QED
    BY <1>1, <2>2, <2>3, <2>4
<1>3. CASE \A w \in Busy(s) : ~(t < w)
  <2>1. /\ Len(times) \in Nat
        /\ Len(times) = 0 => Busy(s) = {}
        /\ Len(times) > 0 => /\ Latest(times) \in Busy(s) /\ times[1] \in Busy(s)
                             /\ \A w \in Busy(s) : times[1] <= w /\ w <= Latest(times)
    BY TimesEnds
  <2>2. \A w \in Busy(s) : w \in Nat
    BY RateAssumption DEF Busy
  <2> HIDE DEF times
  <2>3. Len(times) > 0 /\ Latest(times) = t /\ times[1] <= t
    <3>1. Len(times) # 0
      BY <2>1
    <3>2. Len(times) > 0
      BY <2>1, <3>1
    <3>3. Latest(times) \in Busy(s) /\ times[1] <= t /\ t <= Latest(times)
      BY <2>1, <3>2
    <3>4. ~(t < Latest(times)) /\ Latest(times) \in Nat
      BY <1>3, <2>2, <3>3
    <3>5. QED
      BY <1>1, <3>2, <3>3, <3>4
  <2>4. q \in StretchUp(s)
    <3>1. ~Rising(s, q)
      <4>1. \A w \in Busy(s) : w # q.date
        BY <1>1, <1>3, <2>2
      <4>2. QED
        BY <4>1, PeakOn, Zenon DEF Rising
    <3>2. ~Filling(s, q)
      <4> SUFFICES ASSUME NEW a \in Busy(s), NEW b \in Busy(s),
                          Adjacent(s, a, b), q \in GapFill(a, b)
                   PROVE  FALSE
        BY DEF Filling
      <4>1. a \in Nat /\ b \in Nat /\ b <= t /\ a < b
        BY <1>1, <1>3, <2>2 DEF Adjacent
      <4>2. b - a > 1 /\ (q = Ground(a + 1) \/ q = Ground(b - 1))
        BY <4>1, GapFacts
      <4>3. q.date = a + 1 \/ q.date = b - 1
        BY <4>2, GroundDate
      <4>4. QED
        BY <1>1, <4>1, <4>2, <4>3
    <3>3. q \notin StretchDown(s)
      <4> SUFFICES ASSUME q \in StretchDown(s) PROVE FALSE
        OBVIOUS
      <4>1. /\ LowerBoundary \in 1 .. LastSecond /\ LowerBoundary < times[1]
            /\ q = Ground(LowerBoundary) \/ q = Ground(times[1] - 1)
        BY StretchFacts DEF times
      <4>2. q.date = LowerBoundary \/ q.date = times[1] - 1
        BY <4>1, GroundDate
      <4>3. times[1] \in Nat /\ LowerBoundary \in Nat
        BY <2>1, <2>2, <2>3, <4>1, RateAssumption
      <4>4. QED
        BY <1>1, <2>3, <4>1, <4>2, <4>3
    <3>4. QED
      BY <3>1, <3>2, <3>3 DEF OnGraph
  <2>5. Ground(Latest(times) + 1) \in StretchUp(s)
    BY <2>4, StretchFacts DEF times
  <2> DEFINE r == Ground(t + 1)
  <2>6. r.date = t + 1
    BY GroundDate
  <2>7. OnGraph(s, r)
    BY <2>3, <2>5 DEF OnGraph
  <2> HIDE DEF r
  <2>8. t < r.date /\ r.date < q.date
    BY <1>1, <2>6
  <2>9. QED
    BY <2>7, <2>8
<1>4. QED
  BY <1>2, <1>3

LEMMA LeftOfPeak ==
  ASSUME ListsOK, NEW s \in RateStatuses, NEW t \in Busy(s),
         NEW q, OnGraph(s, q), q.date + 1 < t
  PROVE  \E r : OnGraph(s, r) /\ q.date < r.date /\ r.date < t
<1> DEFINE times == RateTimes(s)
<1>1. t \in Nat /\ q.date \in Nat
  BY OnGraphFacts, RateAssumption DEF Busy
<1>2. CASE \E w \in Busy(s) : w < t
  <2>1. PICK u \in Busy(s) : Adjacent(s, u, t)
    BY <1>2, PreviousBusy
  <2>2. u \in Nat /\ u < t
    BY <2>1, RateAssumption DEF Busy, Adjacent
  <2>3. CASE q.date < u
    BY <2>2, <2>3, PeakOn
  <2>4. CASE u + 1 < t
    <3>1. OnGraph(s, Ground(t - 1)) /\ Ground(t - 1).date = t - 1
      BY <2>1, <2>4, GroundOn, GroundDate
    <3>2. t - 1 < t /\ q.date < t - 1
      BY <1>1
    <3> DEFINE r == Ground(t - 1)
    <3> HIDE DEF r
    <3>3. OnGraph(s, r) /\ q.date < r.date /\ r.date < t
      BY <3>1, <3>2 DEF r
    <3>4. QED
      BY <3>3
  <2>5. QED
    BY <1>1, <2>2, <2>3, <2>4
<1>3. CASE \A w \in Busy(s) : ~(w < t)
  <2>1. /\ Len(times) \in Nat
        /\ Len(times) = 0 => Busy(s) = {}
        /\ Len(times) > 0 => /\ Latest(times) \in Busy(s) /\ times[1] \in Busy(s)
                             /\ \A w \in Busy(s) : times[1] <= w /\ w <= Latest(times)
    BY TimesEnds
  <2>2. \A w \in Busy(s) : w \in Nat
    BY RateAssumption DEF Busy
  <2> HIDE DEF times
  <2>3. Len(times) > 0 /\ times[1] = t /\ t <= Latest(times)
    <3>1. Len(times) # 0
      BY <2>1
    <3>2. Len(times) > 0
      BY <2>1, <3>1
    <3>3. times[1] \in Busy(s) /\ times[1] <= t /\ t <= Latest(times)
      BY <2>1, <3>2
    <3>4. ~(times[1] < t) /\ times[1] \in Nat
      BY <1>3, <2>2, <3>3
    <3>5. QED
      BY <1>1, <3>2, <3>3, <3>4
  <2>4. q \in StretchDown(s)
    <3>1. ~Rising(s, q)
      <4>1. \A w \in Busy(s) : w # q.date
        BY <1>1, <1>3, <2>2
      <4>2. QED
        BY <4>1, PeakOn, Zenon DEF Rising
    <3>2. ~Filling(s, q)
      <4> SUFFICES ASSUME NEW a \in Busy(s), NEW b \in Busy(s),
                          Adjacent(s, a, b), q \in GapFill(a, b)
                   PROVE  FALSE
        BY DEF Filling
      <4>1. a \in Nat /\ b \in Nat /\ t <= a /\ a < b
        BY <1>1, <1>3, <2>2 DEF Adjacent
      <4>2. b - a > 1 /\ (q = Ground(a + 1) \/ q = Ground(b - 1))
        BY <4>1, GapFacts
      <4>3. q.date = a + 1 \/ q.date = b - 1
        BY <4>2, GroundDate
      <4>4. QED
        BY <1>1, <4>1, <4>2, <4>3
    <3>3. q \notin StretchUp(s)
      <4> SUFFICES ASSUME q \in StretchUp(s) PROVE FALSE
        OBVIOUS
      <4>1. /\ UpperBoundary \in 1 .. LastSecond /\ Latest(times) < UpperBoundary
            /\ q = Ground(Latest(times) + 1) \/ q = Ground(UpperBoundary)
        BY StretchFacts DEF times
      <4>2. q.date = UpperBoundary \/ q.date = Latest(times) + 1
        BY <4>1, GroundDate
      <4>3. Latest(times) \in Nat /\ UpperBoundary \in Nat
        BY <2>1, <2>2, <2>3, <4>1, RateAssumption
      <4>4. QED
        BY <1>1, <2>3, <4>1, <4>2, <4>3
    <3>4. QED
      BY <3>1, <3>2, <3>3 DEF OnGraph
  <2>5. Ground(times[1] - 1) \in StretchDown(s)
    BY <2>4, StretchFacts DEF times
  <2> DEFINE r == Ground(t - 1)
  <2>6. r.date = t - 1
    BY GroundDate
  <2>7. OnGraph(s, r)
    BY <2>3, <2>5 DEF OnGraph
  <2> HIDE DEF r
  <2>8. q.date < r.date /\ r.date < t
    BY <1>1, <2>6
  <2>9. QED
    BY <2>7, <2>8
<1>4. QED
  BY <1>2, <1>3

LEMMA StraightLine ==
  ASSUME ListsOK, NEW s \in RateStatuses, NEW p, NEW q, OnGraph(s, p), OnGraph(s, q),
         NEW t \in 1 .. LastSecond, p.date <= t, t <= q.date, p.date # q.date,
         \A r : OnGraph(s, r) => ~(p.date < r.date /\ r.date < q.date)
  PROVE  p.n * (q.date - t) + q.n * (t - p.date) = Events(s, t) * (q.date - p.date)
<1> DEFINE a == p.date
           b == q.date
           e == Events(s, t)
<1>1. /\ a \in Nat /\ b \in Nat /\ a \in 1 .. LastSecond /\ b \in 1 .. LastSecond
      /\ p.n = Events(s, a) /\ q.n = Events(s, b)
  BY OnGraphFacts
<1>2. t \in Nat /\ LastSecond \in Nat
  BY RateAssumption
<1>3. e \in Nat /\ Events(s, a) \in Nat /\ Events(s, b) \in Nat
  BY <1>1, <1>2, EventsFacts
<1>4. a < b
  BY <1>1, <1>2
<1>5. CASE b = a + 1
  <2>1. t = a \/ t = b
    BY <1>1, <1>2, <1>5
  <2>2. CASE t = a
    <3>1. b - t = 1 /\ t - a = 0 /\ b - a = 1 /\ e = p.n
      BY <1>1, <1>5, <2>2
    <3>2. p.n * 1 + q.n * 0 = e * 1
      BY <1>1, <1>3, <3>1
    <3>3. QED
      BY <3>1, <3>2
  <2>3. CASE t = b
    <3>1. b - t = 0 /\ t - a = 1 /\ b - a = 1 /\ e = q.n
      BY <1>1, <1>5, <2>3
    <3>2. p.n * 0 + q.n * 1 = e * 1
      BY <1>1, <1>3, <3>1
    <3>3. QED
      BY <3>1, <3>2
  <2>4. QED
    BY <2>1, <2>2, <2>3
<1>6. CASE a + 1 < b
  <2>1. a \notin Busy(s)
    <3> SUFFICES ASSUME a \in Busy(s) PROVE FALSE
      OBVIOUS
    <3>1. \E r : OnGraph(s, r) /\ a < r.date /\ r.date < q.date
      BY <1>6, RightOfPeak
    <3>2. QED
      BY <3>1
  <2>2. b \notin Busy(s)
    <3> SUFFICES ASSUME b \in Busy(s) PROVE FALSE
      OBVIOUS
    <3>1. \E r : OnGraph(s, r) /\ p.date < r.date /\ r.date < b
      BY <1>6, LeftOfPeak
    <3>2. QED
      BY <3>1
  <2>3. t \notin Busy(s)
    <3> SUFFICES ASSUME t \in Busy(s) PROVE FALSE
      OBVIOUS
    <3>1. a < t /\ t < b
      BY <1>1, <1>2, <2>1, <2>2
    <3>2. OnGraph(s, Peak(s, t)) /\ Peak(s, t).date = t
      BY PeakOn
    <3>3. QED
      BY <3>1, <3>2
  <2>4. e = 0 /\ p.n = 0 /\ q.n = 0
    BY <1>1, <1>2, <2>1, <2>2, <2>3, BusyFacts
  <2> HIDE DEF a, b, e
  <2>5. 0 * (b - t) + 0 * (t - a) = 0 * (b - a)
    BY <1>1, <1>2
  <2>6. QED
    BY <2>4, <2>5 DEF a, b, e
<1>7. QED
  BY <1>1, <1>4, <1>5, <1>6

LEMMA GraphWithin ==
  ASSUME ListsOK, NEW s \in RateStatuses, NEW times, times = RateTimes(s),
         NEW lower \in Nat, NEW upper \in Nat, lower = LowerBoundary, upper = UpperBoundary,
         Len(times) > 0, lower <= times[1], Latest(times) <= upper,
         NEW p, OnGraph(s, p)
  PROVE  lower <= p.date /\ p.date <= upper
<1>1. /\ times[1] \in Nat /\ Latest(times) \in Nat /\ times[1] <= Latest(times)
      /\ \A w \in Busy(s) : w \in Nat /\ times[1] <= w /\ w <= Latest(times)
  BY TimesEnds, RateAssumption DEF Busy
<1>2. p.date \in Nat
  BY OnGraphFacts
<1>3. CASE Rising(s, p)
  <2>1. PICK w \in Busy(s) : p = Peak(s, w)
    BY <1>3 DEF Rising
  <2>2. p.date = w
    BY <2>1, PeakOn
  <2>3. QED
    BY <1>1, <2>2
<1>4. CASE Filling(s, p)
  <2>1. PICK a \in Busy(s), b \in Busy(s) : Adjacent(s, a, b) /\ p \in GapFill(a, b)
    BY <1>4 DEF Filling
  <2>2. a \in Nat /\ b \in Nat /\ a < b /\ lower <= a /\ b <= upper
    BY <1>1, <2>1 DEF Adjacent
  <2>3. b - a > 1 /\ (p = Ground(a + 1) \/ p = Ground(b - 1))
    BY <2>1, <2>2, GapFacts
  <2>4. p.date = a + 1 \/ p.date = b - 1
    BY <2>3, GroundDate
  <2>5. QED
    BY <2>2, <2>3, <2>4
<1>5. CASE p \in StretchDown(s)
  <2>1. lower < times[1] /\ (p = Ground(lower) \/ p = Ground(times[1] - 1))
    BY <1>5, StretchFacts
  <2>2. p.date = lower \/ p.date = times[1] - 1
    BY <2>1, GroundDate
  <2>3. QED
    BY <1>1, <2>1, <2>2
<1>6. CASE p \in StretchUp(s)
  <2>1. Latest(times) < upper /\ (p = Ground(Latest(times) + 1) \/ p = Ground(upper))
    BY <1>6, StretchFacts
  <2>2. p.date = Latest(times) + 1 \/ p.date = upper
    BY <2>1, GroundDate
  <2>3. QED
    BY <1>1, <2>1, <2>2
<1>7. QED
  BY <1>3, <1>4, <1>5, <1>6 DEF OnGraph

LEMMA GraphReaches ==
  ASSUME ListsOK, NEW s \in RateStatuses, NEW times, times = RateTimes(s),
         RateTimes("Published") # <<>>, RateTimes("Acknowledged") # <<>>,
         Len(times) > 0, LowerBoundary <= times[1], Latest(times) <= UpperBoundary
  PROVE  /\ LowerBoundary \in Nat /\ UpperBoundary \in Nat
         /\ \E p : OnGraph(s, p) /\ p.date = LowerBoundary
         /\ \E p : OnGraph(s, p) /\ p.date = UpperBoundary
<1>0. "Published" \in RateStatuses /\ "Acknowledged" \in RateStatuses
  BY DEF RateStatuses
<1>1. LowerBoundary = RateTimes("Published")[1]
  BY DEF LowerBoundary
<1>2. UpperBoundary = Latest(RateTimes("Acknowledged"))
  BY DEF UpperBoundary
<1>3. /\ times[1] \in Busy(s) /\ Latest(times) \in Busy(s) /\ times # <<>>
      /\ times[1] \in 1 .. LastSecond /\ Latest(times) \in 1 .. LastSecond
  BY TimesEnds
<1>4. RateTimes("Published")[1] \in 1 .. LastSecond
  <2>1. Len(RateTimes("Published")) \in Nat /\ Len(RateTimes("Published")) # 0
    BY <1>0, TimesEnds
  <2>2. Len(RateTimes("Published")) > 0
    BY <2>1
  <2>3. QED
    BY <1>0, <2>2, TimesEnds
<1>5. LowerBoundary \in Nat /\ UpperBoundary \in Nat /\ LowerBoundary # NoDate
      /\ times[1] \in Nat /\ Latest(times) \in Nat
  BY <1>1, <1>3, <1>4, BoundaryFacts, RateAssumption
<1>6. \E p : OnGraph(s, p) /\ p.date = LowerBoundary
  <2>1. CASE LowerBoundary = times[1]
    BY <1>3, <2>1, PeakOn
  <2>2. CASE LowerBoundary < times[1]
    <3>1. s # "Published"
      BY <1>1, <1>5, <2>2
    <3>2. StretchDown(s) = {Point(LowerBoundary, 0), Point(times[1] - 1, 0)}
      BY <1>3, <1>5, <2>2, <3>1 DEF StretchDown
    <3> DEFINE p == Ground(LowerBoundary)
    <3>3. OnGraph(s, p)
      BY <3>2 DEF OnGraph, Ground
    <3>4. p.date = LowerBoundary
      BY GroundDate
    <3> HIDE DEF p
    <3>5. QED
      BY <3>3, <3>4
  <2>3. QED
    BY <1>5, <2>1, <2>2
<1>7. \E p : OnGraph(s, p) /\ p.date = UpperBoundary
  <2>1. CASE UpperBoundary = Latest(times)
    BY <1>3, <2>1, PeakOn
  <2>2. CASE Latest(times) < UpperBoundary
    <3>1. s # "Acknowledged"
      BY <1>2, <1>5, <2>2
    <3>2. StretchUp(s) = {Point(Latest(times) + 1, 0), Point(UpperBoundary, 0)}
      BY <1>3, <1>5, <2>2, <3>1 DEF StretchUp
    <3> DEFINE p == Ground(UpperBoundary)
    <3>3. OnGraph(s, p)
      BY <3>2 DEF OnGraph, Ground
    <3>4. p.date = UpperBoundary
      BY GroundDate
    <3> HIDE DEF p
    <3>5. QED
      BY <3>3, <3>4
  <2>3. QED
    BY <1>5, <2>1, <2>2
<1>8. QED
  BY <1>5, <1>6, <1>7

(* Nothing is drawn, or the dated points are those of the graphs.          *)
LEMMA DrawnFacts ==
  ASSUME RateInv, NEW s \in RateStatuses
  PROVE  /\ \A p \in Dated(s) : OnGraph(s, p)
         /\ Drawn => \A p : OnGraph(s, p) => p \in Dated(s)
<1>1. CASE chartData = [r \in RateStatuses |-> {}]
  <2>1. Dated(s) = {} /\ ~Drawn
    BY <1>1 DEF Dated, Drawn
  <2>2. QED
    BY <2>1
<1>2. CASE chartData = [r \in RateStatuses |-> PointsOf(r)]
  <2>1. chartData[s] = PointsOf(s)
    BY <1>2
  <2>2. \A p : p \in Dated(s) <=> OnGraph(s, p)
    BY <2>1, DatedFacts DEF Dated, RateInv
  <2>3. QED
    BY <2>2
<1>3. QED
  BY <1>1, <1>2 DEF RateInv

LEMMA RateInvTyped == RateInv => RateTypeOK
<1> SUFFICES ASSUME RateInv PROVE RateTypeOK
  OBVIOUS
<1>1. ListsOK
  BY DEF RateInv
<1>2. ASSUME NEW s \in RateStatuses, NEW p \in chartData[s]
      PROVE  p \in [date : (1 .. LastSecond) \union {NoDate}, n : 0 .. MaxMessages]
  <2>1. p \in PointsOf(s)
    BY <1>2 DEF RateInv
  <2>2. CASE OnGraph(s, p)
    <3>1. p = Peak(s, p.date) /\ p.n \in 0 .. MaxMessages /\ p.date \in 1 .. LastSecond
          /\ p.n = Events(s, p.date)
      BY <1>1, <2>2, OnGraphFacts
    <3>2. p = [date |-> p.date, n |-> p.n]
      BY <3>1 DEF Peak, Point
    <3>3. QED
      BY <3>1, <3>2
  <2>3. CASE p = Point(NoDate, 0)
    BY <2>3, RateAssumption DEF Point
  <2>4. QED
    BY <1>1, <2>1, <2>2, <2>3, DatedFacts
<1>3. QED
  BY <1>1, <1>2 DEF RateTypeOK, ListsOK

LEMMA RateInvLine == RateInv => LineIsRate
<1> SUFFICES ASSUME RateInv,
                    NEW s \in RateStatuses, NEW p \in Dated(s), NEW q \in Dated(s),
                    NEW t \in 1 .. LastSecond, Neighbours(s, p, q, t)
             PROVE  IF p.date = q.date THEN p = q /\ p.n = Events(s, t)
                    ELSE p.n * (q.date - t) + q.n * (t - p.date) = Events(s, t) * (q.date - p.date)
  BY DEF LineIsRate
<1>1. ListsOK /\ OnGraph(s, p) /\ OnGraph(s, q)
  BY DrawnFacts DEF RateInv
<1>2. p.date <= t /\ t <= q.date
      /\ \A r \in Dated(s) : ~(p.date < r.date /\ r.date < q.date)
  BY DEF Neighbours
<1>3. p.date \in Nat /\ q.date \in Nat /\ t \in Nat
  BY <1>1, OnGraphFacts
<1>4. CASE p.date = q.date
  <2>1. p.date = t
    BY <1>2, <1>3, <1>4
  <2>2. p = Peak(s, p.date) /\ q = Peak(s, q.date) /\ p.n = Events(s, p.date)
    BY <1>1, OnGraphFacts
  <2>3. QED
    BY <1>4, <2>1, <2>2
<1>5. CASE p.date # q.date
  <2>1. Drawn
    <3>1. chartData[s] # {}
      BY DEF Dated
    <3>2. QED
      BY <3>1 DEF Drawn
  <2>2. \A r : OnGraph(s, r) => ~(p.date < r.date /\ r.date < q.date)
    BY <1>2, <2>1, DrawnFacts
  <2>3. p.n * (q.date - t) + q.n * (t - p.date) = Events(s, t) * (q.date - p.date)
    BY <1>1, <1>2, <1>5, <2>2, StraightLine
  <2>4. QED
    BY <1>5, <2>3
<1>6. QED
  BY <1>4, <1>5

LEMMA RateInvRange == RateInv => AcknowledgedRange
<1> SUFFICES ASSUME RateInv, Drawn,
                    \A s \in RateStatuses : /\ RateTimes(s) # <<>>
                                            /\ RateTimes(s)[1] >= LowerBoundary
                                            /\ Latest(RateTimes(s)) <= UpperBoundary,
                    NEW s \in RateStatuses
             PROVE  Covers(s, LowerBoundary, UpperBoundary)
  BY Zenon DEF AcknowledgedRange
<1> DEFINE times == RateTimes(s)
<1>1. ListsOK
  BY DEF RateInv
<1>2. RateTimes("Published") # <<>> /\ RateTimes("Acknowledged") # <<>>
  BY DEF RateStatuses
<1>3. times # <<>> /\ times[1] >= LowerBoundary /\ Latest(times) <= UpperBoundary
  OBVIOUS
<1>4. Len(times) > 0 /\ times[1] \in 1 .. LastSecond
  <2>1. Len(times) \in Nat /\ Len(times) # 0
    BY <1>1, <1>3, TimesEnds
  <2>2. Len(times) > 0
    BY <2>1
  <2>3. QED
    BY <1>1, <2>2, TimesEnds
<1> HIDE DEF times
<1>5. /\ LowerBoundary \in Nat /\ UpperBoundary \in Nat /\ LowerBoundary <= times[1]
  <2>1. LowerBoundary = NoDate \/ LowerBoundary \in 1 .. LastSecond
    BY <1>1, BoundaryFacts
  <2>2. LowerBoundary # NoDate
    <3>1. RateTimes("Published")[1] \in 1 .. LastSecond
      <4>1. "Published" \in RateStatuses
        BY DEF RateStatuses
      <4>2. Len(RateTimes("Published")) \in Nat /\ Len(RateTimes("Published")) # 0
        BY <1>1, <1>2, <4>1, TimesEnds
      <4>3. Len(RateTimes("Published")) > 0
        BY <4>2
      <4>4. QED
        BY <1>1, <4>1, <4>3, TimesEnds
    <3>2. LowerBoundary = RateTimes("Published")[1]
      BY <1>2 DEF LowerBoundary
    <3>3. QED
      BY <3>1, <3>2, RateAssumption
  <2>3. QED
    BY <1>1, <1>3, <1>4, <2>1, <2>2, BoundaryFacts, RateAssumption
<1>6. /\ \E p : OnGraph(s, p) /\ p.date = LowerBoundary
      /\ \E p : OnGraph(s, p) /\ p.date = UpperBoundary
  BY <1>1, <1>2, <1>3, <1>4, <1>5, GraphReaches DEF times
<1>7. \A p : OnGraph(s, p) => LowerBoundary <= p.date /\ p.date <= UpperBoundary
  BY <1>1, <1>3, <1>4, <1>5, GraphWithin DEF times
<1>8. \A p : p \in Dated(s) <=> OnGraph(s, p)
  BY DrawnFacts
<1>9. QED
  BY <1>6, <1>7, <1>8, Zenon DEF Covers

LEMMA RateInitInv == RateInit => RateInv
<1> SUFFICES ASSUME RateInit PROVE RateInv
  OBVIOUS
<1>1. PICK n \in 0 .. MaxMessages : \E messages \in [1 .. n -> Histories] :
        \E since \in 0 .. 1 :
          received = [s \in RateStatuses |-> ListedSince(messages, s, since)]
  BY DEF RateInit
<1>2. PICK messages \in [1 .. n -> Histories], since \in 0 .. 1 :
        received = [s \in RateStatuses |-> ListedSince(messages, s, since)]
  BY <1>1
<1>3. n \in Nat /\ n <= MaxMessages /\ LastSecond \in Nat
  BY RateAssumption
<1>4. messages \in Seq(Histories) /\ Len(messages) = n
  BY <1>3, FunctionAsSeq
<1>5. ASSUME NEW s \in RateStatuses
      PROVE  received[s] \in Seq(0 .. LastSecond) /\ Len(received[s]) = n
  <2> DEFINE SecondOf(i) == IF messages[i][s] > since THEN messages[i][s] ELSE 0
  <2>1. \A i \in 1 .. n : SecondOf(i) \in 0 .. LastSecond
    BY <1>3 DEF Histories
  <2>2. received[s] = [i \in 1 .. n |-> SecondOf(i)]
    BY <1>2, <1>4 DEF ListedSince
  <2> HIDE DEF SecondOf
  <2>3. received[s] \in [1 .. n -> 0 .. LastSecond]
    BY <2>1, <2>2
  <2>4. QED
    BY <1>3, <2>3, FunctionAsSeq
<1>6. received \in [RateStatuses -> Seq(0 .. LastSecond)]
  <2>1. received = [s \in RateStatuses |-> received[s]]
    BY <1>2
  <2>2. QED
    BY <1>5, <2>1
<1>7. ListsOK
  BY <1>3, <1>5, <1>6 DEF ListsOK
<1>8. QED
  BY <1>7 DEF RateInit, RateInv

LEMMA RateStepInv == RateInv /\ [GenerateChartData]_rateVars => RateInv'
<1> SUFFICES ASSUME RateInv, [GenerateChartData]_rateVars PROVE RateInv'
  OBVIOUS
<1>1. received' = received
  BY DEF GenerateChartData, rateVars
<1>2. ListsOK'
  BY <1>1 DEF RateInv, ListsOK
<1>3. ASSUME NEW s PROVE PointsOf(s)' = PointsOf(s)
  <2>1. ASSUME NEW r PROVE RateTimes(r)' = RateTimes(r)
    <3>1. ASSUME NEW t PROVE EventsUpTo(r, t)' = EventsUpTo(r, t)
      BY <1>1 DEF EventsUpTo
    <3>2. QED
      BY <3>1 DEF RateTimes
  <2>2. LowerBoundary' = LowerBoundary /\ UpperBoundary' = UpperBoundary
    BY <2>1, Zenon DEF LowerBoundary, UpperBoundary
  <2>3. StretchDown(s)' = StretchDown(s)
    BY <2>1, <2>2, Zenon DEF StretchDown
  <2>4. StretchUp(s)' = StretchUp(s)
    BY <2>1, <2>2, Zenon DEF StretchUp
  <2>5. RatePoints(RateTimes(s))' = RatePoints(RateTimes(s))
    BY <2>1, Zenon DEF RatePoints
  <2>6. QED
    BY <2>3, <2>4, <2>5 DEF PointsOf
<1>4. chartData' \in {[s \in RateStatuses |-> {}], [s \in RateStatuses |-> PointsOf(s)]}
  BY DEF GenerateChartData, rateVars, RateInv, PointsOf
<1>5. QED
  BY <1>2, <1>3, <1>4 DEF RateInv

(* The line of each graph is at every second it covers the number of       *)
(* events of that second, and the graphs of a chart that ends with an      *)
(* acknowledgement have one range (generateChartData), whatever the times. *)
THEOREM RatesAreCounted == RateSpec => []RatesAsCounted
<1>1. RateInv => RatesAsCounted
  BY RateInvTyped, RateInvLine, RateInvRange DEF RatesAsCounted
<1>2. QED
  BY <1>1, RateInitInv, RateStepInv, PTL DEF RateSpec

-----------------------------------------------------------------------------
(* The message status page                                                 *)

(* How many messages of f there are up to i: the rank of i, if it is one.  *)
Upto(f, i) == Cardinality(Matching(f, i))

(* pageEnder[n] ends n full pages of the list among the first size.        *)
EnderOK(n, size) ==
  /\ n \in DOMAIN pageEnder /\ pageEnder[n] \in 0 .. size
  /\ Upto(listing, pageEnder[n]) = n * PageLimit
  /\ n = 0 \/ pageEnder[n] \in Matching(listing, pageEnder[n])

Earlier(size) == pageEnder[0] = 0 /\ \A n \in 0 .. currentPage - 1 : EnderOK(n, size)

(* The table holds the current page of the list, and the buttons and       *)
(* pageEnder fit it.                                                       *)
TableFits ==
  /\ shown.filter = listing /\ shown.page = currentPage /\ shown.steady
  /\ shown.size <= stored[listing.queue]
  /\ Earlier(shown.size)
  /\ rows = PageOf(listing, currentPage, shown.size)
  /\ prevDisabled <=> currentPage = 1
  /\ nextDisabled <=> Cardinality(rows) < PageLimit
  /\ rows # {} => /\ currentPage \in DOMAIN pageEnder
                  /\ pageEnder[currentPage] = LastId(rows)
                  /\ currentPageCount = Cardinality(rows)

LabelFits ==
  rows # {} => /\ countLabel.from = (currentPage - 1) * PageLimit + 1
               /\ countLabel.to = (currentPage - 1) * PageLimit + Cardinality(rows)
               /\ countLabel.of >= countLabel.to

CountAsked(r) ==
  /\ outstanding = {r} /\ r.kind = "count"
  /\ r.filter = listing /\ listing = CurrentFilter
  /\ TableFits

(* The page that is asked for follows a page whose end is known, and the   *)
(* table still has its neighbour, or it is the first.                      *)
PageAsked(r) ==
  /\ outstanding = {r} /\ r.kind = "page"
  /\ r.filter = listing /\ listing = CurrentFilter
  /\ r.page = currentPage /\ r.min = pageEnder[currentPage - 1]
  /\ Earlier(stored[listing.queue])
  /\ ~prevDisabled
  /\ \/ currentPage = 1
     \/ shown.steady /\ shown.filter = listing /\ shown.page \in {currentPage - 1, currentPage + 1}

SteadyInv ==
  /\ currentPage >= 1
  /\ \/ outstanding = {} /\ TableFits /\ LabelFits
     \/ \E r \in outstanding : CountAsked(r)
     \/ \E r \in outstanding : PageAsked(r)

(* No queue holds more than the bound, so no table shows an id above it.   *)
Bounded == (\A q \in QueueOptions : stored[q] <= MaxStored) /\ rows \subseteq 1 .. MaxStored

PagingInv == PagingTypeOK /\ Bounded /\ (steady => SteadyInv)

-----------------------------------------------------------------------------
(* Numbers                                                                 *)

LEMMA FirstExists ==
  ASSUME NEW S \in SUBSET Nat, S # {},
         NEW i, i = CHOOSE m \in S : \A j \in S : m <= j
  PROVE  i \in S /\ \A j \in S : i <= j
<1>1. \E m \in S : \A j \in S : m <= j
  BY LeastNat
<1>2. QED
  BY <1>1, Zenon

LEMMA LastIdFacts ==
  ASSUME NEW size \in Nat, NEW S \in SUBSET (1 .. size), S # {}
  PROVE  LastId(S) \in S /\ \A j \in S : j <= LastId(S)
<1> DEFINE T == {size - i : i \in S}
<1>1. T \in SUBSET Nat /\ T # {}
  <2>1. \A i \in S : size - i \in Nat
    OBVIOUS
  <2>2. QED
    BY <2>1, Zenon
<1> HIDE DEF T
<1>2. PICK k \in T : \A m \in T : k <= m
  BY <1>1, LeastNat
<1>3. PICK i \in S : k = size - i
  BY <1>2 DEF T
<1>4. \A j \in S : size - i <= size - j
  BY <1>2, <1>3 DEF T
<1>5. \A j \in S : j <= i
  BY <1>4
<1>6. \E m \in S : \A j \in S : j <= m
  BY <1>5
<1>7. QED
  BY <1>6, Zenon DEF LastId

-----------------------------------------------------------------------------
(* The messages of a filter                                                *)

LEMMA MatchingFacts ==
  ASSUME NEW f, NEW size \in Nat
  PROVE  /\ Matching(f, size) \in SUBSET (1 .. size) /\ IsFiniteSet(Matching(f, size))
         /\ Upto(f, size) \in Nat
         /\ \A i \in 0 .. size : {j \in Matching(f, size) : j <= i} = Matching(f, i)
         /\ \A i \in Matching(f, size) : i \in Matching(f, i)
         /\ \A i \in 1 .. size : i \in Matching(f, i) => i \in Matching(f, size)
<1>1. Matching(f, size) \in SUBSET (1 .. size)
  BY DEF Matching
<1>2. IsFiniteSet(Matching(f, size))
  BY <1>1, FS_Interval, FS_Subset
<1>3. Upto(f, size) \in Nat
  BY <1>2, FS_CardinalityType DEF Upto
<1> DEFINE Hit(i) == IF f.byTime THEN i \in RangeIds
                     ELSE f.duration \notin {"All", "Custom"} => i \notin OldIds
<1>4. \A k \in Nat : Matching(f, k) = {i \in 1 .. k : Hit(i)}
  BY Zenon DEF Matching
<1> HIDE DEF Hit
<1>5. \A i \in 0 .. size : {j \in Matching(f, size) : j <= i} = Matching(f, i)
  BY <1>4
<1>6. \A i \in Matching(f, size) : i \in Matching(f, i)
  BY <1>4
<1>7. \A i \in 1 .. size : i \in Matching(f, i) => i \in Matching(f, size)
  BY <1>4
<1>8. QED
  BY <1>1, <1>2, <1>3, <1>5, <1>6, <1>7

LEMMA UptoNone == ASSUME NEW f PROVE Upto(f, 0) = 0
<1>1. Matching(f, 0) = {}
  BY MatchingFacts
<1>2. QED
  BY <1>1, FS_EmptySet DEF Upto

LEMMA UptoGrows ==
  ASSUME NEW f, NEW i \in Nat, NEW k \in Nat, i <= k
  PROVE  /\ Upto(f, i) \in Nat /\ Upto(f, k) \in Nat /\ Upto(f, i) <= Upto(f, k)
         /\ k \in Matching(f, k) /\ i < k => Upto(f, i) < Upto(f, k)
         /\ Cardinality(Matching(f, k) \ Matching(f, i)) = Upto(f, k) - Upto(f, i)
<1> DEFINE S == Matching(f, k)
           T == Matching(f, i)
<1>1. /\ S \in SUBSET (1 .. k) /\ IsFiniteSet(S)
      /\ {j \in S : j <= i} = T
      /\ T \in SUBSET (1 .. i) /\ IsFiniteSet(T)
  BY MatchingFacts
<1>2. /\ Upto(f, i) = Cardinality(T) /\ Upto(f, k) = Cardinality(S)
      /\ Upto(f, i) \in Nat /\ Upto(f, k) \in Nat
  BY MatchingFacts DEF Upto
<1> HIDE DEF S, T
<1>3. T \in SUBSET S /\ S \cap T = T
  BY <1>1
<1>4. Cardinality(T) <= Cardinality(S) /\ (Cardinality(S) = Cardinality(T) => S = T)
  BY <1>1, <1>3, FS_Subset
<1>5. Cardinality(S \ T) = Cardinality(S) - Cardinality(T)
  BY <1>1, <1>3, FS_Difference
<1>6. k \in S /\ i < k => S # T
  BY <1>1
<1>7. QED
  BY <1>2, <1>4, <1>5, <1>6 DEF S, T

(* Among the messages of f the rank tells the order.                       *)
LEMMA RankTells ==
  ASSUME NEW f, NEW i \in Nat, NEW k \in Nat, k \in Matching(f, k)
  PROVE  i < k <=> Upto(f, i) < Upto(f, k)
<1>1. CASE i < k
  <2>1. i <= k
    BY <1>1
  <2>2. QED
    BY <1>1, <2>1, UptoGrows, Zenon
<1>2. CASE ~(i < k)
  <2>0. k <= i
    BY <1>2
  <2>1. Upto(f, k) <= Upto(f, i) /\ Upto(f, k) \in Nat /\ Upto(f, i) \in Nat
    BY <2>0, UptoGrows, Zenon
  <2>2. QED
    BY <1>2, <2>1
<1>3. QED
  BY <1>1, <1>2

LEMMA PageOfFacts ==
  ASSUME NEW f, NEW size \in Nat, NEW n \in Int
  PROVE  /\ PageOf(f, n, size) = {i \in Matching(f, size) :
                (n - 1) * PageLimit < Upto(f, i) /\ Upto(f, i) <= n * PageLimit}
         /\ \A i \in Matching(f, size) : RankIn(Matching(f, size), i) = Upto(f, i)
         /\ PageOf(f, n, size) \in SUBSET (1 .. size)
         /\ IsFiniteSet(PageOf(f, n, size)) /\ Cardinality(PageOf(f, n, size)) \in Nat
<1> DEFINE ids == Matching(f, size)
<1>1. /\ ids \in SUBSET (1 .. size) /\ IsFiniteSet(ids)
      /\ \A i \in 0 .. size : {j \in ids : j <= i} = Matching(f, i)
  BY MatchingFacts
<1>2. ASSUME NEW i \in ids PROVE RankIn(ids, i) = Upto(f, i)
  <2>1. i \in 0 .. size
    BY <1>1
  <2>2. {j \in ids : j <= i} = Matching(f, i)
    BY <1>1, <2>1
  <2>3. QED
    BY <2>2, Zenon DEF RankIn, Upto
<1>3. PageOf(f, n, size) = {i \in ids : (n - 1) * PageLimit < RankIn(ids, i)
                                         /\ RankIn(ids, i) <= n * PageLimit}
  BY Zenon DEF PageOf
<1> HIDE DEF ids
<1>4. PageOf(f, n, size) = {i \in ids : (n - 1) * PageLimit < Upto(f, i)
                                         /\ Upto(f, i) <= n * PageLimit}
  BY <1>2, <1>3
<1>5. PageOf(f, n, size) \in SUBSET ids
  BY <1>4
<1>6. IsFiniteSet(PageOf(f, n, size)) /\ Cardinality(PageOf(f, n, size)) \in Nat
  BY <1>1, <1>5, FS_Subset, FS_CardinalityType
<1>7. QED
  BY <1>1, <1>2, <1>4, <1>5, <1>6 DEF ids

(* The messages after min and up to one of the list, and how many they are *)
LEMMA Between ==
  ASSUME NEW f, NEW size \in Nat, NEW min \in Nat, NEW i \in Matching(f, size), i > min
  PROVE  /\ {j \in Matching(f, size) : min < j /\ j <= i} = Matching(f, i) \ Matching(f, min)
         /\ Cardinality({j \in Matching(f, size) : min < j /\ j <= i}) = Upto(f, i) - Upto(f, min)
<1> DEFINE ids == Matching(f, size)
<1>1. i \in 1 .. size /\ min \in 0 .. size
  BY MatchingFacts
<1>2. {j \in ids : j <= i} = Matching(f, i) /\ {j \in ids : j <= min} = Matching(f, min)
  BY <1>1, MatchingFacts
<1>3. ids \in SUBSET (1 .. size)
  BY MatchingFacts
<1>4. Cardinality(Matching(f, i) \ Matching(f, min)) = Upto(f, i) - Upto(f, min)
  BY <1>1, UptoGrows
<1> HIDE DEF ids
<1>5. {j \in ids : min < j /\ j <= i} = {j \in ids : j <= i} \ {j \in ids : j <= min}
  <2>1. \A j \in ids : min < j <=> ~(j <= min)
    BY <1>3
  <2>2. QED
    BY <2>1, Zenon
<1>6. QED
  BY <1>2, <1>4, <1>5, Zenon DEF ids

(* The answer to a request for what follows the end of n - 1 full pages is *)
(* page n.                                                                 *)
LEMMA FollowingIsPage ==
  ASSUME NEW f, NEW size \in Nat, NEW n \in Nat \ {0}, NEW min \in Nat,
         Upto(f, min) = (n - 1) * PageLimit
  PROVE  Following(Matching(f, size), min) = PageOf(f, n, size)
<1> DEFINE ids == Matching(f, size)
           a == (n - 1) * PageLimit
<1>1. PageLimit \in Nat \ {0} /\ a \in Nat /\ n * PageLimit = a + PageLimit
  BY PagingAssumption
<1>2. ids \in SUBSET (1 .. size)
  BY MatchingFacts
<1>3. ASSUME NEW i \in ids
      PROVE  (i > min /\ Cardinality({j \in ids : min < j /\ j <= i}) <= PageLimit)
               <=> (a < Upto(f, i) /\ Upto(f, i) <= a + PageLimit)
  <2>1. i \in Nat /\ i \in Matching(f, i)
    BY <1>2, MatchingFacts
  <2>2. min < i <=> a < Upto(f, i)
    BY <2>1, RankTells
  <2>3. Upto(f, i) \in Nat
    BY <2>1, MatchingFacts
  <2>4. CASE i > min
    <3>1. Cardinality({j \in ids : min < j /\ j <= i}) = Upto(f, i) - a
      BY <2>4, Between
    <3>2. QED
      BY <1>1, <2>1, <2>2, <2>3, <2>4, <3>1
  <2>5. CASE ~(i > min)
    BY <2>1, <2>2, <2>5
  <2>6. QED
    BY <2>4, <2>5
<1>4. Following(ids, min) =
        {i \in ids : i > min /\ Cardinality({j \in ids : min < j /\ j <= i}) <= PageLimit}
  BY Zenon DEF Following
<1>5. PageOf(f, n, size) = {i \in ids : a < Upto(f, i) /\ Upto(f, i) <= a + PageLimit}
  <2>1. /\ \A i \in ids : RankIn(ids, i) = Upto(f, i)
        /\ n \in Int
    BY PageOfFacts
  <2>2. PageOf(f, n, size) = {i \in ids : a < RankIn(ids, i) /\ RankIn(ids, i) <= n * PageLimit}
    BY Zenon DEF PageOf
  <2> HIDE DEF ids, a
  <2>3. QED
    BY <1>1, <2>1, <2>2
<1> HIDE DEF a, ids
<1>6. Following(ids, min) = PageOf(f, n, size)
  BY <1>3, <1>4, <1>5
<1>7. QED
  BY <1>6 DEF ids

Spans(first, last, ids) ==
  first \in ids /\ last \in ids /\ \A j \in ids : first <= j /\ j <= last

LEMMA SpansExist ==
  ASSUME NEW size \in Nat, NEW S \in SUBSET (1 .. size), S # {}
  PROVE  \E first \in S : Spans(first, LastId(S), S)
<1>1. S \in SUBSET Nat
  OBVIOUS
<1>2. PICK first \in S : \A j \in S : first <= j
  BY <1>1, LeastNat
<1>3. LastId(S) \in S /\ \A j \in S : j <= LastId(S)
  BY LastIdFacts
<1>4. QED
  BY <1>2, <1>3, Zenon DEF Spans

(* The ranks of the first and the last of page n of f, which is not empty. *)
Ranked(first, last, f, n, size) ==
  /\ last \in Matching(f, last) /\ last \in 1 .. size
  /\ Upto(f, last) \in Nat /\ Upto(f, last) <= n * PageLimit
  /\ Cardinality(PageOf(f, n, size)) = Upto(f, last) - (n - 1) * PageLimit
  /\ RankIn(Matching(f, size), first) = (n - 1) * PageLimit + 1
  /\ RankIn(Matching(f, size), last) = (n - 1) * PageLimit + Cardinality(PageOf(f, n, size))

LEMMA PageEnds ==
  ASSUME NEW f, NEW size \in Nat, NEW n \in Nat \ {0}, NEW min \in Nat,
         Upto(f, min) = (n - 1) * PageLimit,
         NEW first, NEW last, Spans(first, last, PageOf(f, n, size))
  PROVE  Ranked(first, last, f, n, size)
<1> DEFINE slice == PageOf(f, n, size)
           ids == Matching(f, size)
           a == (n - 1) * PageLimit
<1>1. PageLimit \in Nat \ {0} /\ a \in Nat /\ n * PageLimit = a + PageLimit
  BY PagingAssumption
<1>2. /\ slice = {i \in ids : a < Upto(f, i) /\ Upto(f, i) <= a + PageLimit}
      /\ \A i \in ids : RankIn(ids, i) = Upto(f, i)
      /\ slice \in SUBSET (1 .. size) /\ Cardinality(slice) \in Nat
  <2>1. n \in Int
    OBVIOUS
  <2>2. \A i \in ids : RankIn(ids, i) = Upto(f, i)
    BY <2>1, PageOfFacts, Zenon
  <2>3. slice \in SUBSET (1 .. size) /\ Cardinality(slice) \in Nat
    BY <2>1, PageOfFacts, Zenon
  <2>4. slice = {i \in ids : a < RankIn(ids, i) /\ RankIn(ids, i) <= n * PageLimit}
    BY Zenon DEF PageOf
  <2> HIDE DEF slice, ids, a
  <2>5. slice = {i \in ids : a < Upto(f, i) /\ Upto(f, i) <= a + PageLimit}
    BY <1>1, <2>2, <2>4
  <2>6. QED
    BY <2>2, <2>3, <2>5
<1>3. /\ ids \in SUBSET (1 .. size)
      /\ \A i \in ids : i \in Matching(f, i) /\ Upto(f, i) \in Nat
  BY MatchingFacts
<1>4. last \in slice /\ \A j \in slice : j <= last
  BY Zenon DEF Spans
<1>5. first \in slice /\ \A j \in slice : first <= j
  BY Zenon DEF Spans
<1> HIDE DEF slice
<1>6. slice \in SUBSET ids /\ first \in ids /\ last \in ids /\ first \in Nat /\ last \in Nat
  BY <1>2, <1>3, <1>4, <1>5
<1>7. ASSUME NEW i \in ids PROVE min < i <=> a < Upto(f, i)
  BY <1>3, RankTells
<1>8. first > min /\ last > min
  BY <1>2, <1>4, <1>5, <1>6, <1>7
<1>9. /\ Cardinality({j \in ids : min < j /\ j <= last}) = Upto(f, last) - a
      /\ Cardinality({j \in ids : min < j /\ j <= first}) = Upto(f, first) - a
  BY <1>6, <1>8, Between
<1>10. ASSUME NEW i \in ids
       PROVE  /\ i <= last => Upto(f, i) <= Upto(f, last)
              /\ i <= first => Upto(f, i) <= Upto(f, first)
  <2>1. i \in Nat
    BY <1>3
  <2>2. QED
    BY <1>6, <2>1, UptoGrows, Zenon
<1> HIDE DEF ids
<1>12. {j \in ids : min < j /\ j <= last} = slice
  <2>1. ASSUME NEW j \in slice PROVE min < j /\ j <= last /\ j \in ids
    BY <1>2, <1>4, <1>7, <2>1
  <2>2. ASSUME NEW j \in ids, min < j, j <= last PROVE j \in slice
    <3>1. a < Upto(f, j) /\ Upto(f, j) <= Upto(f, last)
      BY <1>7, <1>10, <2>2
    <3>2. Upto(f, last) <= a + PageLimit /\ Upto(f, last) \in Nat /\ Upto(f, j) \in Nat
      BY <1>2, <1>3, <1>4, <1>6
    <3>3. QED
      BY <1>1, <1>2, <3>1, <3>2
  <2>3. QED
    BY <2>1, <2>2
<1>13. {j \in ids : min < j /\ j <= first} = {first}
  <2>1. ASSUME NEW j \in ids, min < j, j <= first PROVE j = first
    <3>1. a < Upto(f, j) /\ Upto(f, j) <= Upto(f, first)
      BY <1>7, <1>10, <2>1
    <3>2. Upto(f, first) <= a + PageLimit /\ Upto(f, first) \in Nat /\ Upto(f, j) \in Nat
      BY <1>2, <1>3, <1>5, <1>6
    <3>3. j \in slice
      BY <1>1, <1>2, <3>1, <3>2
    <3>4. first <= j /\ j \in Nat
      BY <1>3, <1>5, <3>3
    <3>5. QED
      BY <1>6, <2>1, <3>4
  <2>2. first \in ids /\ min < first /\ first <= first
    BY <1>6, <1>8
  <2>3. QED
    BY <2>1, <2>2, Zenon
<1>14. Cardinality({first}) = 1
  BY FS_Singleton
<1>15. Upto(f, first) \in Nat /\ Upto(f, last) \in Nat
  BY <1>3, <1>6
<1>16. Upto(f, first) = a + 1 /\ Cardinality(slice) = Upto(f, last) - a
  <2>1. Cardinality(slice) = Upto(f, last) - a /\ 1 = Upto(f, first) - a
    BY <1>9, <1>12, <1>13, <1>14
  <2>2. QED
    BY <1>1, <1>15, <2>1
<1>17. Upto(f, last) <= a + PageLimit
  BY <1>2, <1>4
<1>18. RankIn(ids, first) = a + 1 /\ RankIn(ids, last) = a + Cardinality(slice)
  BY <1>1, <1>2, <1>6, <1>15, <1>16
<1> HIDE DEF a
<1>19. last \in Matching(f, last) /\ last \in 1 .. size
  BY <1>3, <1>6
<1>20. Upto(f, last) <= n * PageLimit
  BY <1>1, <1>17
<1>21. QED
  BY <1>15, <1>16, <1>18, <1>19, <1>20, Zenon DEF slice, ids, a, Ranked

(* Whatever was published since, a page that was full ends where it ended. *)
LEMMA FullPageStays ==
  ASSUME NEW f, NEW size \in Nat, NEW n \in Nat \ {0}, NEW end \in 1 .. size,
         end \in Matching(f, end), Upto(f, end) = n * PageLimit
  PROVE  LastId(PageOf(f, n, size)) = end
<1> DEFINE slice == PageOf(f, n, size)
           a == (n - 1) * PageLimit
<1>1. PageLimit \in Nat \ {0} /\ a \in Nat /\ n * PageLimit = a + PageLimit
  BY PagingAssumption
<1>2. /\ slice = {i \in Matching(f, size) : a < Upto(f, i) /\ Upto(f, i) <= n * PageLimit}
      /\ slice \in SUBSET (1 .. size)
  BY PageOfFacts
<1>3. end \in Matching(f, size) /\ end \in Nat
  BY MatchingFacts
<1> HIDE DEF a
<1>4. end \in slice
  BY <1>1, <1>2, <1>3
<1>5. LastId(slice) \in slice /\ end <= LastId(slice)
  BY <1>2, <1>4, LastIdFacts
<1> HIDE DEF slice
<1>6. LastId(slice) \in Matching(f, size) /\ Upto(f, LastId(slice)) <= n * PageLimit
      /\ LastId(slice) \in Nat
  <2>1. LastId(slice) \in 1 .. size
    BY <1>2, <1>5
  <2>2. LastId(slice) \in Matching(f, size) /\ Upto(f, LastId(slice)) <= n * PageLimit
    BY <1>2, <1>5, Zenon
  <2>3. QED
    BY <2>1, <2>2
<1>7. LastId(slice) \in Matching(f, LastId(slice)) /\ Upto(f, LastId(slice)) \in Nat
  BY <1>6, MatchingFacts
<1>8. ~(end < LastId(slice))
  <2>1. end < LastId(slice) <=> Upto(f, end) < Upto(f, LastId(slice))
    BY <1>3, <1>6, <1>7, RankTells
  <2>2. QED
    BY <1>1, <1>6, <1>7, <2>1
<1>9. LastId(slice) = end
  BY <1>3, <1>5, <1>6, <1>8
<1>10. QED
  BY <1>9 DEF slice

(* An answer holds at most a page.                                         *)
LEMMA FollowingBounded ==
  ASSUME NEW f, NEW size \in Nat, NEW min \in Nat
  PROVE  /\ Following(Matching(f, size), min) \in SUBSET (1 .. size)
         /\ Cardinality(Following(Matching(f, size), min)) \in 0 .. PageLimit
         /\ Following(Matching(f, size), min) # {} =>
              LastId(Following(Matching(f, size), min)) \in 1 .. size
<1> DEFINE ids == Matching(f, size)
           out == Following(ids, min)
           Span(i) == {j \in ids : min < j /\ j <= i}
<1>1. PageLimit \in Nat
  BY PagingAssumption
<1>2. ids \in SUBSET (1 .. size) /\ IsFiniteSet(ids)
  BY MatchingFacts
<1>3. out = {i \in ids : i > min /\ Cardinality(Span(i)) <= PageLimit}
  BY Zenon DEF Following
<1> HIDE DEF ids, out
<1>4. out \in SUBSET ids /\ out \in SUBSET (1 .. size)
  BY <1>2, <1>3
<1>5. CASE out = {}
  <2>1. Cardinality(out) = 0
    BY <1>5, FS_EmptySet
  <2>2. QED
    BY <1>1, <1>4, <1>5, <2>1 DEF out, ids
<1>6. CASE out # {}
  <2> DEFINE last == LastId(out)
  <2>1. last \in out /\ \A j \in out : j <= last
    BY <1>4, <1>6, LastIdFacts
  <2> HIDE DEF last
  <2>2. Cardinality(Span(last)) <= PageLimit
    BY <1>3, <2>1
  <2>3. out \in SUBSET Span(last)
    BY <1>3, <2>1
  <2>4. IsFiniteSet(Span(last)) /\ Span(last) \in SUBSET ids
    <3>1. Span(last) \in SUBSET ids
      OBVIOUS
    <3>2. QED
      BY <1>2, <3>1, FS_Subset
  <2> HIDE DEF Span
  <2>5. IsFiniteSet(out) /\ Cardinality(out) <= Cardinality(Span(last))
    BY <2>3, <2>4, FS_Subset
  <2>6. Cardinality(out) \in Nat /\ Cardinality(Span(last)) \in Nat
    BY <2>4, <2>5, FS_CardinalityType
  <2>7. Cardinality(out) \in 0 .. PageLimit
    BY <1>1, <2>2, <2>5, <2>6
  <2>8. last \in 1 .. size
    BY <1>4, <2>1
  <2>9. QED
    BY <1>4, <2>7, <2>8 DEF out, ids, last
<1>7. QED
  BY <1>5, <1>6

-----------------------------------------------------------------------------
(* Types                                                                   *)

LEMMA TypeParts ==
  ASSUME PagingTypeOK
  PROVE  /\ queue \in QueueOptions /\ duration \in Durations /\ filteredByTime \in BOOLEAN
         /\ CurrentFilter \in Filters /\ listing \in Filters
         /\ CurrentFilter.queue = queue /\ listing.queue \in QueueOptions
         /\ stored \in [QueueOptions -> Nat] /\ stored[listing.queue] \in Nat
         /\ shown.size \in Nat /\ shown.page \in Int /\ shown.filter \in Filters
  BY DEF PagingTypeOK, CurrentFilter, Filters

LEMMA FilterTyped ==
  ASSUME NEW q \in QueueOptions, NEW d \in Durations, NEW b \in BOOLEAN
  PROVE  /\ [queue |-> q, duration |-> d, byTime |-> b] \in Filters
         /\ [queue |-> q, duration |-> d, byTime |-> b].queue = q
  BY DEF Filters

LEMMA FilterTimed ==
  ASSUME NEW f \in Filters
  PROVE  [f EXCEPT !.byTime = TRUE] =
           [queue |-> f.queue, duration |-> f.duration, byTime |-> TRUE]
<1> DEFINE g == [f EXCEPT !.byTime = TRUE]
           h == [queue |-> f.queue, duration |-> f.duration, byTime |-> TRUE]
           D == {"queue", "duration", "byTime"}
<1>1. DOMAIN f = {"queue", "duration", "byTime"} /\ f = [k \in DOMAIN f |-> f[k]]
  BY DEF Filters
<1>2. g = [k \in DOMAIN f |-> IF k = "byTime" THEN TRUE ELSE f[k]]
  BY <1>1, Zenon
<1>3. /\ DOMAIN g = D /\ g = [k \in D |-> g[k]]
      /\ g.queue = f.queue /\ g.duration = f.duration /\ g.byTime = TRUE
  BY <1>1, <1>2
<1>4. /\ DOMAIN h = D /\ h = [k \in D |-> h[k]]
      /\ h.queue = f.queue /\ h.duration = f.duration /\ h.byTime = TRUE
  OBVIOUS
<1> HIDE DEF g, h
<1>5. \A k \in D : g[k] = h[k]
  BY <1>3, <1>4
<1> HIDE DEF D
<1>6. g = h
  BY <1>3, <1>4, <1>5
<1>7. QED
  BY <1>6 DEF g, h

LEMMA EnderTyped ==
  ASSUME PagingTypeOK, NEW n \in Int
  PROVE  Ender(n) \in Nat \union {Undefined}
  BY DEF PagingTypeOK, Ender

(* What a page request holds, and what asking for a page leaves.           *)
LEMMA AskedPage ==
  ASSUME PagingTypeOK, NEW f \in Filters, NEW min \in Nat \union {Undefined}, NEW n \in Int,
         LoadMessagesForPage(f, min, n)
  PROVE  /\ outstanding' = outstanding \union {PageRequest(f, min, n)}
         /\ PageRequest(f, min, n).kind = "page" /\ PageRequest(f, min, n).filter = f
         /\ PageRequest(f, min, n).min = min /\ PageRequest(f, min, n).page = n
         /\ \A r \in outstanding' : /\ r.kind \in {"page", "count"}
                                    /\ r.filter \in Filters
                                    /\ r.min \in Nat \union {Undefined}
                                    /\ r.page \in Int
<1> DEFINE new == PageRequest(f, min, n)
<1>1. outstanding' = outstanding \union {new}
  BY Zenon DEF LoadMessagesForPage
<1>2. new.kind = "page" /\ new.filter = f /\ new.min = min /\ new.page = n
  BY DEF PageRequest
<1>3. \A r \in outstanding : /\ r.kind \in {"page", "count"}
                             /\ r.filter \in Filters
                             /\ r.min \in Nat \union {Undefined}
                             /\ r.page \in Int
  BY Zenon DEF PagingTypeOK
<1> HIDE DEF new
<1>4. \A r \in outstanding' : /\ r.kind \in {"page", "count"}
                              /\ r.filter \in Filters
                              /\ r.min \in Nat \union {Undefined}
                              /\ r.page \in Int
  BY <1>1, <1>2, <1>3
<1>5. QED
  BY <1>1, <1>2, <1>4 DEF new

LEMMA TurnTyped ==
  ASSUME PagingTypeOK, NEW min \in Nat \union {Undefined}, NEW n \in Int, TurnPage(min, n),
         prevDisabled' \in BOOLEAN, nextDisabled' \in BOOLEAN
  PROVE  PagingTypeOK' /\ UNCHANGED <<stored, rows>>
<1>1. CurrentFilter \in Filters
  BY TypeParts
<1>2. LoadMessagesForPage(CurrentFilter, min, n)
  BY Zenon DEF TurnPage
<1>3. \A r \in outstanding' : /\ r.kind \in {"page", "count"}
                              /\ r.filter \in Filters
                              /\ r.min \in Nat \union {Undefined}
                              /\ r.page \in Int
  BY <1>1, <1>2, AskedPage
<1>4. /\ currentPage' = n
      /\ steady' = (steady /\ outstanding = {} /\ CurrentFilter = listing)
      /\ UNCHANGED <<queue, duration, filteredByTime, timeFilter, currentPageCount, pageEnder,
                     rows, countLabel, shown, stored, listing>>
  BY Zenon DEF TurnPage, selection, display
<1>5. CurrentFilter' = CurrentFilter
  BY <1>4, Zenon DEF CurrentFilter
<1>6. steady' \in BOOLEAN
  BY <1>4
<1>7. QED
  BY <1>3, <1>4, <1>5, <1>6 DEF PagingTypeOK

LEMMA LoadTyped ==
  ASSUME PagingTypeOK, NEW f \in Filters, StatusInitializeAndLoad(f),
         CurrentFilter' \in Filters, timeFilter' \in BOOLEAN
  PROVE  PagingTypeOK' /\ UNCHANGED <<stored, rows>>
<1>1. /\ currentPage' = 1
      /\ currentPageCount' = 0
      /\ pageEnder' = [n \in {0, 1} |-> 0]
      /\ prevDisabled' = FALSE
      /\ LoadMessagesForPage(f, 0, 1)
      /\ listing' = f
      /\ steady' = (outstanding = {})
      /\ UNCHANGED <<nextDisabled, rows, countLabel, shown, stored>>
  BY Zenon DEF StatusInitializeAndLoad, display
<1>2. \A r \in outstanding' : /\ r.kind \in {"page", "count"}
                              /\ r.filter \in Filters
                              /\ r.min \in Nat \union {Undefined}
                              /\ r.page \in Int
  BY <1>1, AskedPage
<1>3. DOMAIN pageEnder' \subseteq Int /\ \A n \in DOMAIN pageEnder' : pageEnder'[n] \in Nat
  BY <1>1
<1>4. 0 \in 0 .. PageLimit
  BY PagingAssumption
<1>5. steady' \in BOOLEAN
  BY <1>1
<1>6. QED
  BY <1>1, <1>2, <1>3, <1>4, <1>5 DEF PagingTypeOK

(* The three ways to open a list, and the form that is only brought up.    *)
SelectionChanges ==
  \/ \E q \in QueueOptions : SelectQueue(q)
  \/ \E d \in Durations : SelectDuration(d)
  \/ LoadMessagesForRange

LEMMA SelectionCases ==
  ASSUME PagingTypeOK, SelectionChanges
  PROVE  /\ CurrentFilter' \in Filters /\ timeFilter' \in BOOLEAN
         /\ \/ StatusInitializeAndLoad(CurrentFilter')
            \/ /\ steady' = (steady /\ outstanding = {})
               /\ UNCHANGED <<currentPage, currentPageCount, pageEnder, prevDisabled, nextDisabled,
                              rows, countLabel, shown, outstanding, stored, listing>>
<1>0. /\ queue \in QueueOptions /\ duration \in Durations /\ filteredByTime \in BOOLEAN
      /\ timeFilter \in BOOLEAN
  BY TypeParts DEF PagingTypeOK
<1>1. CurrentFilter' = [queue |-> queue', duration |-> duration', byTime |-> filteredByTime']
  BY DEF CurrentFilter
<1>2. ASSUME LoadMessagesWithDirectFiltering, queue' \in QueueOptions, duration' \in Durations
      PROVE  /\ CurrentFilter' \in Filters /\ timeFilter' \in BOOLEAN
             /\ \/ StatusInitializeAndLoad(CurrentFilter')
                \/ /\ steady' = (steady /\ outstanding = {})
                   /\ UNCHANGED <<currentPage, currentPageCount, pageEnder, prevDisabled,
                                  nextDisabled, rows, countLabel, shown, outstanding, stored,
                                  listing>>
  <2>1. CASE /\ duration' = "Custom"
             /\ timeFilter' = TRUE
             /\ steady' = (steady /\ outstanding = {})
             /\ UNCHANGED <<filteredByTime, paging, prevDisabled, nextDisabled, display,
                            outstanding, stored, loads, listing>>
    <3>1. UNCHANGED <<currentPage, currentPageCount, pageEnder, prevDisabled, nextDisabled,
                      rows, countLabel, shown, outstanding, stored, listing>>
      BY <2>1, Zenon DEF paging, display
    <3>2. filteredByTime' = filteredByTime /\ timeFilter' \in BOOLEAN
      BY <2>1
    <3>3. CurrentFilter' \in Filters
      BY <1>0, <1>1, <1>2, <3>2, FilterTyped, Zenon
    <3>4. QED
      BY <2>1, <3>1, <3>2, <3>3, Zenon
  <2>2. CASE /\ duration' # "Custom"
             /\ filteredByTime' = FALSE
             /\ timeFilter' = FALSE
             /\ StatusInitializeAndLoad([queue |-> queue', duration |-> duration',
                                         byTime |-> FALSE])
    <3>1. filteredByTime' \in BOOLEAN /\ timeFilter' \in BOOLEAN
      BY <2>2
    <3>2. CurrentFilter' \in Filters
      BY <1>1, <1>2, <3>1, FilterTyped, Zenon
    <3>3. QED
      BY <1>1, <2>2, <3>1, <3>2, Zenon
  <2>3. QED
    BY <1>2, <2>1, <2>2, Zenon DEF LoadMessagesWithDirectFiltering
<1>3. CASE \E q \in QueueOptions : SelectQueue(q)
  BY <1>0, <1>2, <1>3, Zenon DEF SelectQueue
<1>4. CASE \E d \in Durations : SelectDuration(d)
  BY <1>0, <1>2, <1>4, Zenon DEF SelectDuration
<1>5. CASE LoadMessagesForRange
  <2>1. /\ filteredByTime' = TRUE
        /\ queue' = queue /\ duration' = duration /\ timeFilter' = timeFilter
        /\ StatusInitializeAndLoad([CurrentFilter EXCEPT !.byTime = TRUE])
    BY <1>5, Zenon DEF LoadMessagesForRange
  <2>2. [CurrentFilter EXCEPT !.byTime = TRUE] =
          [queue |-> queue, duration |-> duration, byTime |-> TRUE]
    <3>1. CurrentFilter \in Filters
      BY TypeParts
    <3>2. CurrentFilter.queue = queue /\ CurrentFilter.duration = duration
      BY DEF CurrentFilter
    <3>3. [CurrentFilter EXCEPT !.byTime = TRUE] =
            [queue |-> CurrentFilter.queue, duration |-> CurrentFilter.duration, byTime |-> TRUE]
      BY <3>1, FilterTimed, Zenon
    <3>4. QED
      BY <3>2, <3>3
  <2>3. CurrentFilter' = [CurrentFilter EXCEPT !.byTime = TRUE]
    BY <1>1, <2>1, <2>2, Zenon
  <2>4. TRUE \in BOOLEAN
    OBVIOUS
  <2>5. CurrentFilter' \in Filters
    BY <1>0, <2>2, <2>3, <2>4, FilterTyped, ZenonT(40)
  <2>6. QED
    BY <1>0, <2>1, <2>3, <2>5, Zenon
<1>6. QED
  BY <1>3, <1>4, <1>5, Zenon DEF SelectionChanges

(* What an answer with a page of messages does.                            *)
LEMMA PageAnswered ==
  ASSUME PagingTypeOK, Bounded, NEW r \in outstanding, PageAnswer(r),
         NEW output, output = Following(Matching(r.filter, stored[r.filter.queue]), r.min)
  PROVE  /\ PagingTypeOK' /\ Bounded' /\ output \in SUBSET (1 .. MaxStored)
         /\ r.kind = "page" /\ rows' = output /\ steady' = steady
         /\ shown'.filter = r.filter /\ shown'.page = r.page /\ shown'.steady = steady
         /\ shown'.size = stored[r.filter.queue] /\ shown'.size \in 0 .. MaxStored
         /\ prevDisabled' = (prevDisabled \/ currentPage = 1)
         /\ nextDisabled' = (Cardinality(output) < PageLimit)
         /\ \A n \in DOMAIN pageEnder \ {currentPage} :
              n \in DOMAIN pageEnder' /\ pageEnder'[n] = pageEnder[n]
         /\ output # {} => /\ currentPage \in DOMAIN pageEnder'
                           /\ pageEnder'[currentPage] = LastId(output)
                           /\ currentPageCount' = Cardinality(output)
         /\ \E c : /\ outstanding' = (outstanding \ {r}) \union {c}
                   /\ c.kind = "count" /\ c.filter = CurrentFilter
         /\ UNCHANGED <<queue, duration, filteredByTime, currentPage, stored, listing>>
<1> DEFINE size == stored[r.filter.queue]
           c == [kind |-> "count", filter |-> CurrentFilter, min |-> 0, page |-> 0, id |-> r.id]
           Filled == /\ pageEnder' = [n \in DOMAIN pageEnder \union {currentPage} |->
                                IF n = currentPage THEN LastId(output) ELSE pageEnder[n]]
                     /\ currentPageCount' = Cardinality(output)
<1>1. /\ r.kind = "page" /\ r.min # Undefined
      /\ IF output # {} THEN Filled ELSE UNCHANGED <<pageEnder, currentPageCount>>
      /\ prevDisabled' = (prevDisabled \/ currentPage = 1)
      /\ nextDisabled' = (Cardinality(output) < PageLimit)
      /\ rows' = output
      /\ shown' = [filter |-> r.filter, page |-> r.page, size |-> size, steady |-> steady]
      /\ outstanding' = (outstanding \ {r}) \union {c}
      /\ UNCHANGED <<queue, duration, filteredByTime, timeFilter, currentPage, countLabel,
                     stored, loads, listing, steady>>
  BY Zenon DEF PageAnswer, LoadTable, selection
<1>2. r.filter \in Filters /\ r.min \in Nat /\ r.page \in Int
  BY <1>1, Zenon DEF PagingTypeOK
<1>3. size \in Nat /\ size \in 0 .. MaxStored
  <2>1. r.filter.queue \in QueueOptions
    BY <1>2 DEF Filters
  <2>2. stored \in [QueueOptions -> Nat] /\ stored[r.filter.queue] <= MaxStored
    BY <2>1, Zenon DEF PagingTypeOK, Bounded
  <2>3. QED
    BY <2>1, <2>2, PagingAssumption
<1>4. c.kind = "count" /\ c.filter = CurrentFilter /\ c.min = 0 /\ c.page = 0
  OBVIOUS
<1> HIDE DEF size, c
<1>5. /\ output \in SUBSET (1 .. size)
      /\ Cardinality(output) \in 0 .. PageLimit
      /\ output # {} => LastId(output) \in 1 .. size
  BY <1>2, <1>3, FollowingBounded, Zenon DEF size
<1>6. output \in SUBSET (1 .. MaxStored) /\ output \subseteq Nat
  BY <1>3, <1>5, PagingAssumption
<1>7. /\ shown'.filter = r.filter /\ shown'.page = r.page /\ shown'.steady = steady
      /\ shown'.size = size
      /\ shown' \in [filter : Filters, page : Int, size : Nat, steady : BOOLEAN]
  <2>1. steady \in BOOLEAN
    BY DEF PagingTypeOK
  <2>2. QED
    BY <1>1, <1>2, <1>3, <2>1
<1>8. /\ \A n \in DOMAIN pageEnder \ {currentPage} :
           n \in DOMAIN pageEnder' /\ pageEnder'[n] = pageEnder[n]
      /\ output # {} => /\ currentPage \in DOMAIN pageEnder'
                        /\ pageEnder'[currentPage] = LastId(output)
                        /\ currentPageCount' = Cardinality(output)
      /\ DOMAIN pageEnder' \subseteq DOMAIN pageEnder \union {currentPage}
  BY <1>1
<1>9. DOMAIN pageEnder' \subseteq Int /\ \A n \in DOMAIN pageEnder' : pageEnder'[n] \in Nat
  <2>1. /\ DOMAIN pageEnder \subseteq Int /\ \A n \in DOMAIN pageEnder : pageEnder[n] \in Nat
        /\ currentPage \in Int
    BY DEF PagingTypeOK
  <2>2. CASE output = {}
    BY <1>1, <2>1, <2>2
  <2>3. CASE output # {}
    <3>1. LastId(output) \in Nat
      BY <1>3, <1>5, <2>3
    <3>2. ASSUME NEW n \in DOMAIN pageEnder' PROVE pageEnder'[n] \in Nat
      BY <1>8, <2>1, <2>3, <3>1
    <3>3. QED
      BY <1>8, <2>1, <3>2
  <2>4. QED
    BY <2>2, <2>3
<1>10. currentPageCount' \in 0 .. PageLimit
  <2>1. currentPageCount \in 0 .. PageLimit
    BY DEF PagingTypeOK
  <2>2. QED
    BY <1>1, <1>5, <2>1
<1>11. \A s \in outstanding' : /\ s.kind \in {"page", "count"}
                               /\ s.filter \in Filters
                               /\ s.min \in Nat \union {Undefined}
                               /\ s.page \in Int
  <2>1. \A s \in outstanding : /\ s.kind \in {"page", "count"}
                               /\ s.filter \in Filters
                               /\ s.min \in Nat \union {Undefined}
                               /\ s.page \in Int
    BY Zenon DEF PagingTypeOK
  <2>2. CurrentFilter \in Filters
    BY TypeParts
  <2>3. QED
    BY <1>1, <1>4, <2>1, <2>2
<1>12. CurrentFilter' = CurrentFilter
  BY <1>1, Zenon DEF CurrentFilter
<1>13. prevDisabled' \in BOOLEAN /\ nextDisabled' \in BOOLEAN
  BY <1>1
<1>14. PagingTypeOK'
  <2>1. /\ CurrentFilter \in Filters /\ timeFilter \in BOOLEAN /\ currentPage \in Int
        /\ countLabel \in [from : Int, to : Int, of : Nat]
        /\ stored \in [QueueOptions -> Nat] /\ listing \in Filters /\ steady \in BOOLEAN
    BY DEF PagingTypeOK
  <2>2. QED
    BY <1>1, <1>6, <1>7, <1>9, <1>10, <1>11, <1>12, <1>13, <2>1 DEF PagingTypeOK
<1>15. Bounded'
  BY <1>1, <1>6 DEF Bounded
<1>16. QED
  BY <1>1, <1>3, <1>4, <1>6, <1>7, <1>8, <1>14, <1>15, Zenon DEF size

(* What the answer with the total does.                                    *)
LEMMA CountAnswered ==
  ASSUME PagingTypeOK, NEW r \in outstanding, CountAnswer(r)
  PROVE  /\ PagingTypeOK' /\ r.kind = "count" /\ steady' = steady
         /\ outstanding' = outstanding \ {r}
         /\ \E total \in Nat, start \in Int :
              /\ total = Cardinality(Matching(r.filter, stored[r.filter.queue]))
              /\ start = (currentPage - 1) * PageLimit
              /\ total # 0 => /\ countLabel'.from = start + 1
                              /\ countLabel'.to = start + currentPageCount
                              /\ countLabel'.of = total
         /\ UNCHANGED <<queue, duration, filteredByTime, currentPage, currentPageCount, pageEnder,
                        prevDisabled, nextDisabled, rows, shown, stored, listing>>
<1> PICK total, start : /\ total = Cardinality(Matching(r.filter, stored[r.filter.queue]))
                        /\ start = (currentPage - 1) * PageLimit
  BY Zenon
<1> DEFINE label == [from |-> start + 1, to |-> start + currentPageCount, of |-> total]
<1>1. /\ r.kind = "count"
      /\ countLabel' = IF total = 0 THEN NoLabel ELSE label
      /\ outstanding' = outstanding \ {r}
      /\ UNCHANGED <<queue, duration, filteredByTime, timeFilter, currentPage, currentPageCount,
                     pageEnder, prevDisabled, nextDisabled, rows, shown, stored, loads, listing,
                     steady>>
  BY Zenon DEF CountAnswer, selection, paging
<1>2. start \in Int /\ currentPageCount \in Int
  BY PagingAssumption DEF PagingTypeOK
<1>3. total \in Nat
  <2>1. r.filter \in Filters /\ stored \in [QueueOptions -> Nat]
    BY Zenon DEF PagingTypeOK
  <2>2. stored[r.filter.queue] \in Nat
    BY <2>1 DEF Filters
  <2>3. IsFiniteSet(Matching(r.filter, stored[r.filter.queue]))
    BY <2>2, MatchingFacts, Zenon
  <2>4. QED
    BY <2>3, FS_CardinalityType
<1>4. label \in [from : Int, to : Int, of : Nat] /\ label.from = start + 1
      /\ label.to = start + currentPageCount /\ label.of = total
  BY <1>2, <1>3
<1>5. NoLabel \in [from : Int, to : Int, of : Nat]
  BY DEF NoLabel
<1> HIDE DEF label
<1>6. countLabel' \in [from : Int, to : Int, of : Nat]
  BY <1>1, <1>4, <1>5
<1>7. CurrentFilter' = CurrentFilter
  BY <1>1, Zenon DEF CurrentFilter
<1>8. PagingTypeOK'
  BY <1>1, <1>6, <1>7 DEF PagingTypeOK
<1>9. total # 0 => /\ countLabel'.from = start + 1
                   /\ countLabel'.to = start + currentPageCount
                   /\ countLabel'.of = total
  BY <1>1, <1>4
<1>10. QED
  BY <1>1, <1>2, <1>3, <1>8, <1>9, Zenon

LEMMA PublishTyped ==
  ASSUME PagingTypeOK, Bounded, NEW q \in QueueOptions, Publish(q)
  PROVE  /\ PagingTypeOK' /\ Bounded'
         /\ \A p \in QueueOptions : stored[p] <= stored'[p]
<1>1. /\ stored[q] < MaxStored
      /\ stored' = [stored EXCEPT ![q] = stored[q] + 1]
      /\ UNCHANGED <<queue, duration, filteredByTime, timeFilter, currentPage, currentPageCount,
                     pageEnder, prevDisabled, nextDisabled, rows, countLabel, shown, outstanding,
                     listing, steady>>
  BY Zenon DEF Publish, selection, paging, display
<1>2. stored \in [QueueOptions -> Nat] /\ \A p \in QueueOptions : stored[p] <= MaxStored
  BY DEF PagingTypeOK, Bounded
<1>3. stored' \in [QueueOptions -> Nat]
  BY <1>1, <1>2
<1>4. ASSUME NEW p \in QueueOptions PROVE stored'[p] <= MaxStored /\ stored[p] <= stored'[p]
  BY <1>1, <1>2, PagingAssumption
<1>5. CurrentFilter' = CurrentFilter
  BY <1>1, Zenon DEF CurrentFilter
<1>6. PagingTypeOK'
  BY <1>1, <1>3, <1>5 DEF PagingTypeOK
<1>7. QED
  BY <1>1, <1>4, <1>6 DEF Bounded

LEMMA FailTyped ==
  ASSUME PagingTypeOK, Bounded, NEW r \in outstanding, PageFails(r)
  PROVE  PagingTypeOK' /\ Bounded' /\ ~steady'
<1>1. /\ outstanding' = outstanding \ {r} /\ steady' = FALSE
      /\ UNCHANGED <<queue, duration, filteredByTime, timeFilter, currentPage, currentPageCount,
                     pageEnder, prevDisabled, nextDisabled, rows, countLabel, shown, stored,
                     listing>>
  BY Zenon DEF PageFails, selection, paging, display
<1>2. CurrentFilter' = CurrentFilter
  BY <1>1, Zenon DEF CurrentFilter
<1>3. PagingTypeOK'
  BY <1>1, <1>2 DEF PagingTypeOK
<1>4. QED
  BY <1>1, <1>3 DEF Bounded

-----------------------------------------------------------------------------
(* The steps of a user who waits                                           *)

LEMMA EarlierGrows ==
  ASSUME NEW size \in Nat, NEW more \in Nat, size <= more, Earlier(size)
  PROVE  Earlier(more)
<1>1. \A n \in 0 .. currentPage - 1 : EnderOK(n, size) => EnderOK(n, more)
  BY DEF EnderOK
<1>2. QED
  BY <1>1, Zenon DEF Earlier

LEMMA EarlierKept ==
  ASSUME Earlier(shown.size), UNCHANGED <<currentPage, pageEnder, shown, listing>>
  PROVE  Earlier(shown.size)'
<1>1. ASSUME NEW n \in 0 .. currentPage' - 1 PROVE EnderOK(n, shown.size)'
  <2>1. EnderOK(n, shown.size)
    BY Zenon DEF Earlier
  <2>2. QED
    BY <2>1, Zenon DEF EnderOK, Upto
<1>2. pageEnder'[0] = 0
  BY Zenon DEF Earlier
<1>3. QED
  BY <1>1, <1>2, Zenon DEF Earlier

(* A table that nothing touches still fits.                                *)
LEMMA TableKept ==
  ASSUME TableFits,
         UNCHANGED <<currentPage, currentPageCount, pageEnder, prevDisabled, nextDisabled, rows,
                     shown, listing>>,
         shown'.size <= stored'[listing'.queue]
  PROVE  TableFits'
<1>1. Earlier(shown.size)'
  <2>1. Earlier(shown.size)
    BY Zenon DEF TableFits
  <2>2. QED
    BY <2>1, EarlierKept, Zenon
<1>2. rows' = PageOf(listing', currentPage', shown'.size)
  BY Zenon DEF TableFits
<1>3. QED
  BY <1>1, <1>2, Zenon DEF TableFits

(* With nothing outstanding the table fits.                                *)
LEMMA Rested ==
  ASSUME SteadyInv, outstanding = {}
  PROVE  TableFits /\ LabelFits /\ currentPage >= 1
  BY Zenon DEF SteadyInv

(* A full page gives the end after which the next one is asked for.        *)
LEMMA FullPageEnds ==
  ASSUME PagingTypeOK, currentPage >= 1, TableFits, ~nextDisabled
  PROVE  EnderOK(currentPage, shown.size)
<1> DEFINE min == pageEnder[currentPage - 1]
           last == pageEnder[currentPage]
           size == shown.size
           a == (currentPage - 1) * PageLimit
           slice == PageOf(listing, currentPage, size)
<1>1. PageLimit \in Nat \ {0} /\ currentPage \in Nat \ {0} /\ size \in Nat /\ a \in Nat
      /\ currentPage * PageLimit = a + PageLimit /\ nextDisabled \in BOOLEAN
  BY PagingAssumption, TypeParts DEF PagingTypeOK
<1>2. /\ rows = slice /\ Earlier(size)
      /\ nextDisabled <=> Cardinality(rows) < PageLimit
      /\ rows # {} => /\ currentPage \in DOMAIN pageEnder
                      /\ last = LastId(rows)
  BY Zenon DEF TableFits
<1>3. currentPage - 1 \in 0 .. currentPage - 1
  BY <1>1
<1>4. EnderOK(currentPage - 1, size)
  BY <1>2, <1>3, Zenon DEF Earlier
<1>5. min \in Nat /\ Upto(listing, min) = a
  BY <1>1, <1>4 DEF EnderOK
<1>6. Cardinality(slice) \in Nat
  <2>1. size \in Nat /\ currentPage \in Int
    BY <1>1
  <2>2. QED
    BY <2>1, PageOfFacts, Zenon
<1> HIDE DEF min, size, slice, a, last
<1>7. slice # {}
  <2>1. ASSUME slice = {} PROVE FALSE
    <3>1. Cardinality(slice) = 0
      BY <2>1, FS_EmptySet
    <3>2. QED
      BY <1>1, <1>2, <3>1
  <2>2. QED
    BY <2>1
<1>8. last = LastId(slice)
  BY <1>2, <1>7
<1>9. /\ last \in Matching(listing, last) /\ last \in 1 .. size
      /\ Upto(listing, last) \in Nat /\ Upto(listing, last) <= currentPage * PageLimit
      /\ Cardinality(slice) = Upto(listing, last) - a
  <2> USE DEF slice, size, a
  <2>1. slice \in SUBSET (1 .. size) /\ slice \in SUBSET Nat
    <3>1. currentPage \in Int
      BY <1>1
    <3>2. slice \in SUBSET (1 .. size)
      BY <1>1, <3>1, PageOfFacts, Zenon
    <3>3. QED
      BY <3>2
  <2>2. PICK first : Spans(first, last, slice)
    BY <1>1, <1>7, <1>8, <2>1, SpansExist, Zenon
  <2>3. /\ currentPage \in Nat \ {0} /\ min \in Nat /\ size \in Nat
        /\ Upto(listing, min) = (currentPage - 1) * PageLimit
    BY <1>1, <1>5
  <2>4. Ranked(first, last, listing, currentPage, size)
    BY <2>2, <2>3, PageEnds, Zenon
  <2>5. QED
    BY <2>4, Zenon DEF Ranked
<1>10. ~(Cardinality(slice) < PageLimit)
  BY <1>1, <1>2
<1>11. Upto(listing, last) = currentPage * PageLimit
  BY <1>1, <1>6, <1>9, <1>10
<1>12. last \in 0 .. size
  BY <1>1, <1>9
<1>13. currentPage \in DOMAIN pageEnder
  BY <1>2, <1>7
<1> USE DEF last, size
<1>14. QED
  BY <1>9, <1>11, <1>12, <1>13, Zenon DEF EnderOK

(* A page is turned from a list at rest, to a neighbour whose predecessor  *)
(* has a known end.                                                        *)
LEMMA TurnSteady ==
  ASSUME PagingTypeOK, steady => SteadyInv, NEW n \in Nat \ {0},
         n \in {currentPage - 1, currentPage + 1},
         TurnPage(Ender(n - 1), n), ~prevDisabled',
         steady /\ TableFits => \A m \in 0 .. n - 1 : EnderOK(m, shown.size)
  PROVE  steady' => SteadyInv'
<1> DEFINE size == stored[listing.queue]
<1> SUFFICES ASSUME steady' PROVE SteadyInv'
  OBVIOUS
<1>1. /\ LoadMessagesForPage(CurrentFilter, Ender(n - 1), n)
      /\ currentPage' = n
      /\ steady' = (steady /\ outstanding = {} /\ CurrentFilter = listing)
      /\ UNCHANGED <<queue, duration, filteredByTime, currentPageCount, pageEnder,
                     rows, countLabel, shown, stored, listing>>
  BY Zenon DEF TurnPage, selection, display
<1>2. steady /\ outstanding = {} /\ CurrentFilter = listing
  BY <1>1
<1>3. TableFits
  BY <1>2, Rested, Zenon
<1>4. CurrentFilter \in Filters /\ Ender(n - 1) \in Nat \union {Undefined} /\ n \in Int
  BY TypeParts, EnderTyped
<1>5. PICK r : /\ outstanding' = {r} /\ r.kind = "page" /\ r.filter = CurrentFilter
               /\ r.min = Ender(n - 1) /\ r.page = n
  <2> PICK f, min : f = CurrentFilter /\ min = Ender(n - 1)
    OBVIOUS
  <2> DEFINE new == PageRequest(f, min, n)
  <2>0. LoadMessagesForPage(f, min, n)
    BY <1>1
  <2>1. /\ outstanding' = outstanding \union {new}
        /\ new.kind = "page" /\ new.filter = f /\ new.min = min /\ new.page = n
    <3>1. outstanding' = outstanding \union {new}
      BY <2>0, Zenon DEF LoadMessagesForPage
    <3>2. new.kind = "page" /\ new.filter = f /\ new.min = min /\ new.page = n
      BY DEF PageRequest
    <3>3. QED
      BY <3>1, <3>2
  <2>2. outstanding' = {new}
    BY <1>2, <2>1
  <2>3. QED
    BY <2>1, <2>2, Zenon
<1>6. n - 1 \in 0 .. n - 1 /\ n >= 1
  OBVIOUS
<1>7. \A m \in 0 .. n - 1 : EnderOK(m, shown.size)
  BY <1>2, <1>3
<1>8. Ender(n - 1) = pageEnder[n - 1]
  BY <1>6, <1>7, Zenon DEF Ender, EnderOK
<1>9. shown.size \in Nat /\ size \in Nat /\ shown.size <= size
  BY <1>3, TypeParts, Zenon DEF TableFits
<1>10. \A m \in 0 .. n - 1 : EnderOK(m, size)
  BY <1>7, <1>9 DEF EnderOK
<1>11. \A m \in 0 .. n - 1 : EnderOK(m, size)'
  BY <1>1, <1>10, Zenon DEF EnderOK, Upto
<1>12. pageEnder[0] = 0
  BY <1>3, Zenon DEF TableFits, Earlier
<1>13. Earlier(stored[listing.queue])'
  BY <1>1, <1>11, <1>12, Zenon DEF Earlier
<1>14. CurrentFilter' = CurrentFilter
  BY <1>1, Zenon DEF CurrentFilter
<1>15. shown'.page \in {n - 1, n + 1} /\ shown'.steady /\ shown'.filter = listing'
  <2>1. shown.page = currentPage /\ shown.steady /\ shown.filter = listing
    BY <1>3, Zenon DEF TableFits
  <2>2. currentPage \in {n - 1, n + 1}
    BY DEF PagingTypeOK
  <2>3. QED
    BY <1>1, <2>1, <2>2, Zenon
<1>16. PageAsked(r)'
  <2>1. outstanding' = {r} /\ r.kind = "page" /\ r.filter = listing' /\ r.page = currentPage'
    BY <1>1, <1>2, <1>5
  <2>2. listing' = CurrentFilter'
    BY <1>1, <1>2, <1>14
  <2>3. r.min = pageEnder'[currentPage' - 1]
    BY <1>1, <1>5, <1>8
  <2>4. shown'.page \in {currentPage' - 1, currentPage' + 1}
    BY <1>1, <1>15
  <2>5. QED
    BY <1>13, <1>15, <2>1, <2>2, <2>3, <2>4, Zenon DEF PageAsked
<1>17. r \in outstanding' /\ currentPage' >= 1
  BY <1>1, <1>5, <1>6
<1>18. QED
  BY <1>16, <1>17, Zenon DEF SteadyInv

(* Opening a list asks for its first page.                                 *)
LEMMA LoadSteady ==
  ASSUME PagingTypeOK, StatusInitializeAndLoad(CurrentFilter'), CurrentFilter' \in Filters
  PROVE  steady' => SteadyInv'
<1> PICK f : f = CurrentFilter'
  OBVIOUS
<1> SUFFICES ASSUME steady' PROVE SteadyInv'
  OBVIOUS
<1>1. /\ currentPage' = 1
      /\ pageEnder' = [n \in {0, 1} |-> 0]
      /\ prevDisabled' = FALSE
      /\ LoadMessagesForPage(f, 0, 1)
      /\ listing' = f
      /\ steady' = (outstanding = {})
      /\ stored' = stored
  BY Zenon DEF StatusInitializeAndLoad
<1>2. PICK r : /\ outstanding' = {r} /\ r.kind = "page" /\ r.filter = f /\ r.min = 0
               /\ r.page = 1
  <2> DEFINE new == PageRequest(f, 0, 1)
  <2>1. /\ outstanding' = outstanding \union {new} /\ new.kind = "page" /\ new.filter = f
        /\ new.min = 0 /\ new.page = 1
    BY <1>1, AskedPage
  <2>2. outstanding' = {new}
    BY <1>1, <2>1
  <2>3. QED
    BY <2>1, <2>2, Zenon
<1>3. f.queue \in QueueOptions /\ stored \in [QueueOptions -> Nat]
  BY Zenon, TypeParts DEF PagingTypeOK, CurrentFilter, Filters
<1>4. stored'[listing'.queue] \in Nat
  BY <1>1, <1>3
<1>5. Upto(listing', 0) = 0 * PageLimit
  BY UptoNone, PagingAssumption
<1>6. EnderOK(0, stored[listing.queue])'
  BY <1>1, <1>4, <1>5 DEF EnderOK
<1>7. Earlier(stored[listing.queue])'
  BY <1>1, <1>6 DEF Earlier
<1>8. pageEnder'[currentPage' - 1] = 0
  BY <1>1
<1>9. PageAsked(r)'
  BY <1>1, <1>2, <1>7, <1>8, Zenon DEF PageAsked
<1>10. r \in outstanding' /\ currentPage' >= 1
  BY <1>1, <1>2
<1>11. QED
  BY <1>9, <1>10, Zenon DEF SteadyInv

(* While the user waits, the page that arrives is the one asked for, and   *)
(* the one the abstract list opens or turns to.                            *)
LEMMA PageSteady ==
  ASSUME PagingInv, steady, NEW r \in outstanding, PageAnswer(r)
  PROVE  /\ SteadyInv'
         /\ rows' = PageOf(listing, currentPage, shown'.size)
         /\ shown'.filter = listing /\ shown'.page = currentPage /\ shown'.steady
         /\ \/ currentPage = 1
            \/ /\ shown.steady /\ shown.filter = listing /\ currentPage > 0
               /\ shown.page \in {currentPage - 1, currentPage + 1}
<1> DEFINE size == stored[listing.queue]
           output == Following(Matching(r.filter, stored[r.filter.queue]), r.min)
<1>0. PagingTypeOK /\ Bounded /\ SteadyInv
  BY DEF PagingInv
<1> PICK out : out = output
  OBVIOUS
<1>1. /\ r.kind = "page" /\ rows' = out /\ steady' = steady
      /\ shown'.filter = r.filter /\ shown'.page = r.page /\ shown'.steady = steady
      /\ shown'.size = stored[r.filter.queue]
      /\ prevDisabled' = (prevDisabled \/ currentPage = 1)
      /\ nextDisabled' = (Cardinality(out) < PageLimit)
      /\ \A n \in DOMAIN pageEnder \ {currentPage} :
           n \in DOMAIN pageEnder' /\ pageEnder'[n] = pageEnder[n]
      /\ out # {} => /\ currentPage \in DOMAIN pageEnder'
                     /\ pageEnder'[currentPage] = LastId(out)
                     /\ currentPageCount' = Cardinality(out)
      /\ \E c : /\ outstanding' = (outstanding \ {r}) \union {c}
                /\ c.kind = "count" /\ c.filter = CurrentFilter
      /\ UNCHANGED <<queue, duration, filteredByTime, currentPage, stored, listing>>
  BY <1>0, PageAnswered
<1>2. PageAsked(r) /\ currentPage >= 1
  <2>1. CASE \E s \in outstanding : CountAsked(s)
    BY <1>1, <2>1 DEF CountAsked
  <2>2. CASE \E s \in outstanding : PageAsked(s)
    BY <2>2, Zenon, <1>0 DEF PageAsked, SteadyInv
  <2>3. QED
    BY <1>0, <2>1, <2>2, Zenon DEF SteadyInv
<1>3. /\ outstanding = {r} /\ r.filter = listing /\ listing = CurrentFilter
      /\ r.page = currentPage /\ r.min = pageEnder[currentPage - 1]
      /\ Earlier(size) /\ ~prevDisabled
      /\ \/ currentPage = 1
         \/ shown.steady /\ shown.filter = listing
            /\ shown.page \in {currentPage - 1, currentPage + 1}
  BY <1>2, Zenon DEF PageAsked
<1>4. size \in Nat /\ currentPage \in Nat \ {0} /\ currentPage - 1 \in 0 .. currentPage - 1
  BY <1>0, <1>2, TypeParts DEF PagingTypeOK
<1> HIDE DEF size
<1>5. EnderOK(currentPage - 1, size)
  BY <1>3, <1>4, Zenon DEF Earlier
<1>6. r.min \in Nat /\ Upto(listing, r.min) = (currentPage - 1) * PageLimit
  BY <1>3, <1>4, <1>5 DEF EnderOK
<1>7. out = PageOf(listing, currentPage, size)
  <2>1. out = Following(Matching(listing, size), r.min)
    BY <1>3, Zenon DEF size
  <2> HIDE DEF output
  <2>2. Following(Matching(listing, size), r.min) = PageOf(listing, currentPage, size)
    BY <1>4, <1>6, FollowingIsPage
  <2>3. QED
    BY <2>1, <2>2
<1> HIDE DEF output
<1>8. shown'.size = size /\ stored'[listing'.queue] = size /\ listing' = listing
      /\ currentPage' = currentPage /\ CurrentFilter' = CurrentFilter
  BY <1>1, <1>3, Zenon DEF size, CurrentFilter
<1>9. Earlier(shown.size)'
  <2>1. ASSUME NEW n \in 0 .. currentPage - 1 PROVE EnderOK(n, shown.size)'
    <3>1. EnderOK(n, size) /\ n # currentPage
      BY <1>3, <1>4, <2>1 DEF Earlier
    <3>2. n \in DOMAIN pageEnder' /\ pageEnder'[n] = pageEnder[n]
      BY <1>1, <3>1, Zenon DEF EnderOK
    <3>3. QED
      BY <1>8, <3>1, <3>2, Zenon DEF EnderOK, Upto
  <2>2. pageEnder[0] = 0 /\ 0 \in DOMAIN pageEnder /\ 0 # currentPage
    <3>1. 0 \in 0 .. currentPage - 1
      BY <1>4
    <3>2. EnderOK(0, size) /\ pageEnder[0] = 0
      BY <1>3, <3>1, Zenon DEF Earlier
    <3>3. QED
      BY <1>4, <3>2 DEF EnderOK
  <2>3. pageEnder'[0] = 0
    BY <1>1, <2>2, Zenon
  <2>4. QED
    BY <1>8, <2>1, <2>3, Zenon DEF Earlier
<1>10. TableFits'
  <2>1. /\ shown'.filter = listing' /\ shown'.page = currentPage' /\ shown'.steady
        /\ shown'.size <= stored'[listing'.queue]
    BY <1>1, <1>3, <1>4, <1>8
  <2>2. rows' = PageOf(listing', currentPage', shown'.size)
    BY <1>1, <1>7, <1>8
  <2>3. /\ prevDisabled' <=> currentPage' = 1
        /\ nextDisabled' <=> Cardinality(rows') < PageLimit
    BY <1>1, <1>3
  <2>4. rows' # {} => /\ currentPage' \in DOMAIN pageEnder'
                      /\ pageEnder'[currentPage'] = LastId(rows')
                      /\ currentPageCount' = Cardinality(rows')
    BY <1>1
  <2>5. QED
    BY <1>9, <2>1, <2>2, <2>3, <2>4, Zenon DEF TableFits, PageOf, Matching, LastId
<1>11. PICK c : /\ outstanding' = (outstanding \ {r}) \union {c}
                /\ c.kind = "count" /\ c.filter = CurrentFilter
  BY <1>1, Zenon
<1>12. CountAsked(c)'
  <2>1. outstanding' = {c} /\ c.kind = "count" /\ c.filter = listing'
        /\ listing' = CurrentFilter'
    BY <1>3, <1>8, <1>11
  <2>2. QED
    BY <1>10, <2>1, Zenon DEF CountAsked
<1>13. SteadyInv'
  BY <1>2, <1>8, <1>11, <1>12 DEF SteadyInv
<1>14. currentPage > 0
  BY <1>4
<1>15. QED
  BY <1>1, <1>3, <1>7, <1>8, <1>13, <1>14

(* The total that arrives labels the table it was asked for.               *)
LEMMA CountSteady ==
  ASSUME PagingInv, steady, NEW r \in outstanding, CountAnswer(r)
  PROVE  SteadyInv'
<1> DEFINE size == stored[listing.queue]
<1>0. PagingTypeOK /\ Bounded /\ SteadyInv
  BY DEF PagingInv
<1>11. PICK total \in Nat, start \in Int :
              /\ total = Cardinality(Matching(r.filter, stored[r.filter.queue]))
              /\ start = (currentPage - 1) * PageLimit
              /\ total # 0 => /\ countLabel'.from = start + 1
                              /\ countLabel'.to = start + currentPageCount
                              /\ countLabel'.of = total
  BY <1>0, CountAnswered, Zenon
<1>1. /\ r.kind = "count" /\ outstanding' = outstanding \ {r}
      /\ UNCHANGED <<queue, duration, filteredByTime, currentPage, currentPageCount, pageEnder,
                     prevDisabled, nextDisabled, rows, shown, stored, listing>>
  BY <1>0, CountAnswered, Zenon
<1>2. CountAsked(r) /\ currentPage >= 1
  <2>1. CASE \E s \in outstanding : CountAsked(s)
    BY <2>1, Zenon, <1>0 DEF CountAsked, SteadyInv
  <2>2. CASE \E s \in outstanding : PageAsked(s)
    BY <1>1, <2>2 DEF PageAsked
  <2>3. QED
    BY <1>0, <2>1, <2>2, Zenon DEF SteadyInv
<1>3. outstanding = {r} /\ r.filter = listing /\ TableFits
  BY <1>2, Zenon DEF CountAsked
<1>4. TableFits'
  <2>1. shown'.size <= stored'[listing'.queue]
    BY <1>1, <1>3, Zenon DEF TableFits
  <2>2. QED
    BY <1>1, <1>3, <2>1, TableKept, Zenon
<1>5. /\ shown.size \in Nat /\ size \in Nat /\ currentPage \in Nat \ {0} /\ start \in Nat
      /\ shown.size <= size /\ currentPage - 1 \in 0 .. currentPage - 1
  BY <1>0, <1>11, <1>2, <1>3, TypeParts, PagingAssumption DEF PagingTypeOK, TableFits
<1>6. /\ rows = PageOf(listing, currentPage, shown.size) /\ Earlier(shown.size)
      /\ rows # {} => currentPageCount = Cardinality(rows)
  BY <1>3, Zenon DEF TableFits
<1>7. ASSUME rows # {}
      PROVE  total >= start + Cardinality(rows) /\ Cardinality(rows) \in Nat /\ total # 0
  <2>1. /\ rows \in SUBSET (1 .. shown.size) /\ Cardinality(rows) \in Nat
        /\ IsFiniteSet(rows)
    <3>1. currentPage \in Int
      BY <1>5
    <3>2. QED
      BY <1>5, <1>6, <3>1, PageOfFacts, Zenon
  <2>2. PICK first : Spans(first, LastId(rows), rows)
    BY <1>5, <1>7, <2>1, SpansExist, Zenon
  <2>3. EnderOK(currentPage - 1, shown.size)
    BY <1>5, <1>6, Zenon DEF Earlier
  <2>4. PICK min \in Nat : Upto(listing, min) = (currentPage - 1) * PageLimit
    BY <1>5, <2>3 DEF EnderOK
  <2>5. Ranked(first, LastId(rows), listing, currentPage, shown.size)
    BY <1>5, <1>6, <2>2, <2>4, PageEnds, Zenon
  <2>6. /\ LastId(rows) \in 1 .. shown.size
        /\ Cardinality(rows) = Upto(listing, LastId(rows)) - start
    BY <1>11, <1>6, <2>5, Zenon DEF Ranked
  <2> PICK last : last = LastId(rows)
    OBVIOUS
  <2>7. last \in Nat /\ last <= size
    BY <1>5, <2>6
  <2>8. Upto(listing, last) \in Nat /\ Upto(listing, last) <= Upto(listing, size)
    BY <1>5, <2>7, UptoGrows, Zenon
  <2>9. Upto(listing, size) = total
    BY <1>11, <1>3, Zenon DEF Upto
  <2>10. Cardinality(rows) # 0
    BY <1>7, <2>1, FS_EmptySet
  <2> HIDE DEF size
  <2>11. QED
    BY <1>11, <1>5, <2>1, <2>6, <2>8, <2>9, <2>10
<1>8. LabelFits'
  <2>1. ASSUME rows # {}
        PROVE  /\ countLabel'.from = start + 1
               /\ countLabel'.to = start + Cardinality(rows)
               /\ countLabel'.of >= countLabel'.to
    BY <1>11, <1>6, <1>7, <2>1
  <2>2. start = (currentPage' - 1) * PageLimit /\ rows' = rows
    BY <1>11, <1>1
  <2>3. QED
    BY <2>1, <2>2, Zenon DEF LabelFits
<1>9. outstanding' = {} /\ currentPage' >= 1
  BY <1>1, <1>2, <1>3
<1>10. QED
  BY <1>4, <1>8, <1>9, Zenon DEF SteadyInv

(* A message that is published changes no page that was full, and a table  *)
(* stays what it was when it was filled.                                   *)
LEMMA PublishSteady ==
  ASSUME PagingInv, steady, NEW q \in QueueOptions, Publish(q)
  PROVE  SteadyInv'
<1> DEFINE size == stored[listing.queue]
<1>0. PagingTypeOK /\ Bounded /\ SteadyInv
  BY DEF PagingInv
<1>1. UNCHANGED <<queue, duration, filteredByTime, timeFilter, currentPage, currentPageCount,
                  pageEnder, prevDisabled, nextDisabled, rows, countLabel, shown, outstanding,
                  listing, steady>>
  BY Zenon DEF Publish, selection, paging, display
<1>2. /\ PagingTypeOK' /\ \A p \in QueueOptions : stored[p] <= stored'[p]
  BY <1>0, PublishTyped
<1>3. PICK more : more = stored'[listing.queue]
  OBVIOUS
<1>4. size \in Nat /\ more \in Nat /\ size <= more
  <2>1. listing.queue \in QueueOptions /\ size \in Nat
    BY <1>0, TypeParts
  <2>2. stored' \in [QueueOptions -> Nat]
    BY <1>2 DEF PagingTypeOK
  <2>3. QED
    BY <1>2, <1>3, <2>1, <2>2
<1>5. CurrentFilter' = CurrentFilter
  BY <1>1, Zenon DEF CurrentFilter
<1>6. ASSUME TableFits PROVE TableFits'
  <2>1. shown.size \in Nat /\ shown.size <= size
    BY <1>0, <1>6, TypeParts, Zenon DEF TableFits
  <2>2. shown'.size <= stored'[listing'.queue]
    BY <1>1, <1>3, <1>4, <2>1
  <2>3. QED
    BY <1>1, <1>6, <2>2, TableKept, Zenon
<1>7. CASE outstanding = {} /\ TableFits /\ LabelFits
  <2>1. LabelFits'
    BY <1>1, <1>7, Zenon DEF LabelFits
  <2>2. QED
    BY <1>0, <1>1, <1>6, <1>7, <2>1, Zenon DEF SteadyInv
<1>8. ASSUME NEW r \in outstanding, CountAsked(r) PROVE SteadyInv'
  <2>1. CountAsked(r)'
    BY <1>1, <1>5, <1>6, <1>8, Zenon DEF CountAsked
  <2>2. QED
    BY <1>0, <1>1, <2>1, Zenon DEF SteadyInv
<1>9. ASSUME NEW r \in outstanding, PageAsked(r) PROVE SteadyInv'
  <2>1. Earlier(more)
    BY <1>4, <1>9, EarlierGrows, Zenon DEF PageAsked
  <2>2. Earlier(stored[listing.queue])'
    BY <1>1, <1>3, <2>1, Zenon DEF Earlier, EnderOK, Upto, Matching
  <2>3. PageAsked(r)'
    BY <1>1, <1>5, <1>9, <2>2, Zenon DEF PageAsked
  <2>4. QED
    BY <1>0, <1>1, <2>3, Zenon DEF SteadyInv
<1>10. QED
  BY <1>0, <1>7, <1>8, <1>9, Zenon DEF SteadyInv

-----------------------------------------------------------------------------
(* The invariant                                                           *)

LEMMA PagingInitHolds == PagingInit => PagingInv
<1> SUFFICES ASSUME PagingInit PROVE PagingInv
  OBVIOUS
<1>1. /\ queue \in QueueOptions
      /\ duration \in Durations
      /\ filteredByTime = FALSE /\ timeFilter = FALSE
      /\ currentPage = 1 /\ currentPageCount = 0
      /\ pageEnder = [n \in {0, 1} |-> 0]
      /\ prevDisabled = FALSE /\ nextDisabled = FALSE
      /\ rows = {} /\ countLabel = NoLabel
      /\ outstanding = {[PageRequest(CurrentFilter, 0, 1) EXCEPT !.id = 0]}
      /\ stored = FirstStored
      /\ listing = CurrentFilter
      /\ steady = TRUE
      /\ shown = [filter |-> CurrentFilter, page |-> 1, size |-> 0, steady |-> FALSE]
  BY Zenon DEF PagingInit
<1> PICK f : f = CurrentFilter
  OBVIOUS
<1>2. CurrentFilter \in Filters /\ f.queue \in QueueOptions
  <2>1. f = [queue |-> queue, duration |-> duration, byTime |-> FALSE]
    BY <1>1, Zenon DEF CurrentFilter
  <2>2. FALSE \in BOOLEAN
    OBVIOUS
  <2>3. f \in Filters /\ f.queue = queue
    BY <1>1, <2>1, <2>2, FilterTyped, Zenon
  <2>4. QED
    BY <1>1, <2>3
<1>3. PICK r : /\ outstanding = {r}
               /\ r.kind = "page" /\ r.filter = f /\ r.min = 0 /\ r.page = 1
  <2> DEFINE first == [PageRequest(f, 0, 1) EXCEPT !.id = 0]
  <2>1. first.kind = "page" /\ first.filter = f /\ first.min = 0 /\ first.page = 1
    BY DEF PageRequest
  <2>2. outstanding = {first}
    BY <1>1
  <2>3. QED
    BY <2>1, <2>2, Zenon
<1>4. stored \in [QueueOptions -> Nat] /\ \A q \in QueueOptions : stored[q] <= MaxStored
  BY <1>1, PagingAssumption
<1>5. \A s \in outstanding : /\ s.kind \in {"page", "count"}
                             /\ s.filter \in Filters
                             /\ s.min \in Nat \union {Undefined}
                             /\ s.page \in Int
  BY <1>2, <1>3
<1>6. shown \in [filter : Filters, page : Int, size : Nat, steady : BOOLEAN]
  BY <1>1, <1>2
<1>7. countLabel \in [from : Int, to : Int, of : Nat]
  BY <1>1 DEF NoLabel
<1>8. PagingTypeOK
  <2>1. /\ DOMAIN pageEnder \subseteq Int /\ \A n \in DOMAIN pageEnder : pageEnder[n] \in Nat
        /\ currentPageCount \in 0 .. PageLimit /\ rows \subseteq Nat /\ currentPage \in Int
    BY <1>1, PagingAssumption
  <2>2. /\ timeFilter \in BOOLEAN /\ prevDisabled \in BOOLEAN /\ nextDisabled \in BOOLEAN
        /\ steady \in BOOLEAN /\ listing \in Filters
    BY <1>1, <1>2
  <2>3. QED
    BY <1>2, <1>4, <1>5, <1>6, <1>7, <2>1, <2>2, Zenon DEF PagingTypeOK
<1>9. Bounded
  BY <1>1, <1>4 DEF Bounded
<1>10. stored[listing.queue] \in Nat
  BY <1>1, <1>2, <1>4
<1>11. Upto(listing, 0) = 0 * PageLimit
  BY UptoNone, PagingAssumption
<1>12. EnderOK(0, stored[listing.queue])
  BY <1>1, <1>10, <1>11 DEF EnderOK
<1>13. Earlier(stored[listing.queue])
  BY <1>1, <1>12 DEF Earlier
<1>14. PageAsked(r)
  <2>1. r.min = pageEnder[currentPage - 1] /\ r.page = currentPage /\ r.filter = listing
        /\ listing = CurrentFilter /\ ~prevDisabled
    BY <1>1, <1>3
  <2>2. QED
    BY <1>1, <1>3, <1>13, <2>1, Zenon DEF PageAsked
<1>15. SteadyInv
  BY <1>1, <1>3, <1>14 DEF SteadyInv
<1>16. QED
  BY <1>8, <1>9, <1>15, Zenon DEF PagingInv

LEMMA NextHolds ==
  ASSUME PagingInv, NextPage
  PROVE  PagingInv'
<1> DEFINE n == currentPage + 1
<1>0. PagingTypeOK /\ Bounded /\ (steady => SteadyInv) /\ currentPage \in Int
  BY Zenon DEF PagingInv, PagingTypeOK
<1>1. ~nextDisabled /\ prevDisabled' = FALSE /\ nextDisabled' = nextDisabled
      /\ TurnPage(Ender(currentPage), n)
  BY Zenon DEF NextPage
<1>2. Ender(currentPage) \in Nat \union {Undefined} /\ n \in Int
  BY <1>0, EnderTyped
<1>3. prevDisabled' \in BOOLEAN /\ nextDisabled' \in BOOLEAN
  BY <1>0, <1>1 DEF PagingTypeOK
<1>4. PagingTypeOK' /\ UNCHANGED <<stored, rows>>
  BY <1>0, <1>1, <1>2, <1>3, TurnTyped, Zenon
<1>5. Bounded'
  BY <1>0, <1>4, Zenon DEF Bounded
<1>6. steady' => SteadyInv'
  <2>1. ASSUME steady' PROVE steady /\ outstanding = {}
    BY <1>1, <2>1, Zenon DEF TurnPage
  <2>2. SUFFICES ASSUME steady' PROVE SteadyInv'
    OBVIOUS
  <2>3. steady /\ currentPage >= 1 /\ TableFits
    BY <1>0, <2>1, <2>2, Rested
  <2>4. n \in Nat \ {0} /\ n \in {currentPage - 1, currentPage + 1} /\ n - 1 = currentPage
    BY <1>0, <2>3
  <2>5. ASSUME NEW m \in 0 .. n - 1 PROVE EnderOK(m, shown.size)
    <3>1. CASE m = currentPage
      BY <1>0, <1>1, <2>3, <3>1, FullPageEnds, Zenon
    <3>2. CASE m # currentPage
      <4>1. m \in 0 .. currentPage - 1
        BY <1>0, <2>4, <3>2
      <4>2. QED
        BY <2>3, <4>1, Zenon DEF TableFits, Earlier
    <3>3. QED
      BY <3>1, <3>2
  <2>6. TurnPage(Ender(n - 1), n)
    BY <1>1, <2>4
  <2> HIDE DEF n
  <2>7. QED
    BY <1>0, <1>1, <2>2, <2>4, <2>5, <2>6, TurnSteady
<1>7. QED
  BY <1>4, <1>5, <1>6, Zenon DEF PagingInv

LEMMA PrevHolds ==
  ASSUME PagingInv, PrevPage
  PROVE  PagingInv'
<1> DEFINE n == currentPage - 1
<1>0. PagingTypeOK /\ Bounded /\ (steady => SteadyInv) /\ currentPage \in Int
  BY Zenon DEF PagingInv, PagingTypeOK
<1>1. ~prevDisabled /\ nextDisabled' = FALSE /\ prevDisabled' = prevDisabled
      /\ TurnPage(Ender(currentPage - 2), n)
  BY Zenon DEF PrevPage
<1>2. Ender(currentPage - 2) \in Nat \union {Undefined} /\ n \in Int
  <2>1. currentPage - 2 \in Int /\ n \in Int
    BY <1>0
  <2>2. QED
    BY <1>0, <2>1, EnderTyped, Zenon
<1>3. prevDisabled' \in BOOLEAN /\ nextDisabled' \in BOOLEAN
  BY <1>0, <1>1 DEF PagingTypeOK
<1>4. PagingTypeOK' /\ UNCHANGED <<stored, rows>>
  BY <1>0, <1>1, <1>2, <1>3, TurnTyped, Zenon
<1>5. Bounded'
  BY <1>0, <1>4, Zenon DEF Bounded
<1>6. steady' => SteadyInv'
  <2>1. ASSUME steady' PROVE steady /\ outstanding = {}
    BY <1>1, <2>1, Zenon DEF TurnPage
  <2>2. SUFFICES ASSUME steady' PROVE SteadyInv'
    OBVIOUS
  <2>3. steady /\ currentPage >= 1 /\ TableFits /\ currentPage # 1
    <3>1. steady /\ currentPage >= 1 /\ TableFits
      BY <1>0, <2>1, <2>2, Rested
    <3>2. prevDisabled <=> currentPage = 1
      BY <3>1, Zenon DEF TableFits
    <3>3. QED
      BY <1>1, <3>1, <3>2
  <2>4. n \in Nat \ {0} /\ n \in {currentPage - 1, currentPage + 1} /\ n - 1 = currentPage - 2
    BY <1>0, <2>3
  <2>5. ASSUME NEW m \in 0 .. n - 1 PROVE EnderOK(m, shown.size)
    <3>1. m \in 0 .. currentPage - 1
      BY <1>0, <2>4
    <3>2. QED
      BY <2>3, <3>1, Zenon DEF TableFits, Earlier
  <2>6. TurnPage(Ender(n - 1), n)
    BY <1>1, <2>4
  <2> HIDE DEF n
  <2>7. QED
    BY <1>0, <1>1, <2>2, <2>4, <2>5, <2>6, TurnSteady
<1>7. QED
  BY <1>4, <1>5, <1>6, Zenon DEF PagingInv

LEMMA SelectionHolds ==
  ASSUME PagingInv, SelectionChanges
  PROVE  PagingInv'
<1>0. PagingTypeOK /\ Bounded /\ (steady => SteadyInv)
  BY Zenon DEF PagingInv
<1>1. CurrentFilter' \in Filters /\ timeFilter' \in BOOLEAN
  BY <1>0, SelectionCases
<1>2. CASE StatusInitializeAndLoad(CurrentFilter')
  <2>1. PagingTypeOK' /\ UNCHANGED <<stored, rows>>
    BY <1>0, <1>1, <1>2, LoadTyped
  <2>2. steady' => SteadyInv'
    BY <1>0, <1>1, <1>2, LoadSteady
  <2>3. Bounded'
    BY <1>0, <2>1, Zenon DEF Bounded
  <2>4. QED
    BY <2>1, <2>2, <2>3, Zenon DEF PagingInv
<1>3. CASE /\ steady' = (steady /\ outstanding = {})
           /\ UNCHANGED <<currentPage, currentPageCount, pageEnder, prevDisabled, nextDisabled,
                          rows, countLabel, shown, outstanding, stored, listing>>
  <2>1. PagingTypeOK'
    <3>1. steady' \in BOOLEAN
      BY <1>3
    <3>2. QED
      BY <1>0, <1>1, <1>3, <3>1 DEF PagingTypeOK
  <2>2. Bounded'
    BY <1>0, <1>3, Zenon DEF Bounded
  <2>3. ASSUME steady' PROVE SteadyInv'
    <3>1. outstanding = {} /\ TableFits /\ LabelFits /\ currentPage >= 1
      BY <1>0, <1>3, <2>3, Rested
    <3>2. shown'.size <= stored'[listing'.queue]
      BY <1>3, <3>1, Zenon DEF TableFits
    <3>3. TableFits'
      BY <1>3, <3>1, <3>2, TableKept, Zenon
    <3>4. LabelFits'
      BY <1>3, <3>1, Zenon DEF LabelFits
    <3>5. QED
      BY <1>3, <3>1, <3>3, <3>4, Zenon DEF SteadyInv
  <2>4. QED
    BY <2>1, <2>2, <2>3, Zenon DEF PagingInv
<1>4. QED
  BY <1>0, <1>2, <1>3, SelectionCases, Zenon

LEMMA AnswerHolds ==
  ASSUME PagingInv, NEW r \in outstanding, PageAnswer(r) \/ CountAnswer(r) \/ PageFails(r)
  PROVE  PagingInv'
<1>0. PagingTypeOK /\ Bounded
  BY Zenon DEF PagingInv
<1>1. CASE PageAnswer(r)
  <2>1. PagingTypeOK' /\ Bounded' /\ steady' = steady
    BY <1>0, <1>1, PageAnswered
  <2>2. steady => SteadyInv'
    BY <1>1, PageSteady, Zenon
  <2>3. QED
    BY <2>1, <2>2, Zenon DEF PagingInv
<1>2. CASE CountAnswer(r)
  <2>1. PagingTypeOK' /\ steady' = steady /\ UNCHANGED <<rows, stored>>
    BY <1>0, <1>2, CountAnswered
  <2>2. steady => SteadyInv'
    BY <1>2, CountSteady, Zenon
  <2>3. Bounded'
    BY <1>0, <2>1, Zenon DEF Bounded
  <2>4. QED
    BY <2>1, <2>2, <2>3, Zenon DEF PagingInv
<1>3. CASE PageFails(r)
  BY <1>0, <1>3, FailTyped, Zenon DEF PagingInv
<1>4. QED
  BY <1>1, <1>2, <1>3

LEMMA PublishHolds ==
  ASSUME PagingInv, NEW q \in QueueOptions, Publish(q)
  PROVE  PagingInv'
<1>1. PagingTypeOK' /\ Bounded'
  BY PublishTyped, Zenon DEF PagingInv
<1>2. steady' = steady
  BY Zenon DEF Publish
<1>3. steady => SteadyInv'
  BY PublishSteady, Zenon
<1>4. QED
  BY <1>1, <1>2, <1>3, Zenon DEF PagingInv

LEMMA PagingStutters ==
  ASSUME PagingInv, UNCHANGED pagingVars
  PROVE  PagingInv'
<1>0. PagingTypeOK /\ Bounded /\ (steady => SteadyInv)
  BY Zenon DEF PagingInv
<1>1. UNCHANGED <<queue, duration, filteredByTime, timeFilter, currentPage, currentPageCount,
                  pageEnder, prevDisabled, nextDisabled, rows, countLabel, shown, outstanding,
                  stored, listing, steady>>
  BY Zenon DEF pagingVars, selection, paging, display
<1>2. CurrentFilter' = CurrentFilter
  BY <1>1, Zenon DEF CurrentFilter
<1>3. PagingTypeOK' /\ Bounded'
  BY <1>0, <1>1, <1>2, Zenon DEF PagingTypeOK, Bounded
<1>4. ASSUME TableFits PROVE TableFits'
  <2>1. shown'.size <= stored'[listing'.queue]
    BY <1>1, <1>4, Zenon DEF TableFits
  <2>2. QED
    BY <1>1, <1>4, <2>1, TableKept, Zenon
<1>5. CASE outstanding = {} /\ TableFits /\ LabelFits
  <2>1. LabelFits'
    BY <1>1, <1>5, Zenon DEF LabelFits
  <2>2. steady => SteadyInv'
    BY <1>0, <1>1, <1>4, <1>5, <2>1, Zenon DEF SteadyInv
  <2>3. QED
    BY <1>1, <1>3, <2>2, Zenon DEF PagingInv
<1>6. ASSUME NEW r \in outstanding, CountAsked(r) PROVE CountAsked(r)'
  BY <1>1, <1>2, <1>4, <1>6, Zenon DEF CountAsked
<1>7. ASSUME NEW r \in outstanding, PageAsked(r) PROVE PageAsked(r)'
  <2>1. Earlier(stored[listing.queue])
    BY <1>7, Zenon DEF PageAsked
  <2>2. ASSUME NEW n \in 0 .. currentPage' - 1 PROVE EnderOK(n, stored[listing.queue])'
    <3>1. EnderOK(n, stored[listing.queue])
      BY <1>1, <2>1, Zenon DEF Earlier
    <3>2. QED
      BY <1>1, <3>1, Zenon DEF EnderOK, Upto
  <2>3. pageEnder'[0] = 0
    BY <1>1, <2>1, Zenon DEF Earlier
  <2>4. Earlier(stored[listing.queue])'
    BY <2>2, <2>3, Zenon DEF Earlier
  <2>5. QED
    BY <1>1, <1>2, <1>7, <2>4, Zenon DEF PageAsked
<1>8. SteadyInv => \/ outstanding = {} /\ TableFits /\ LabelFits
                   \/ \E r \in outstanding' : CountAsked(r)' \/ PageAsked(r)'
  BY <1>1, <1>6, <1>7, Zenon DEF SteadyInv
<1>9. ASSUME \E r \in outstanding' : CountAsked(r)' \/ PageAsked(r)', SteadyInv PROVE SteadyInv'
  BY <1>1, <1>9, Zenon DEF SteadyInv
<1>10. QED
  BY <1>0, <1>1, <1>3, <1>5, <1>8, <1>9, Zenon DEF PagingInv

LEMMA PagingStep == PagingInv /\ [PagingNext]_pagingVars => PagingInv'
<1> SUFFICES ASSUME PagingInv, [PagingNext]_pagingVars PROVE PagingInv'
  OBVIOUS
<1>1. CASE NextPage
  BY <1>1, NextHolds
<1>2. CASE PrevPage
  BY <1>2, PrevHolds
<1>3. CASE SelectionChanges
  BY <1>3, SelectionHolds
<1>4. ASSUME NEW r \in outstanding, PageAnswer(r) \/ CountAnswer(r) \/ PageFails(r)
      PROVE  PagingInv'
  BY <1>4, AnswerHolds
<1>5. ASSUME NEW q \in QueueOptions, Publish(q) PROVE PagingInv'
  BY <1>5, PublishHolds
<1>6. CASE UNCHANGED pagingVars
  BY <1>6, PagingStutters
<1>7. QED
  BY <1>1, <1>2, <1>3, <1>4, <1>5, <1>6, Zenon DEF PagingNext, SelectionChanges

-----------------------------------------------------------------------------
(* What the user may rely on                                               *)

(* The rows of a page that is not empty, from the first to the last.       *)
LEMMA RowsRanked ==
  ASSUME PagingTypeOK, TableFits, currentPage >= 1, rows # {}
  PROVE  /\ \E first \in rows : Spans(first, LastId(rows), rows)
         /\ \A first : Spans(first, LastId(rows), rows) =>
              Ranked(first, LastId(rows), listing, currentPage, shown.size)
<1>1. /\ shown.size \in Nat /\ currentPage \in Nat \ {0} /\ currentPage \in Int
      /\ currentPage - 1 \in 0 .. currentPage - 1
  BY TypeParts DEF PagingTypeOK
<1>2. rows = PageOf(listing, currentPage, shown.size) /\ Earlier(shown.size)
  BY Zenon DEF TableFits
<1>3. rows \in SUBSET (1 .. shown.size)
  BY <1>1, <1>2, PageOfFacts, Zenon
<1>4. EnderOK(currentPage - 1, shown.size)
  BY <1>1, <1>2, Zenon DEF Earlier
<1>5. PICK min \in Nat : Upto(listing, min) = (currentPage - 1) * PageLimit
  BY <1>1, <1>4 DEF EnderOK
<1>6. \E first \in rows : Spans(first, LastId(rows), rows)
  BY <1>1, <1>3, SpansExist, Zenon
<1>7. ASSUME NEW first, Spans(first, LastId(rows), rows)
      PROVE  Ranked(first, LastId(rows), listing, currentPage, shown.size)
  BY <1>1, <1>2, <1>5, <1>7, PageEnds, Zenon
<1>8. QED
  BY <1>6, <1>7, Zenon

LEMMA FitsShown ==
  ASSUME PagingInv, steady, Turning = {}
  PROVE  TableFits /\ currentPage >= 1 /\ (outstanding = {} => LabelFits)
<1>1. SteadyInv
  BY Zenon DEF PagingInv
<1>2. ASSUME NEW r \in outstanding, PageAsked(r) PROVE FALSE
  BY <1>2 DEF PageAsked, Turning
<1>3. \A r \in outstanding : CountAsked(r) => TableFits /\ outstanding # {}
  BY Zenon DEF CountAsked
<1>4. QED
  BY <1>1, <1>2, <1>3, Zenon DEF SteadyInv

LEMMA PagingImplies == PagingInv => ShownAsSelected
<1> SUFFICES ASSUME PagingInv PROVE ShownAsSelected
  OBVIOUS
<1>1. PagingTypeOK
  BY Zenon DEF PagingInv
<1>2. shown.size \in Nat
  BY <1>1, TypeParts
<1>3. PageShown
  <2> SUFFICES ASSUME steady, Turning = {}
               PROVE  /\ rows = PageOf(listing, currentPage, shown.size)
                      /\ currentPage >= 1
                      /\ prevDisabled <=> currentPage = 1
                      /\ nextDisabled <=> Cardinality(rows) < PageLimit
    BY Zenon DEF PageShown
  <2>1. TableFits /\ currentPage >= 1
    BY FitsShown, Zenon
  <2>2. QED
    BY <2>1, Zenon DEF TableFits
<1>4. EndersChain
  <2> SUFFICES ASSUME steady, Turning = {}
               PROVE  /\ pageEnder[0] = 0
                      /\ \A n \in 1 .. currentPage :
                           PageOf(listing, n, shown.size) # {} =>
                             /\ n \in DOMAIN pageEnder
                             /\ pageEnder[n] = LastId(PageOf(listing, n, shown.size))
    BY Zenon DEF EndersChain
  <2>1. TableFits /\ currentPage >= 1 /\ currentPage \in Nat
    BY <1>1, FitsShown DEF PagingTypeOK
  <2>2. /\ Earlier(shown.size) /\ rows = PageOf(listing, currentPage, shown.size)
        /\ rows # {} => currentPage \in DOMAIN pageEnder /\ pageEnder[currentPage] = LastId(rows)
    BY <2>1, Zenon DEF TableFits
  <2>3. ASSUME NEW n \in 1 .. currentPage, PageOf(listing, n, shown.size) # {}
        PROVE  /\ n \in DOMAIN pageEnder
               /\ pageEnder[n] = LastId(PageOf(listing, n, shown.size))
    <3>1. CASE n = currentPage
      BY <2>2, <2>3, <3>1, Zenon
    <3>2. CASE n # currentPage
      <4>1. n \in 0 .. currentPage - 1 /\ n \in Nat \ {0}
        BY <2>1, <3>2
      <4>2. EnderOK(n, shown.size)
        BY <2>2, <4>1, Zenon DEF Earlier
      <4>3. PICK end : end = pageEnder[n]
        OBVIOUS
      <4>4. /\ n \in DOMAIN pageEnder /\ end \in 0 .. shown.size
            /\ Upto(listing, end) = n * PageLimit /\ end \in Matching(listing, end)
        BY <4>1, <4>2, <4>3 DEF EnderOK
      <4>5. end \in 1 .. end
        BY <1>2, <4>4, MatchingFacts
      <4>6. end \in 1 .. shown.size
        BY <1>2, <4>4, <4>5
      <4>7. LastId(PageOf(listing, n, shown.size)) = end
        BY <1>2, <4>1, <4>4, <4>6, FullPageStays
      <4>8. QED
        BY <4>3, <4>4, <4>7
    <3>3. QED
      BY <3>1, <3>2
  <2>4. QED
    BY <2>2, <2>3, Zenon DEF Earlier
<1>5. LabelRight
  <2> DEFINE ids == Matching(listing, shown.size)
             low == CHOOSE i \in rows : \A j \in rows : i <= j
  <2> SUFFICES ASSUME steady, outstanding = {}, rows # {}
               PROVE  /\ countLabel.from = RankIn(ids, low)
                      /\ countLabel.to = RankIn(ids, LastId(rows))
                      /\ countLabel.of >= countLabel.to
    BY Zenon DEF LabelRight
  <2>1. Turning = {}
    BY DEF Turning
  <2>2. TableFits /\ currentPage >= 1 /\ LabelFits
    BY <2>1, FitsShown, Zenon
  <2>3. low \in rows /\ \A j \in rows : low <= j
    <3>1. rows \in SUBSET Nat
      BY <1>1 DEF PagingTypeOK
    <3>2. QED
      BY <3>1, FirstExists
  <2> HIDE DEF low
  <2>4. LastId(rows) \in rows /\ \A j \in rows : j <= LastId(rows)
    <3>1. PICK first \in rows : Spans(first, LastId(rows), rows)
      BY <1>1, <2>2, RowsRanked, Zenon
    <3>2. QED
      BY <3>1, Zenon DEF Spans
  <2>5. Spans(low, LastId(rows), rows)
    BY <2>3, <2>4, Zenon DEF Spans
  <2>6. Ranked(low, LastId(rows), listing, currentPage, shown.size)
    BY <1>1, <2>2, <2>5, RowsRanked, Zenon
  <2>7. rows = PageOf(listing, currentPage, shown.size)
    BY <2>2, Zenon DEF TableFits
  <2>8. /\ RankIn(ids, low) = (currentPage - 1) * PageLimit + 1
        /\ RankIn(ids, LastId(rows)) = (currentPage - 1) * PageLimit + Cardinality(rows)
    BY <2>6, <2>7, Zenon DEF Ranked
  <2>9. QED
    BY <2>2, <2>8, Zenon DEF LabelFits
<1>6. QED
  BY <1>1, <1>3, <1>4, <1>5 DEF ShownAsSelected

(* Whatever the user and the network did before, once every request is     *)
(* answered and none failed since the list was opened, the table holds     *)
(* page currentPage of the list, the buttons are enabled where there is a  *)
(* neighbour, pageEnder holds the ends of the pages so far, and the label  *)
(* gives the positions of the rows: stats.js, for every page size, every   *)
(* set of queues and durations, and any number of messages published.      *)
THEOREM PageShownAsSelected == PagingSpec => []ShownAsSelected
<1>1. PagingSpec => []PagingInv
  BY PagingInitHolds, PagingStep, PTL DEF PagingSpec
<1>2. QED
  BY <1>1, PagingImplies, PTL

-----------------------------------------------------------------------------
(* The abstract list                                                       *)

LEMMA ListInitHolds == PagingInit => List!ListInit
<1> SUFFICES ASSUME PagingInit PROVE List!ListInit
  OBVIOUS
<1>1. PagingInv
  BY PagingInitHolds
<1>2. shown = [filter |-> CurrentFilter, page |-> 1, size |-> 0, steady |-> FALSE]
  BY Zenon DEF PagingInit
<1>3. shown.filter \in Filters /\ rows \in SUBSET (1 .. MaxStored)
  BY <1>1, TypeParts DEF PagingInv, Bounded
<1>4. shown.page = 1 /\ ~shown.steady
  BY <1>2
<1>5. QED
  BY <1>3, <1>4, Zenon DEF List!ListInit

(* Only an answer with a page fills the table: it opens the list or turns  *)
(* a page of it when the user waited, and else the promise lapses.         *)
LEMMA PageAnswerLists ==
  ASSUME PagingInv, NEW r \in outstanding, PageAnswer(r)
  PROVE  List!ListNext
<1> PICK out : out = Following(Matching(r.filter, stored[r.filter.queue]), r.min)
  OBVIOUS
<1>0. PagingTypeOK /\ Bounded
  BY Zenon DEF PagingInv
<1>1. /\ PagingTypeOK' /\ out \in SUBSET (1 .. MaxStored) /\ rows' = out
      /\ shown'.size \in 0 .. MaxStored /\ shown'.steady = steady
  BY <1>0, PageAnswered
<1>2. shown'.filter \in Filters /\ shown'.page \in Int
  BY <1>1 DEF PagingTypeOK
<1>3. CASE ~steady
  <2>1. List!Lapse
    BY <1>1, <1>2, <1>3 DEF List!Lapse
  <2>2. QED
    BY <2>1, Zenon DEF List!ListNext
<1>4. CASE steady
  <2>1. /\ rows' = PageOf(listing, currentPage, shown'.size)
        /\ shown'.filter = listing /\ shown'.page = currentPage /\ shown'.steady
        /\ \/ currentPage = 1
           \/ /\ shown.steady /\ shown.filter = listing /\ currentPage > 0
              /\ shown.page \in {currentPage - 1, currentPage + 1}
    BY <1>4, PageSteady
  <2>2. CASE currentPage = 1
    <3>1. List!Open(listing)
      BY <1>1, <2>1, <2>2, Zenon DEF List!Open, List!Shows
    <3>2. listing \in Filters
      BY <1>0, TypeParts
    <3>3. QED
      BY <3>1, <3>2, Zenon DEF List!ListNext
  <2>3. CASE /\ shown.steady /\ shown.filter = listing /\ currentPage > 0
             /\ shown.page \in {currentPage - 1, currentPage + 1}
    <3>1. currentPage \in {shown.page - 1, shown.page + 1} /\ shown'.filter = shown.filter
          /\ shown'.steady = shown.steady
      <4>1. currentPage \in Int
        BY <1>0 DEF PagingTypeOK
      <4>2. shown.steady \in BOOLEAN /\ shown'.steady \in BOOLEAN
        BY <1>0, <1>1 DEF PagingTypeOK
      <4>3. QED
        BY <2>1, <2>3, <4>1, <4>2
    <3>2. \E size \in 0 .. MaxStored : rows' = PageOf(shown.filter, currentPage, size)
      BY <1>1, <2>1, <2>3, Zenon
    <3>3. List!Turn(currentPage)
      BY <2>1, <2>3, <3>1, <3>2, Zenon DEF List!Turn, List!Shows
    <3>4. List!Turn(shown.page + 1) \/ List!Turn(shown.page - 1)
      BY <3>1, <3>3
    <3>5. QED
      BY <3>4, Zenon DEF List!ListNext
  <2>4. QED
    BY <2>1, <2>2, <2>3
<1>5. QED
  BY <1>3, <1>4

LEMMA ListStep ==
  ASSUME PagingInv, [PagingNext]_pagingVars
  PROVE  [List!ListNext]_(List!listVars)
<1>1. ASSUME rows' = rows /\ shown' = shown PROVE UNCHANGED List!listVars
  BY <1>1 DEF List!listVars
<1>2. ASSUME NEW r \in outstanding, PageAnswer(r) PROVE List!ListNext
  BY <1>2, PageAnswerLists
<1>3. ASSUME NEW min, NEW n, TurnPage(min, n) PROVE rows' = rows /\ shown' = shown
  BY <1>3, Zenon DEF TurnPage, display
<1>4. ASSUME NextPage \/ PrevPage PROVE rows' = rows /\ shown' = shown
  BY <1>3, <1>4, Zenon DEF NextPage, PrevPage
<1>5. ASSUME SelectionChanges PROVE rows' = rows /\ shown' = shown
  <2>1. PagingTypeOK
    BY Zenon DEF PagingInv
  <2>2. ASSUME NEW f, StatusInitializeAndLoad(f) PROVE rows' = rows /\ shown' = shown
    BY <2>2, Zenon DEF StatusInitializeAndLoad, display
  <2>3. QED
    BY <1>5, <2>1, <2>2, SelectionCases, Zenon
<1>6. ASSUME NEW r \in outstanding, CountAnswer(r) \/ PageFails(r)
      PROVE  rows' = rows /\ shown' = shown
  BY <1>6, Zenon DEF CountAnswer, PageFails, display
<1>7. ASSUME NEW q \in QueueOptions, Publish(q) PROVE rows' = rows /\ shown' = shown
  BY <1>7, Zenon DEF Publish, display
<1>8. ASSUME UNCHANGED pagingVars PROVE rows' = rows /\ shown' = shown
  BY <1>8, Zenon DEF pagingVars, display
<1>9. List!ListNext \/ (rows' = rows /\ shown' = shown)
  BY <1>2, <1>4, <1>5, <1>6, <1>7, <1>8, Zenon DEF PagingNext, SelectionChanges
<1>10. QED
  BY <1>1, <1>9, Zenon

(* The page implements the list: every table that is filled is the first   *)
(* page of a list that was just opened, or the neighbour of the page       *)
(* before in the same list, or one that nothing is promised of because the *)
(* user did not wait or an answer was lost.                                *)
THEOREM PageImplementsList == PagingSpec => ImplementsList
<1>1. PagingSpec => []PagingInv
  BY PagingInitHolds, PagingStep, PTL DEF PagingSpec
<1>2. PagingInit => List!ListInit
  BY ListInitHolds
<1>3. PagingInv /\ [PagingNext]_pagingVars => [List!ListNext]_(List!listVars)
  BY ListStep
<1>4. QED
  BY <1>1, <1>2, <1>3, PTL DEF PagingSpec, ImplementsList, List!ListSpec
=============================================================================
