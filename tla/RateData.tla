------------------------------- MODULE RateData -------------------------------
(***************************************************************************)
(* How the message rate page turns three lists of time stamps into the     *)
(* points of three line graphs (stats.js, generateChartData): per second   *)
(* with events a point with their number, zero points at the edges of the  *)
(* gaps between them, and zero points that stretch the graphs towards a    *)
(* common range.  Time stamps are whole seconds (the server rounds them),  *)
(* so 1000 milliseconds of the code are 1 here; the order of the points    *)
(* in chartData and the drawing are left out.                              *)
(***************************************************************************)
EXTENDS Integers, Sequences, FiniteSets

CONSTANTS
  LastSecond,   (* bound: the events happen in seconds 1 .. LastSecond     *)
  MaxMessages,  (* bound on the number of messages                         *)
  NoDate        (* an undefined Date, or the boundary that is never reached*)

ASSUME RateAssumption == LastSecond \in Nat /\ MaxMessages \in Nat /\ NoDate \notin Nat

VARIABLES
  received,       (* per status the seconds of the messages, 0 = not yet   *)
  chartData       (* per status the points of its graph, {} before drawing *)

rateVars == <<received, chartData>>

RateStatuses == {"Published", "Delivered", "Acknowledged"}

(* A message is published, then possibly delivered, then acknowledged.     *)
Histories == {h \in [RateStatuses -> 0 .. LastSecond] :
                /\ h["Published"] > 0
                /\ h["Delivered"] = 0 \/ h["Delivered"] >= h["Published"]
                /\ h["Acknowledged"] = 0 \/ h["Acknowledged"] >= h["Delivered"]
                /\ h["Delivered"] = 0 => h["Acknowledged"] = 0}

(* The server lists, status by status, the changes after second since.     *)
ListedSince(messages, status, since) ==
  [i \in 1 .. Len(messages) |->
     IF messages[i][status] > since THEN messages[i][status] ELSE 0]

RateInit ==
  /\ \E n \in 0 .. MaxMessages : \E messages \in [1 .. n -> Histories] :
       \E since \in 0 .. 1 :
         received = [s \in RateStatuses |-> ListedSince(messages, s, since)]
  /\ chartData = [s \in RateStatuses |-> {}]

-----------------------------------------------------------------------------

Point(date, n) == [date |-> date, n |-> n]

(* How many messages came to s in the seconds 1 .. t.                      *)
EventsUpTo(s, t) == Cardinality({i \in DOMAIN received[s] : received[s][i] \in 1 .. t})

(* The seconds of the events of one status, sorted: the i-th event is in   *)
(* the second before which there are fewer than i.                         *)
RateTimes(s) ==
  [i \in 1 .. EventsUpTo(s, LastSecond) |->
     CHOOSE t \in 1 .. LastSecond : i <= EventsUpTo(s, t) /\ EventsUpTo(s, t - 1) < i]

(* Mutant: a gap is closed on one side only.                             *)
GapFillOne(t, u) ==
  {Point(date, 0) : date \in (IF u - t > 1 THEN {t + 1} ELSE {}) \union
                             (IF u - t > 2 THEN {} ELSE {})}

(* Zero points between two adjacent seconds with events.                   *)
GapFill(t, u) ==
  {Point(date, 0) : date \in (IF u - t > 1 THEN {t + 1} ELSE {}) \union
                             (IF u - t > 2 THEN {u - 1} ELSE {})}

CountOne(acc, t) ==
  IF t = acc.unit
    THEN [acc EXCEPT !.count = @ + 1]
    ELSE [unit |-> t, count |-> 1,
          points |-> acc.points \union {Point(acc.unit, acc.count)} \union GapFill(acc.unit, t)]

(* One of the three loops.  The last point is entered even for an empty    *)
(* list, with an undefined date.                                           *)
RatePoints(times) ==
  LET start == [unit |-> IF times = <<>> THEN NoDate ELSE times[1], count |-> 0, points |-> {}]
      after[i \in 0 .. Len(times)] == IF i = 0 THEN start ELSE CountOne(after[i - 1], times[i])
      end == after[Len(times)]
  IN end.points \union {Point(end.unit, end.count)}

Latest(times) == times[Len(times)]

LowerBoundary ==
  LET times == RateTimes("Published")
  IN IF times = <<>> THEN NoDate ELSE times[1]

UpperBoundary ==
  LET times == RateTimes("Acknowledged")
  IN IF times = <<>> THEN 0 ELSE Latest(times)

(* A comparison with an undefined first or last point is false.            *)
StretchDown(s) ==
  LET times == RateTimes(s)
  IN IF s # "Published" /\ times # <<>> /\ LowerBoundary # NoDate /\ times[1] > LowerBoundary
       THEN {Point(LowerBoundary, 0), Point(times[1] - 1, 0)}
       ELSE {}

StretchUp(s) ==
  LET times == RateTimes(s)
  IN IF s # "Acknowledged" /\ times # <<>> /\ Latest(times) < UpperBoundary
       THEN {Point(Latest(times) + 1, 0), Point(UpperBoundary, 0)}
       ELSE {}

GenerateChartData ==
  /\ chartData = [s \in RateStatuses |-> {}]
  /\ chartData' = [s \in RateStatuses |->
                     RatePoints(RateTimes(s)) \union StretchDown(s) \union StretchUp(s)]
  /\ UNCHANGED received

RateSpec == RateInit /\ [][GenerateChartData]_rateVars

-----------------------------------------------------------------------------

RateTypeOK ==
  /\ received \in [RateStatuses -> Seq(0 .. LastSecond)]
  /\ \A s \in RateStatuses :
       chartData[s] \subseteq [date : (1 .. LastSecond) \union {NoDate}, n : 0 .. MaxMessages]

Dated(s) == {p \in chartData[s] : p.date # NoDate}
Events(s, t) == Cardinality({i \in DOMAIN received[s] : received[s][i] = t})

(* p and q are neighbours on the line through the points of s, with        *)
(* second t between them.                                                  *)
Neighbours(s, p, q, t) ==
  /\ p.date <= t /\ t <= q.date
  /\ \A r \in Dated(s) : ~(p.date < r.date /\ r.date < q.date)
  /\ p.date = q.date => p = q \/ p.date = t

(* The line drawn through the points of a graph is, at every second it     *)
(* covers, the number of events of that second: the zero points suffice    *)
(* to keep the line on the ground between two peaks, and no date gets two  *)
(* values.                                                                 *)
LineIsRate ==
  \A s \in RateStatuses : \A p, q \in Dated(s) : \A t \in 1 .. LastSecond :
    Neighbours(s, p, q, t) =>
      IF p.date = q.date THEN p = q /\ p.n = Events(s, t)
      ELSE p.n * (q.date - t) + q.n * (t - p.date) = Events(s, t) * (q.date - p.date)

Covers(s, from, to) ==
  /\ \E p \in Dated(s) : p.date = from
  /\ \E p \in Dated(s) : p.date = to
  /\ \A p \in Dated(s) : from <= p.date /\ p.date <= to

Drawn == chartData # [s \in RateStatuses |-> {}]

(* If the last event of the chart is an acknowledgement, the three graphs  *)
(* run from the first publication to that acknowledgement.                 *)
AcknowledgedRange ==
  LET lower == LowerBoundary
      upper == UpperBoundary
      Within(times) == times # <<>> /\ times[1] >= lower /\ Latest(times) <= upper
  IN Drawn /\ (\A s \in RateStatuses : Within(RateTimes(s)))
       => \A s \in RateStatuses : Covers(s, lower, upper)

(* What the graphs drawn promise: the rate of the events and one range of  *)
(* the acknowledgements.                                                   *)
RatesAsCounted ==
  /\ RateTypeOK
  /\ LineIsRate
  /\ AcknowledgedRange
=============================================================================
