------------------------------- MODULE RateChart -------------------------------
(***************************************************************************)
(* How the message rate page (stats.js, message_rate.jsp) collects the     *)
(* data of its chart: a chain of asynchronous requests for the publish,    *)
(* delivery and acknowledgement times, each in pages of dataLimit          *)
(* messages, that fills the global currentOutput and draws the chart at    *)
(* its end.  Every request reads the two list boxes anew, and choosing     *)
(* something else starts another chain beside the ones still running.      *)
(*                                                                         *)
(* The list boxes are one choice here, a choice has messages 1 .. Count,   *)
(* and a list is the set of messages it holds; how the lists become points *)
(* is in RateData.                                                         *)
(***************************************************************************)
EXTENDS Integers, FiniteSets

CONSTANTS
  Options,    (* what the list boxes can be set to                         *)
  Count,      (* Count[c][s]: messages of choice c with a change to s      *)
  DataLimit,  (* messages per answer: dataLimit, 10000                     *)
  MaxChains,  (* bound on the number of chains started                     *)
  MaxToggles, (* bound on the clicks on the check boxes                    *)
  NoChart     (* value of chart before the first drawing                   *)

Statuses == {"Published", "Delivered", "Acknowledged"}

ASSUME ChartAssumption ==
  /\ Count \in [Options -> [Statuses -> Nat]]
  /\ DataLimit \in Nat \ {0} /\ MaxChains \in Nat /\ MaxToggles \in Nat

VARIABLES
  selected,       (* the chosen entry of the list boxes                    *)
  currentOutput,  (* per status the list stored last, {} if none           *)
  awaited,        (* the outstanding request of each running chain         *)
  chart,          (* the lists the chart was drawn from, NoChart if none   *)
  graphs,         (* the graphs that are part of the chart                 *)
  checked,        (* the ticked check boxes                                *)
  chains,         (* chains started so far                                 *)
  toggles,        (* clicks on the check boxes so far                      *)
  (* history variable *)
  undisturbed     (* the last chain started alone, and nothing has failed  *)

chartVars == <<selected, currentOutput, awaited, chart, graphs, checked, chains, toggles,
               undisturbed>>

ListOf(c, s) == {[of |-> c, status |-> s, id |-> i] : i \in 1 .. Count[c][s]}

(* The server's answer: the next DataLimit messages after id min.          *)
AnswerTo(r) ==
  LET s == IF r.kind = "byStatus" THEN r.status ELSE "Published"
  IN {m \in ListOf(r.of, s) : r.min < m.id /\ m.id <= r.min + DataLimit}

Request(kind, chain, s, c, min, found) ==
  [kind |-> kind, chain |-> chain, status |-> s, of |-> c, min |-> min, found |-> found]

(* loadGraphData, on loading the page or choosing c.                       *)
Started(chain, c) == Request("byStatus", chain, "Published", c, 0, {})

ChartInit ==
  /\ selected \in Options
  /\ currentOutput = [s \in Statuses |-> {}]
  /\ awaited = {Started(1, selected)}
  /\ chart = NoChart
  /\ graphs = {}
  /\ checked = {"Published"}
  /\ chains = 1
  /\ toggles = 0
  /\ undisturbed = TRUE

-----------------------------------------------------------------------------

LoadGraphData(c) ==
  /\ chains < MaxChains
  /\ c # selected
  /\ selected' = c
  /\ currentOutput' = [s \in Statuses |-> {}]
  /\ chains' = chains + 1
  /\ awaited' = awaited \union {Started(chains + 1, c)}
  /\ undisturbed' = (awaited = {})
  /\ UNCHANGED <<chart, graphs, checked, toggles>>

(* The chart gets all its graphs anew, as checkStatusCheckBoxes finds the  *)
(* boxes.                                                                  *)
DrawChart(output) ==
  /\ chart' = output
  /\ graphs' = checked

(* Mutant: the acknowledged list is stored too late.                     *)
StatusCompleteOld(r, found) ==
  LET next == IF r.status = "Published" THEN "Delivered" ELSE "Acknowledged"
  IN /\ currentOutput' = [currentOutput EXCEPT ![r.status] = found]
     /\ IF r.status = "Acknowledged"
          THEN /\ awaited' = awaited \ {r}
               /\ DrawChart(currentOutput)
          ELSE /\ awaited' = (awaited \ {r}) \union
                                {Request("byStatus", r.chain, next, selected, 0, {})}
               /\ UNCHANGED <<chart, graphs>>

(* Mutant: after the deliveries the chain starts over.                   *)
StatusCompleteRound(r, found) ==
  LET next == IF r.status = "Published" THEN "Delivered" ELSE "Published"
  IN /\ currentOutput' = [currentOutput EXCEPT ![r.status] = found]
     /\ IF r.status = "Acknowledged"
          THEN /\ awaited' = awaited \ {r}
               /\ DrawChart(currentOutput')
          ELSE /\ awaited' = (awaited \ {r}) \union
                                {Request("byStatus", r.chain, next, selected, 0, {})}
               /\ UNCHANGED <<chart, graphs>>

(* prepareChartDataByStatus, a short answer: the list is complete and the  *)
(* chain goes on to the next status, reading the list boxes again.         *)
StatusComplete(r, found) ==
  LET next == IF r.status = "Published" THEN "Delivered" ELSE "Acknowledged"
  IN /\ currentOutput' = [currentOutput EXCEPT ![r.status] = found]
     /\ IF r.status = "Acknowledged"
          THEN /\ awaited' = awaited \ {r}
               /\ DrawChart(currentOutput')
          ELSE /\ awaited' = (awaited \ {r}) \union
                                {Request("byStatus", r.chain, next, selected, 0, {})}
               /\ UNCHANGED <<chart, graphs>>

(* A full answer: the chain goes on with prepareChartData.                 *)
MoreToCome(r, found) ==
  /\ awaited' = (awaited \ {r}) \union
       {Request("all", r.chain, r.status, selected, r.min + DataLimit, found)}
  /\ UNCHANGED <<currentOutput, chart, graphs>>

(* prepareChartData, a short answer: the chart is drawn from currentOutput *)
(* as it is; what this function has collected is not used.                 *)
AllComplete(r) ==
  /\ awaited' = awaited \ {r}
  /\ DrawChart(currentOutput)
  /\ UNCHANGED currentOutput

DataAnswer(r) ==
  LET output == AnswerTo(r)
      found == r.found \union output
  IN /\ IF Cardinality(output) < DataLimit
          THEN IF r.kind = "byStatus" THEN StatusComplete(r, found) ELSE AllComplete(r)
          ELSE MoreToCome(r, found)
     /\ UNCHANGED <<selected, checked, chains, toggles, undisturbed>>

DataFails(r) ==
  /\ awaited' = awaited \ {r}
  /\ undisturbed' = FALSE
  /\ UNCHANGED <<selected, currentOutput, chart, graphs, checked, chains, toggles>>

(* addRemovePublishData and its two sisters.  Before the first drawing     *)
(* there is no chart object: the handler throws, the box stays as clicked. *)
AddRemoveData(s) ==
  /\ toggles < MaxToggles
  /\ toggles' = toggles + 1
  /\ checked' = IF s \in checked THEN checked \ {s} ELSE checked \union {s}
  /\ graphs' = IF chart = NoChart THEN graphs
               ELSE IF s \in checked THEN graphs \ {s} ELSE graphs \union {s}
  /\ UNCHANGED <<selected, currentOutput, awaited, chart, chains, undisturbed>>

ChartNext ==
  \/ \E c \in Options : LoadGraphData(c)
  \/ \E r \in awaited : DataAnswer(r) \/ DataFails(r)
  \/ \E s \in Statuses : AddRemoveData(s)

(* Every request is answered or fails in the end.                          *)
ChainStep(n) == \E r \in awaited : r.chain = n /\ (DataAnswer(r) \/ DataFails(r))

ChartSpec == /\ ChartInit /\ [][ChartNext]_chartVars
             /\ \A n \in 1 .. MaxChains : WF_chartVars(ChainStep(n))

-----------------------------------------------------------------------------

Lists == [Statuses -> SUBSET UNION {ListOf(c, s) : c \in Options, s \in Statuses}]

ASSUME NoChartAssumption == NoChart \notin Lists

ChartTypeOK ==
  /\ selected \in Options
  /\ currentOutput \in Lists
  /\ \A r \in awaited : /\ r.kind \in {"byStatus", "all"} /\ r.chain \in 1 .. chains
                         /\ r.status \in Statuses /\ r.of \in Options /\ r.min \in Nat
  /\ \A r, q \in awaited : r.chain = q.chain => r = q
  /\ chart = NoChart \/ chart \in Lists
  /\ graphs \subseteq Statuses /\ checked \subseteq Statuses
  /\ undisturbed \in BOOLEAN

Short(c) == \A s \in Statuses : Count[c][s] < DataLimit

(* When the last choice was made with no request outstanding, and its      *)
(* lists each fit one answer, the chart that stands in the end shows all   *)
(* three lists of that choice, whatever was mixed up before.               *)
ChartOfSelection ==
  undisturbed /\ awaited = {} /\ Short(selected) =>
    \A s \in Statuses : chart # NoChart /\ chart[s] = ListOf(selected, s)

(* The graphs in the chart are the ticked ones, also when boxes were       *)
(* clicked before the first drawing or while a chain runs.                 *)
TickedGraphs == chart # NoChart => graphs = checked

(* What the rate page promises to a user who waits: the chart of the       *)
(* selection, with the graphs that are ticked.                             *)
ChartAsChosen ==
  /\ ChartTypeOK
  /\ ChartOfSelection
  /\ TickedGraphs

(* Every chain comes to its end.                                           *)
ChainsEnd ==
  \A n \in 1 .. MaxChains :
    (\E r \in awaited : r.chain = n) ~> ~(\E r \in awaited : r.chain = n)
=============================================================================
