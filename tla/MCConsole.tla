------------------------------ MODULE MCConsole ------------------------------
(***************************************************************************)
(* The pages of the console, and the parts of the server behind them that  *)
(* no other model has: the registries of the tenants and the start of the  *)
(* broker. They share no state. A browser has one page open, in opened,    *)
(* and the scripts of the others do not run, so an instance of each part   *)
(* is checked beside the others, at rest.                                  *)
(*                                                                         *)
(* Queue pages: two tabs of one session; the user may change the           *)
(* permissions of q1, not those of q2, and bad holds a character that is   *)
(* refused. Dead letters: two flows of any kinds over two messages and two *)
(* queues that may be deleted meanwhile. Status: pages of two messages; q1 *)
(* fills two pages and a half, q2 exactly two. Rates: all histories of up  *)
(* to three messages in five seconds; two choices of messages to retrieve, *)
(* in answers of at most two. Registries: the super tenant and two others, *)
(* one with a dotted domain; names with a domain, an @ and its             *)
(* replacement; one topic with and without wildcards. Start-up: two looks  *)
(* for the store, three activations.                                       *)
(***************************************************************************)
EXTENDS QueueConsole, DeadLetterConsole, StatusPaging, RateData, RateChart, TenantRegistry,
        BrokerStartup, TLC

CONSTANTS t1, t2, f1, f2, consume, publish, few, many

VARIABLE opened

MCTables == {{consume}, {publish}}
MCOrigin == (1 :> "q1") @@ (2 :> "q2")
MCFirstStored == ("q1" :> 5) @@ ("q2" :> 4)

Counts(p, d, a) == ("Published" :> p) @@ ("Delivered" :> d) @@ ("Acknowledged" :> a)

(* The lists of few fit one answer, those of many need several.            *)
MCCount == (few :> Counts(1, 1, 1)) @@ (many :> Counts(3, 2, 1))

Name(of, mark, base) == [of |-> of, at |-> mark, base |-> base]
Key(of, end) == [of |-> of, at |-> "", base |-> "t", sep |-> ".", end |-> end]
MCQueueNames == {Name("super", "", "q"), Name("foo", "", "q"), Name("bar.com", "@", "q"),
                 Name("super", "@", "a"), Name("super", "_", "a")}
MCKeys == {Key("super", ""), Key("super", "*"), Key("super", "#"), Key("foo", "")}
MCSubscribers == {Name("super", "", "s"), Name("super", "@", "s")}

Symmetry == Permutations({t1, t2}) \union Permutations({f1, f2})

AtRest(p) == opened # p

RateDataClosed ==
  /\ received = [s \in RateStatuses |-> << >>]
  /\ chartData = [s \in RateStatuses |-> {}]

RateChartClosed ==
  /\ selected = few /\ currentOutput = [s \in Statuses |-> {}] /\ awaited = {} /\ chart = NoChart
  /\ graphs = {} /\ checked = {} /\ chains = 0 /\ toggles = 0 /\ undisturbed = FALSE

PagesInit ==
  /\ opened \in {"queues", "dead letters", "status", "rate data", "rate chart",
                "registries", "start-up"}
  /\ ConsoleInit /\ DeadLetterInit /\ PagingInit /\ TenantInit /\ StartupInit
  /\ AtRest("dead letters") => kind = [f \in Flows |-> "delete"]
  /\ AtRest("status") => queue = "q1" /\ duration = "lastHour"
  /\ IF AtRest("rate data") THEN RateDataClosed ELSE RateInit
  /\ IF AtRest("rate chart") THEN RateChartClosed ELSE ChartInit

serverVars == <<registryVars, startupVars>>
pageVars == <<consoleVars, deadLetterVars, pagingVars, rateVars, chartVars>>

OnQueues(A) == opened = "queues" /\ A
             /\ UNCHANGED <<opened, deadLetterVars, pagingVars, rateVars, chartVars, serverVars>>
OnDeadLetters(A) == opened = "dead letters" /\ A
             /\ UNCHANGED <<opened, consoleVars, pagingVars, rateVars, chartVars, serverVars>>
OnStatus(A) == opened = "status" /\ A
             /\ UNCHANGED <<opened, consoleVars, deadLetterVars, rateVars, chartVars, serverVars>>
OnRateData(A) == opened = "rate data" /\ A
             /\ UNCHANGED <<opened, consoleVars, deadLetterVars, pagingVars, chartVars, serverVars>>
OnRateChart(A) == opened = "rate chart" /\ A
             /\ UNCHANGED <<opened, consoleVars, deadLetterVars, pagingVars, rateVars, serverVars>>
OnRegistries(A) == opened = "registries" /\ A
             /\ UNCHANGED <<opened, pageVars, startupVars>>
OnStartup(A) == opened = "start-up" /\ A
             /\ UNCHANGED <<opened, pageVars, registryVars>>

PagesNext ==
  \/ OnQueues(ConsoleNext)
  \/ OnDeadLetters(DeadLetterNext)
  \/ OnStatus(PagingNext)
  \/ OnRateData(GenerateChartData)
  \/ OnRateChart(ChartNext)
  \/ OnRegistries(TenantNext)
  \/ OnStartup(StartupNext)

PagesSpec ==
  PagesInit /\ [][PagesNext]_<<opened, pageVars, serverVars>>

LivePagesSpec ==
  /\ PagesSpec
  /\ \A t \in Tabs : WF_consoleVars(OnQueues(TabStep(t)))
  /\ \A f \in Flows : WF_deadLetterVars(OnDeadLetters(FlowStep(f)))
  /\ \A n \in 1 .. MaxChains : WF_chartVars(OnRateChart(ChainStep(n)))
  /\ WF_startupVars(OnStartup(ActivateStep))
  /\ WF_startupVars(OnStartup(BrokerUp)) /\ WF_startupVars(OnStartup(PortUp))

(* Whatever was begun comes to its end, however many requests fail: what a *)
(* tab asks for, a confirmed flow, a chain of requests for a chart, and    *)
(* the start of the broker.                                                *)
BegunComesToEnd ==
  /\ TabsComeToRest
  /\ FlowsEnd
  /\ ChainsEnd
  /\ StartupEnds
=============================================================================
