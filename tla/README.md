# Verification of the Carbon business-messaging components

TLA+ modules, TLC configurations and TLAPS proofs for the OSGi components under
`src/components/andes`, which embed the Andes message broker (a Qpid descendant)
in a WSO2 Carbon server and give it a management console. The broker itself, the
Carbon registry and the Carbon user realm are libraries; what is modelled is the
code of this repository, and of the libraries only what this code relies on.

## 1. The system

| Component | State | Operations | Talks to |
|---|---|---|---|
| Registry client (`andes.commons`) | registry entries `event/queues/jms/<queue>` with `userCount`; subscription entries | `createQueue`, `deleteQueue`, `createSubscription`, `deleteSubscription`, listings | Carbon registry |
| Queue manager (`andes.core`) | none of its own but the JMS fields of `QueueManagerServiceImpl` | create / delete queue, update and list permissions, browse, send, purge, dead letter channel | registry client, broker MBeans, user realm, JMS client |
| Authorization (`andes.authorization`) | none | one handler per AMQP operation; create, delete, bind and unbind write to the registry and the realm | registry client, user realm |
| Authentication (`andes.authentication`) | thread-local tenant context, realm service holder | `setPassword` for each connection | user realm |
| Broker start-up (`andes`) | access key, service registration | `activate`, `deactivate`, rebinding of services | broker `Main`, MBeans, sockets |
| Broker configuration (`andes`) | fields read from XML | `QpidServiceImpl` getters | files |
| Admin service (`andes.admin`) | transport session | web-service face of the queue manager | queue manager |
| Console: queue pages (`andes.ui`) | HTTP session attributes `queue`, `queueRolePermission`; the page | add, edit, delete, permissions | admin service |
| Console: dead letter channel | ticked messages, dialogs | delete, restore, re-route | admin service |
| Console: message status page | page number, ends of pages, filter, outstanding requests | turn pages, filter by queue and time | statistics service |
| Console: message rate page | `currentOutput`, chart, check boxes, outstanding requests | choose messages, show and hide graphs, compute rates | statistics service |
| Chart export (`stats/js/amcharts/exporting`) | buffer and canvas of the chart, document, files, canvas loop | export a chart as SVG, image or PDF and save it | browser: images, file system, canvas, timers |
| Cluster management, statistics service | none | read broker MBeans | broker |

Interaction. A queue is created either from the console (console → admin
service → queue manager → registry client, broker MBeans, realm) or by an AMQP
client (broker → authorization plugin → registry client and realm → broker).
Both run on whatever server thread got the request. No lock, transaction or
version check spans two calls, so the registry, the broker's queues and the
realm's permissions can be changed by others between any two of them, and a
call that throws leaves everything done so far in place. A page of the console
sends requests that may be answered in any order or fail; what a page shows is
put together by callbacks from globals. In the chart export everything that
waits (an image, the file system, an interval) goes on in a callback that finds
the fields of shared objects as others have left them.

The scripts under `stats/js/amcharts/exporting` (canvg, jsPDF, amExport,
filesaver) are third-party code shipped with the console. At this commit no page
loads them: `message_rate.jsp` includes `amcharts.js`, `serial.js` and
`stats.js` only. They are modelled because they are a large part of the code in
the bundle and are reachable as soon as `amExport` is configured for the chart;
what is said of them is a statement about these files, not about the pages.

What is hard, and what makes each part correct:

* **Registry client** — `userCount` is read, changed and written back in three
  registry calls. Correct: it never counts users that did not come; it is exact
  where no two calls overlapped; every call returns.
* **Queue manager and authorization** — three stores, changed step by step.
  Correct: who may change permissions is decided by the realm at the moment of
  the change; a creator keeps control; an undisturbed request does all it says;
  store and broker disagree only after an overlap or a failure.
* **JMS client fields** — concurrent sends and browses hand their connection,
  session and sender from step to step through the fields of one object.
  Correct: a message goes to the queue it was sent to; where calls overlap it
  strays no further than to those; success means that all was sent; connections
  are closed.
* **Topic subscriptions, names, tenants** — an entry is looked up under a name
  that is converted anew for each operation, in the registry of the tenant whose
  user asks. Correct: what a tenant stored is found, listed and deleted.
* **Start-up** — three waits, any step may throw, and the service is published in
  a `finally` block. Correct: a published service has a broker that accepts
  connections or an exception was caught; start-up ends.
* **Console** — what is confirmed is applied to what the page shows, on the server
  as in the browser; what is shown belongs to what is selected; every chain of
  requests ends.
* **Chart export** — overlapping exports and saves keep apart; a document can be
  read and shows what was asked for; pictures are drawn and animations end.

## 2. Modules

| Module | Models | Checked by |
|---|---|---|
| `QueueRegistry` | `RegistryClient.createQueue` / `deleteQueue`, and the delete that `QueueManagerServiceImpl.deleteQueue` does outside | `MCQueueRegistry` |
| `QueueLifecycle` | `QueueManagerServiceImpl.createQueue` / `deleteQueue` / `updatePermission`, `QpidAuthorizationHandler.handleCreateQueue` / `handleDeleteQueue` / `handleBindQueue`, and what the broker does after each, over the registry of `QueueRegistry` | `MCQueueLifecycle` |
| `JmsClientFields` | `QueueManagerServiceImpl.sendMessage` / `browseQueue` / `getQueue` on the fields they share | `MCJmsClientFields` |
| `TenantRegistry` | the names and registries of several tenants: create, delete, bind, unbind of `QpidAuthorizationHandler`, `RegistryClient.createSubscription` / `deleteSubscription` / `getQueues`, the paths of `CommonsUtil` | `MCConsole` |
| `BrokerStartup` | `QpidServiceComponent.activate` / `deactivate` | `MCConsole` |
| `QueueConsole` | `queues/js/treecontrol.js` and the JSPs behind it: add, edit, delete a queue, its permissions | `MCConsole` |
| `DeadLetterConsole` | the same script's dead letter flows and the three `dlc_message_*` JSPs | `MCConsole` |
| `StatusList` | abstract: what the message status page promises | by refinement |
| `StatusPaging` | `stats.js`, paging and filters of `message_status.jsp`; implements `StatusList` | `MCConsole` |
| `RateData` | `stats.js`, `generateChartData`: rates, gaps, common range | `MCConsole` |
| `RateChart` | `stats.js`, the chains of requests of `message_rate.jsp` and its check boxes | `MCConsole` |
| `ChartExport` | `amexport.js`: `output`, `generateOutput` and its loop over the chart's elements | `MCExportEvents` |
| `FileSaver` | `filesaver.js` | `MCExportEvents` |
| `CanvgLoop`, `CanvgAnimation` | `canvg.js`: loading, drawing and event loop; `animate` elements | `MCExportEvents` |
| `CanvgPath` | `canvg.js`: reading a path, its markers and its bounding box | `MCExportDrawing` |
| `PubSub`, `PdfPages`, `PdfFile` | `jspdf.js` and `jspdf.plugin.addimage.js`: event channels, drawing on pages, building the file | `MCExportDrawing` |
| `QueueLifecycleProofs` | theorems about `QueueRegistry` and `QueueLifecycle` | |
| `JmsClientFieldsProofs` | theorems about `JmsClientFields` | |
| `ConsoleProofs` | theorems about `TenantRegistry`, `BrokerStartup`, `QueueConsole` and `DeadLetterConsole` | |
| `StatisticsProofs` | theorems about `RateChart`, `RateData` and `StatusPaging` | |
| `ExportEventsProofs` | theorems about `ChartExport`, `FileSaver`, `CanvgLoop` and `CanvgAnimation` | |
| `ExportDrawingProofs` | theorems about `PubSub` and `CanvgPath` | |
| `PdfProofs` | theorems about `PdfPages` and `PdfFile` | |
| `InductionLemmas` | the lemmas about numbers, loops and sequences that the last four use | |

**QueueRegistry.** `userCount[q]` is the property of the registry entry of `q`
(0: no entry). `at[t]` is the registry call that thread `t` is about to make;
`held[t]` is the local `count` between `get` and `put`. Each registry call
(`resourceExists`, the two `get`s, `put`, `delete`) is an action; `CallFails` is
the exception that any of them may throw, and the only step left to a `get`
whose entry has gone. The history variables `shares`, `users` and `raced` say
what atomic calls would have done and where a write fell between another call's
read and write.

**QueueLifecycle.** One record `req[t]` per thread, `pc[t]` the next store call
of the request, `left[t]` and `cur[t]` the loop over roles. `queues` and `bound`
are the broker's, `grants` the realm's. A request enters `RegistryClient`
through `CreateQueue(t, q)` / `DeleteQueue(t, q)` of `QueueRegistry` and waits
at `"register"` / `"unregister"` for its return; in between the thread runs the
steps of `QueueRegistry`. `StepFails` is an exception in any store call: nothing
is undone. `crossed` and `disturbed` record which requests overlapped on a queue
and which queues saw an overlap or a failure.

**JmsClientFields.** `field` holds the fields of the one service object;
`request[c]`, chosen at the start and never changed, the arguments of call `c`.
A call makes at most one connection, one session and one sender or browser, so
each is named by the call that made it: `connection[c]` is the user of the
connection that `c` opened, `session[c]` the connection of its session,
`client[c]` the session of its sender or browser, each emptied when the object
is closed. `receiver[c]` is what `c` has read from a field and is calling. Every
read and every assignment of a field is an action. Where a call assigns nothing
(`start`, `createTextMessage`, `send`, the closes) the read of its receiver and
its effect are one step: the effect concerns the object read and no field, and
the objects that another call could close in between only make it throw, which
`TryFails` and `CloseFails` allow anyway. The fields are not volatile, but
between two accesses lie calls of the JMS library that take locks, so accesses
are taken in order. Of the property table the connection URL and the queue are
kept, as nothing else differs between callers. `served` records where each
message went and whose messages were listed, `beside` which calls overlapped,
`unclosed` whose `queueConnection.close()` threw.

**TenantRegistry.** `entries[t][p]` is the `userCount` at path `p` of the registry
of tenant `t`, `subscriptions[t]` what is stored under `event/topics`. A name is
a record of what the conversions tell apart: the tenant whose domain it begins
with, whether it has an `@` or the `_` put in its place, and the rest; `QueueID`,
`WithoutDomain` and `TopicID` are `getQueueID`, `getTenantBasedTopicName` and
`getTopicID`. Which path an operation uses follows from the order in which its
code applies them, and differs between store and delete. `live` and `bound` are
the broker's. Calls that write are atomic here (their interleavings are what
`QueueRegistry` is about); the listing is not: `BeginListing` sizes the array by
the number of children, `ReadChildren` and `ReadChild` fill it, and `ReadChild`
throws past its end. `misled` and `cutOff` record the two ways in which one
operation deletes what another stored: drops of the super tenant that reach
the same path under another name, and unbinds of one of two keys that are stored
at one path.

**BrokerStartup.** `phase` is the next step of `activate` or `deactivate`; `store`,
`broker` and `port` are outside and come up in actions of their own. The loops
are `AwaitStore` (bounded by `MaxChecks`), `AwaitBroker` and `AwaitPort`;
`PublishService` is the `finally` block. A listener may throw out of
`registerService`; then declarative services discard the component and its
registration is left without an owner (`orphaned`).

**QueueConsole.** Per tab, `at[t]` is the next step of its request: a JSP is split
where it calls the admin service or reads or writes the session. `sessionQueue`
is the attribute `"queue"`, which every tab of the user shares. `alone[t]` records
that no other tab has set it since the page of `t` read or set it.

**DeadLetterConsole.** A flow is one click on Delete, Restore or ReRoute and
carries the ids that were ticked then. `place[m]` is where message `m` is;
`CallService` moves any of the flow's messages that are still in the channel, as
the call may fail half way and the JSP hides that it did. Queues may be deleted
while a flow's popup is open.

**StatusList and StatusPaging.** `StatusPaging` has the variables of `stats.js`
(`currentPage`, `pageEnder`, `currentPageCount`, the two buttons, label and rows)
and the set `outstanding` of requests: `PageAnswer` and `CountAnswer` interpret
an answer with the page number of the moment it arrives, as the callbacks do.
`steady` is a history variable: since the list was last opened the user acted
only when nothing was outstanding and no request failed. `StatusList` says what
the page is for: opening a list shows its first page, a turn shows a neighbouring
page of the same list, and only opening renews a promise that lapsed. The mapping
takes its variables from what the table was last filled with.

**RateData and RateChart.** `RateData` computes the points of the three graphs
from three lists of seconds, in one action; the lists come from all histories of
messages within the bounds, seen from either of two start times. `RateTimes` is
what sorting a list of stamps gives, written by rank: the i-th event lies in the
second up to which there are i events and before which there are fewer. The
recursive function in `RatePoints` is the loop of the code. `RateChart` has
the chains of requests: `awaited` holds at most one request per chain, each
answer goes on with the next status (`StatusComplete`), with further pages
(`MoreToCome`) or draws the chart. `LoadGraphData` starts a chain beside those
that run, which all write `currentOutput`.

**ChartExport.** `buffer`, `drawn` and `canvas` are fields of the one `AmExport`
object, `chain[e]` is where export `e` is: waiting for an image, done, or thrown.
`DrawItWhenItsLoaded` draws in one step what needs no waiting.

**FileSaver.** `at[s]` names the callback a save waits for. Each answer of the file
system is an action, `Abortable` is the wrapper of that name, `RequestFails` and
`WriteFails` the error callbacks; `Unload` is `process_deletion_queue`.

**CanvgLoop, CanvgAnimation, CanvgPath.** `CanvgLoop` keeps a stack of drawings
that wait for their callback, as a callback may draw another picture on the same
canvas; the interval, images and mouse events are actions. `CanvgAnimation`
updates all animations of an attribute in one `Tick`, in the order of
`svg.Animations`, with the numbers of the code. `CanvgPath` reads a path group by
group, and beside it the same path written out, absolute and with one group to a
command, which is what it is compared with.

**PubSub, PdfPages, PdfFile.** `PubSub` keeps the stack of `publish` frames, with
the loop's index, bound and list of removals; what a listener does meanwhile are
the other actions. `PdfPages` writes operators to pages and contains a small
viewer (`Apply`, `Viewed`) that reads them as PDF prescribes. `PdfFile` builds the objects
and the table of a document; one entry stands for the text of an object, so that
positions count entries.

**MCConsole, MCExportEvents, MCExportDrawing** check several parts in one run. The
parts share no state, and while one is worked on (`opened`, `working`) the others
are at rest; the state space is the sum of the parts', not their product. A
property of such a part (`TabsEditTheirQueue`, `TenantsFindTheirOwn`,
`SavesKeepTheirFile` ...) is a conjunction of named statements, each with its own
comment: they are what the part promises as a whole.

Modelled as what this code relies on, not from its source:

* the broker's create, delete and bind once the plugin has answered ALLOWED,
  `isUserAuthorized` (some role of the user holds the permission), that deleting
  a broker queue drops its bindings, that unbinding is done by the client that
  bound, and that it moves dead letters one by one;
* that a naming context copies the table it is given, and that closing a
  connection or session closes what was made from it, after which it refuses to
  work;
* that a collection's child count and its children are read separately;
* that store, broker and port come up in threads of their own, and that
  declarative services may activate a component again that threw;
* the message store behind the statistics service: it answers with the next
  messages after an id, of a list that only grows;
* one load or error report per image, and a `writeend` after every write, failed
  or aborted ones included.

Definitions marked *Mutant* are deliberate errors, no part of any specification.
Each replaces the definition it precedes to show that a property notices.

## 3. Runs

| Run | Instance | Shows |
|---|---|---|
| `registry` | 3 threads, 2 queues, 4 calls | `UserCountBounded`, `ExactUserCount` |
| `registry_returns` | 2 threads, 1 queue, 4 calls, fair | `CallsReturn` |
| `registry_sharing` | 2 threads, 1 queue, 3 calls | `SharersCounted` is violated: the comment "Share queue" is not kept by overlapping creates |
| `lifecycle` | 2 threads, 2 users with a role each, 1 queue, 2 permission tables, 3 requests | `CreatorCanManage`, `PermissionChangesAuthorized`, `UpdateTakesEffect` |
| `churn` | 2 threads, 1 user, 1 queue, 4 requests | `BrokerQueueRegistered`, `CreateTakesEffect`, `DeleteTakesEffect` |
| `foreign_queue` | 2 threads, 2 users, 2 queues of which one is outside the domain, 2 requests, fair | `RegistrySpec` (implementation), `RequestsEnd` |
| `jms_fields` | 2 calls, 2 queues, 2 users, at most 1 message | `StraysStayBeside`, `LoneCallServesCaller`, `SuccessMeansSent`, `LoneCallClosesConnection`, `IdleConnectionClosed` |
| `jms_strays` | 2 calls, 2 queues, 1 user | `MessagesToGivenQueue` is violated: the admin service documents `sendMessage` as "Send messages to given queue" |
| `console` | the pages of the console, tenants, start-up (bounds below) | `TabsEditTheirQueue`, `DeadLettersMoveOnce`, `ShownAsSelected`, `ImplementsList` (implementation), `RatesAsCounted`, `ChartAsChosen`, `TenantsFindTheirOwn`, `PublishedWhenReady` |
| `console_live` | the same with fewer requests, fair | `BegunComesToEnd`: tabs, dead letter flows, chains of requests and start-up end |
| `export_events` | exports, saves, pictures, animations, fair | `ExportsApart`, `SavesKeepTheirFile`, `DrawnInTurn`, `EndsAsItBegan`, `StepsGoOn`, `EventsLeadOn` |
| `export_drawing` | events, pages, files, paths | `ListenersInStep`, `EveryListenerReached`, `SeenAsAsked`, `FileReadable`, `DeliversWhatWasDrawn`, `PathAsWritten` |

Bounds. `MaxCalls` and `MaxRequests` bound how many calls and requests start;
when they run out the system stops, hence `CHECK_DEADLOCK FALSE`. Every race in
the server's code is between a read and a write of two threads, so two threads on
one queue show it; a third in `registry` lets one write invalidate two decisions.
Four calls are enough to create, share, leave and remove an entry while one
more overlaps. Three requests are a create, a delete that overlaps an update,
and every other triple. Threads, tabs, flows and callbacks are interchangeable,
which the symmetry sets of the safety runs use.

In `jms_fields` the two calls run one after the other or overlap in any way, so
the second finds whatever the first left in the fields; two queues and two users
tell whose object was used. One message is enough: the loop of `sendMessage`
reads the field anew for each message, and a message more repeats the same step.
More calls and messages are covered by the proofs.

In `console`: two tabs with three requests (the other tab sets the attribute
between the two halves of this one's request) over a queue the user may change,
one the user may not and a name that is refused; two flows over two messages and
two queues that may be deleted; pages of two messages with lists of two pages and
a half and of exactly two, three page requests of which two may be outstanding;
histories of up to three messages in five seconds, so that events lie in one, in
adjacent and in distant seconds; two choices of messages, one of which needs
several answers, and three chains; three tenants (super, one with and one without
a dotted domain), names with a domain, an `@` and the `_` that replaces it, one
topic with both wildcards, three operations; two looks for the store and three
activations. In `export_events`: two exports of up to three elements; two saves
under one name or two, in every kind of browser; three pictures with an image and
an event each; one or two animations, with frames and seconds chosen so that an
animation ends between two frames or with one. In `export_drawing`: four
subscriptions, nested publishes, four calls on a page, three pages with images and
three outputs, paths of four groups. Repeating any of these steps more often meets
no state of another kind: the code keeps no more than the last two steps apart.

Fairness. Weak fairness of each thread's steps once a request has begun: such a
thread takes no lock and waits for no other one, and every registry, MBean and
realm call answers or throws. That new requests begin is not assumed. On the
console every request is answered or fails in the end (the browser reports
either). For start-up, the thread of `activate` runs, and a broker that `Main` has
started gets its virtual hosts and opens its port; without the latter the two
loops never end. The store need not come up. In the exports an image loads or
reports an error, the file system answers or refuses, an interval that is set
goes on ticking, a script runs to its end. That an image loads, a write succeeds
or an animation asks for a drawing is not assumed.

Where properties are conditional, the condition is part of what the code can
keep: `undisturbed`, `alone`, `steady`, `quiet` exclude the overlaps whose
consequences section 5 lists, and nothing else; the conditions themselves are
computed from what happened, never assumed of the environment.

## 4. Proofs

The theorems hold for every set of queues, threads, users, roles and tables that
satisfies `RegistryAssumption` and `LifecycleAssumption` (non-empty sets, roles
of users are roles, tables name roles and only consume and publish), and for
every instance of the other models that satisfies the assumptions stated in
them. Those of the export models say what a value is not (the mark for "no file"
is no set of saves, "not set" is no number) and what the scripts get (frames and
durations are positive, a group of a path has as many points as its command
takes; `PagesAssumption`: there is a first font, a format has two sides, the side
of a string that names no format is no number); `PagingAssumption` starts the queues within the bound on their messages.

* `QueueRegistry`: `RegistryInv` is inductive. Neither `UserCountBounded`
  nor `ExactUserCount` is: the write of a call is only right if what the call
  holds is, so `HeldBounded` and `DecisionCurrent` say so of every thread
  between its read and its write, the latter on queues that no write raced on.
* `QueueLifecycle`: `RequestStepOnRegistry` shows each step of a request to
  be a registry step or none, which gives `ImplementsRegistry`
  (`LifecycleSpec => RegistrySpec`) and carries the results above over
  (`LifecycleCounts`). For permissions the inductive invariant is `RequestInv`:
  `PhaseFits` ties phases to operations, `OwnRolesOnly` and `GrantedSoFar` say
  what a creator's loop may touch and has done, and `UpdaterStillAuthorized` that
  the check of `updatePermission` stays valid: nothing in this code ever denies
  changePermission. `CreatorsManage` and `ChangesAuthorized` follow.
  For undisturbed requests the inductive invariant is `EffectInv`.
  `OverlapsNoted` says that two requests on one queue are both on record,
  `CreatedSoFar`, `DeletedSoFar` and `UpdatedSoFar` what a request that is not on
  record has achieved phase by phase, `CallFits` ties a thread inside
  `RegistryClient` to the phase and queue of its request, and
  `RegisteredOrLeaving` lets a queue be unregistered only between the registry
  call of a drop and the broker's deletion. Every step is `Local`: it touches the
  thread that takes it and the queue of its request, so by `OthersKeepDone` only
  the stepping thread's own claims are to be shown. `RegisteredWhenAtRest`,
  `CreateDone`, `DeleteDone` and `UpdateDone` follow, the last three because only
  `RolesDone`, `DeleteNothing` and `DeleteEntry` end a request of the admin
  service with success (`CompletesAtLastStep`).
* `JmsClientFields` (every set of calls, queues and users and every
  `MaxMessages`): `JmsInv` is inductive. That strays stay beside rests on
  `ClientFieldBeside`: from the assignment on, the field holds the own client or
  that of a call that overlaps, because calls under way are recorded as
  overlapping (`ActiveBeside`). For a call without overlap `LoneTable` and
  `LoneConnection` say that every field it has set still holds its own object;
  the lemma `LoneCallSteps` shows that while it runs no other call takes a step.
  `ConnectionEnds` and `LastConnection` say who has still to close which
  connection, `Sent` relates the loop counter to the outcome.
* `TenantRegistry` (`TenantsFind`): of the stores, `CountedOnce` (no entry
  counts more users than there were operations) makes the listing conditions
  inductive. The lemma `SoughtWhereStored` is the heart: it says for which names
  the path of the delete is the path of the store. A listing's array fits because
  `UndisturbedListing` relates the slots filled and the children still to be read
  to what is listed, each counted once. `PathsAssumption` (finitely many paths)
  is needed to count them.
* `BrokerStartup` (`ServiceIsUsable`): `WaitedFor` says that each phase is
  reached only through the wait before it, `Registration` that only an active
  component has a registration of its own and that a published service without an
  owner was left by an activation that threw.
* `QueueConsole` (`TabsKeepTheirQueue`): `SessionFits` extends the property
  to all steps between setting the attribute and using it, `CreatedFirst` says
  that the second request of an add is only sent after the first one worked, and
  `PageFits` which page a step belongs to.
* `DeadLetterConsole` (`MessagesMoveOnce`): `MovedOnce` adds that a flow that
  moved a message has made its only call and changes its choice no more, and
  `Picked` that a re-routing flow's queue came from its popup.
* `RateChart` (`ChartIsAsChosen`): `AloneAwaited` says that a chain started
  alone has the only outstanding request, `ShortChain` that with short lists this
  request is a first page of the selection and the slots before it are filled.
  The lemma `ShortAnswer` (with `ListCounted`, by a surjection) shows that a short
  list comes whole with an answer that is not full. `NoChartAssumption` keeps the
  mark for "nothing drawn" apart from charts.
* `RateData` (`RatesAreCounted`): `SortedFacts` says that two successive seconds
  of a sorted list are the same or `Adjacent`, with no event in between, by the
  rank (`QuietBetween`). `TurnFits` is the invariant of the loop: `processingUnit`
  is the second the loop is at, `processingCount` the events of it seen so far, and
  the points entered are those of the seconds before it. So the points are exactly
  the peaks, the ground beside them and the stretches (`DatedFacts`). `RightOfPeak`
  and `LeftOfPeak` carry the property: a line that leaves a peak meets another point
  in the next second, hence a longer line runs on the ground, where
  nothing happened (`StraightLine`).
* `StatusPaging` (`PageShownAsSelected`, `PageImplementsList`): what the page
  shows is a matter of counting. `Upto` is the rank of an id among the messages
  of a filter; it depends on the messages up to that id only, hence not on what is
  published later. `EnderOK` says that `pageEnder[n]` ends exactly n full pages,
  which makes the messages after it page n + 1 (`FollowingIsPage`) and keeps a
  full page's end where it was (`FullPageStays`). `SteadyInv` adds, for a user who
  waits, the only three situations there are: nothing outstanding, one total
  outstanding, or one page outstanding that has the page number and minimum of the
  moment. That Next asks for a page only after a full one (`FullPageEnds`) is what
  carries `EnderOK` to the next page. For the implementation every answer with a
  page is an `Open`, a `Turn` or a `Lapse`, and everything else a stutter.
* `ChartExport` (`ExportsStayApart`): `ExportInv` says that the fields of the one
  object are those of the export begun last (`LastBegun`), that an export waits
  for an element not painted yet and paints in order (`Paints`), and that an
  export without overlap has painted its first `drawn` elements (`LoadsAlone`).
* `CanvgLoop` (`PicturesDrawnInTurn`, `ReplacedPicturesStayAway`): `Nested` says
  which drawings may be under way at once, when a first drawing has an interval
  still to set and that a picture on the stack was not replaced but by a callback.
* `FileSaver` (`SavesKeepFiles`, `ReadyStateOnlyGoesOn`): `Prepared` says that
  the file a save is about to write is absent or empty unless another save of the
  name overlaps, which `OverlapsKnown` has on record. `Remembered` accounts for
  every file and URL left: it is in the deletion queue, or a save explains it.
* `CanvgAnimation` (`AnimationsEndAsTheyBegan`, `FramesThatChangeAreDrawn`,
  `AnimationsNeverGoBack`): `AfterFirst` says that every animation knows the value
  it found. `OnTheWay` gives the value after each frame of a single animation; the
  arithmetic is that of the rounded tween, for any values and durations.
* `PubSub` (`BusKeepsInStep`, `PublishReachesAll`): `BusInv` keeps every topic's
  list in order of subscription and every entry tied to its token (`EntryOK`), and
  says of every publish under way (`FrameOK`) that what it has passed was called
  unless something was removed from its list.
* `CanvgPath` (`PathsDrawnAsWritten`): `PathInv` pairs the parser with that of the
  same path written out in full; `Pairs` shows for each command that one group
  keeps the two in the same place. `PenIsCurrent`, `OpenAreMoves` and `BoxHolds`
  relate pen, markers and bounding box to what is drawn.
* `PdfPages` (`PagesSeenAsAsked`): a page is looked at from its beginning, so
  the invariant has to speak of every operator already written. `ViewedAppend`
  says that an operator added leaves what was seen before it; `PageOK` and
  `ElementOK` hold for each element of each page what the property asks, and
  `Following` relates the last look of the page under way to `asked` and `onPage`,
  the caps and joins through the styles that `_addPage` writes again.
* `PdfFile` (`FilesCanBeRead`, `FilesDeliverDrawings`): the lemmas follow a build
  through its loops. `Located` says that offsets and objects of a build agree, both
  ways, with positions counted from the length left by the last build; `Grown` what
  a loop has added; `BodyFacts` and `BodyCases` that a body has the objects of its
  pages, fonts and images under successive numbers and no others, which is why the
  kids can be computed as 3, 5, .. . `FirstBuild` shows that only a build that begins
  with number 2 has an offset for every number, and `FileInv` that until then the
  length is 0, every element went to its page, and images are drawn only with the
  plugin's listeners subscribed.

Six of these models define a value by recursion: the points after each turn of
the loop over the stamps, the value after all the animations of a frame, a list
after its splices, a publish's loop, the look of a page after each operator, the
build after each turn of a loop. The provers do not instantiate the library's
induction theorems, but a function can be reasoned about through the set of
numbers for which a claim holds: `SetInduction`, `LoopExists` and `LoopInduction`
of `InductionLemmas` follow from `WFMin` and `NatLessThanWellFounded`, which take
no operator as a parameter.

Only model-checked: liveness (`CallsReturn`, `RequestsEnd`, `BegunComesToEnd`,
`EventsLeadOn`), which the prover does not reach. Every other property of a run that
passes is stated by a theorem, `StepsGoOn` conjunct by conjunct.

## 5. Where code and words disagree

Two disagreements have a run of their own: `registry_sharing` and `jms_strays`.
The others were met while modelling; the models have what the code does.

Server:

* A listener that throws from `notifyStart` makes `activate` throw after the
  service was registered: it stays published and no later activation starts a
  broker, as each finds the service there (`orphaned` in `BrokerStartup`).
* A drop is looked up under the name as given and in the super tenant's registry,
  whoever drops: the entry of another tenant's queue stays, and a drop may empty
  the super tenant's entry of a queue of another name (`misled`).
* Bind stores a subscription under names with `@` replaced and without the domain,
  unbind deletes under the names as given: such subscriptions stay listed.

Console (`queues/js/treecontrol.js`, `stats/js/stats.js`):

* `updatePermissions` says 'Updated permissions successfully' for every answer
  without the word "Error"; the fault of the admin service begins "Unable to
  update permission of the queue", so a refusal is reported as a success.
* The dead letter dialogs say "Successfully deleted." for every answer; the JSPs
  catch the exception and answer as usual.
* A short answer is commented "Last of the messages have been retrieved"; after a
  full one `prepareChartData` collects further pages that `generateChartData` does
  not read: the slot stays empty and the chart is drawn without it.
* "Get all three graphs to the same value range": the boundaries are the first
  publish and the last acknowledgement, and a graph that lies outside keeps its own
  range. `AcknowledgedRange` states when the ranges do agree.
* On an empty page the label keeps the count of the page before (`LabelRight`
  leaves it out); a page number may pass the last page.

Chart export:

* `publish` removes once-listeners by the indexes they had before the first
  removal: of two in a topic the second splice removes the one after.
* `setDrawColor` "Sets the stroke color for upcoming elements." but a new page
  starts in black; `text` leaves its colour as the fill colour of what follows.
* `getFontList` offers aliases whose styles `setFontStyle` refuses.
* An unknown page format is not refused: indexing the name yields letters as sides.
* `output` "Generates the PDF document.", but a second one throws: object numbers
  go on from the first, offsets start anew, and the table has numbers without an
  offset. `OutputThrows` is that case; `FileReadable` and `DeliversWhatWasDrawn`
  speak of documents that were delivered.
* An export started while another waits for an image replaces its buffer, counter
  and canvas: its callback is called with a canvas that is not finished.
* After a failed write both the object URL and the unwritten file are opened.
* `toMilliseconds` matches `s$` before `ms`: 500ms are 500 seconds. `update` tests
  for the end before it adds the frame's time, so the last tween overshoots.
* `addQuadraticCurve` passes its control points in an order that
  `addBezierCurve` does not have: the box is that of another curve.

## 6. Not modelled, and why

* Consume and publish decisions of the authorization plugin, role listings,
  counters, the statistics service and cluster management: reads without state.
* Authentication: `setPassword` leaves the tenant of the broker's thread set, but
  `authorise` starts a tenant flow of its own before it reads the tenant, so nothing
  depends on what was left.
* Paging helpers of the admin service and `Utils`: two bounds from two numbers,
  without a second actor.
* Names that hold a domain elsewhere than at their beginning.
* Parsing of configuration, generated stubs, packaging.
* Of the scripts: look and wording of tables and charts, zoom, the export menu's
  elements, Base64, number formats, compression and text encoding of PDF, arcs,
  CSS, gradients, text and filters of canvg, colour names, amCharts and its themes.

What a continuation would take up: the decisions of the authorization plugin on
consume and publish, which read the realm while `updatePermission` rewrites it.
