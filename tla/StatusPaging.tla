----------------------------- MODULE StatusPaging -----------------------------
(***************************************************************************)
(* The message status page (stats.js, message_status.jsp): a table of one  *)
(* page of messages, a Prev and a Next button, a label that says which     *)
(* messages are shown, and asynchronous requests for pages and for the     *)
(* total.  pageEnder[n] is the last message id of page n; page n + 1 is    *)
(* asked for as the messages after it.  The answers of outstanding         *)
(* requests arrive in any order, and every answer is interpreted with the  *)
(* page number of the moment it arrives.                                   *)
(*                                                                         *)
(* Message ids are 1 .. stored[q]; how a row is worded and coloured is     *)
(* left out.                                                               *)
(***************************************************************************)
EXTENDS Integers, FiniteSets

CONSTANTS
  QueueOptions, (* the options of queueSelect                              *)
  Durations,  (* the options of durationSelect, "Custom" among them        *)
  PageLimit,  (* messages on a page: 100                                   *)
  OldIds,     (* ids too old for every duration but "All" and "Custom"     *)
  RangeIds,   (* ids published in the time range that the user types       *)
  FirstStored,(* FirstStored[q]: messages of q when the page is opened     *)
  MaxStored,  (* bound on the messages of a queue                          *)
  MaxLoads,   (* bound on the page requests                                *)
  MaxPending, (* bound on the outstanding requests when the user acts      *)
  Undefined   (* the value of an array element never assigned              *)

ASSUME PagingAssumption ==
  /\ PageLimit \in Nat \ {0}
  /\ MaxStored \in Nat /\ FirstStored \in [QueueOptions -> 0 .. MaxStored]
  /\ MaxLoads \in Nat /\ MaxPending \in Nat
  /\ Undefined \notin Int

VARIABLES
  queue, duration,  (* the selected options                                *)
  filteredByTime,   (* the typed time range applies                        *)
  timeFilter,       (* the form for a time range is displayed              *)
  currentPage, currentPageCount, pageEnder,
  prevDisabled, nextDisabled,
  rows,             (* ids in the table                                    *)
  countLabel,       (* [from, to, of], or NoLabel                          *)
  outstanding,      (* outstanding page and count requests                 *)
  stored,           (* stored[q]: messages of q on the server              *)
  loads,            (* page requests made so far                           *)
  (* history variables *)
  listing,          (* the filter for which paging was last initialised    *)
  steady,           (* since then the user acted only when every request   *)
                    (* was answered, and turned pages of that filter only  *)
  shown             (* the filter, page number, store size and steadiness  *)
                    (* with which the table was last filled                *)

selection == <<queue, duration, filteredByTime, timeFilter>>
paging == <<currentPage, currentPageCount, pageEnder>>
display == <<rows, countLabel, shown>>
pagingVars == <<selection, paging, prevDisabled, nextDisabled, display,
                outstanding, stored, loads, listing, steady>>

NoLabel == [from |-> 0, to |-> 0, of |-> 0]
Filters == [queue : QueueOptions, duration : Durations, byTime : BOOLEAN]
CurrentFilter == [queue |-> queue, duration |-> duration, byTime |-> filteredByTime]

(* The messages that the server finds for filter f among the first size.   *)
Matching(f, size) ==
  {i \in 1 .. size : IF f.byTime THEN i \in RangeIds
                     ELSE f.duration \notin {"All", "Custom"} => i \notin OldIds}

(* The first PageLimit members of ids after min.                           *)
Following(ids, min) ==
  {i \in ids : i > min /\ Cardinality({j \in ids : min < j /\ j <= i}) <= PageLimit}

LastId(ids) == CHOOSE i \in ids : \A j \in ids : j <= i

Ender(n) == IF n \in DOMAIN pageEnder THEN pageEnder[n] ELSE Undefined

Turning == {r \in outstanding : r.kind = "page"}

PageRequest(f, min, n) ==
  [kind |-> "page", filter |-> f, min |-> min, page |-> n, id |-> loads]

PagingInit ==
  /\ queue \in QueueOptions
  /\ duration \in Durations \ {"Custom"}
  /\ filteredByTime = FALSE
  /\ timeFilter = FALSE
  /\ currentPage = 1
  /\ currentPageCount = 0
  /\ pageEnder = [n \in {0, 1} |-> 0]
  /\ prevDisabled = FALSE
  /\ nextDisabled = FALSE
  /\ rows = {}
  /\ countLabel = NoLabel
  /\ loads = 1
  /\ outstanding = {[PageRequest(CurrentFilter, 0, 1) EXCEPT !.id = 0]}
  /\ stored = FirstStored
  /\ listing = CurrentFilter
  /\ steady = TRUE
  /\ shown = [filter |-> CurrentFilter, page |-> 1, size |-> 0, steady |-> FALSE]

-----------------------------------------------------------------------------

(* loadMessagesForPage(min), called to show page n of filter f.            *)
LoadMessagesForPage(f, min, n) ==
  /\ loads < MaxLoads /\ Cardinality(outstanding) < MaxPending
  /\ loads' = loads + 1
  /\ outstanding' = outstanding \union {PageRequest(f, min, n)}

(* A page turned while the previous answer is outstanding, or after the    *)
(* selection changed without a reload, is not steady any more.             *)
TurnPage(min, n) ==
  /\ LoadMessagesForPage(CurrentFilter, min, n)
  /\ currentPage' = n
  /\ steady' = (steady /\ outstanding = {} /\ CurrentFilter = listing)
  /\ UNCHANGED <<selection, currentPageCount, pageEnder, display, stored, listing>>

(* Mutant: Next asks for the page it is on.                              *)
NextPageSame ==
  /\ ~nextDisabled
  /\ prevDisabled' = FALSE
  /\ TurnPage(Ender(currentPage - 1), currentPage + 1)
  /\ UNCHANGED nextDisabled

NextPage ==
  /\ ~nextDisabled
  /\ prevDisabled' = FALSE
  /\ TurnPage(Ender(currentPage), currentPage + 1)
  /\ UNCHANGED nextDisabled

(* Mutant: Prev asks for the page it is on.                              *)
PrevPageSame ==
  /\ ~prevDisabled
  /\ nextDisabled' = FALSE
  /\ TurnPage(Ender(currentPage - 1), currentPage - 1)
  /\ UNCHANGED prevDisabled

PrevPage ==
  /\ ~prevDisabled
  /\ nextDisabled' = FALSE
  /\ TurnPage(Ender(currentPage - 2), currentPage - 1)
  /\ UNCHANGED prevDisabled

(* initialisePaging disables Prev and nextPage(false) enables it again.    *)
StatusInitializeAndLoad(f) ==
  /\ currentPage' = 1
  /\ currentPageCount' = 0
  /\ pageEnder' = [n \in {0, 1} |-> 0]
  /\ prevDisabled' = FALSE
  /\ LoadMessagesForPage(f, 0, 1)
  /\ listing' = f
  /\ steady' = (outstanding = {})
  /\ UNCHANGED <<nextDisabled, display, stored>>

(* Either list box was changed; "Custom" only brings up the form.          *)
LoadMessagesWithDirectFiltering ==
  \/ /\ duration' = "Custom"
     /\ timeFilter' = TRUE
     /\ steady' = (steady /\ outstanding = {})
     /\ UNCHANGED <<filteredByTime, paging, prevDisabled, nextDisabled, display,
                    outstanding, stored, loads, listing>>
  \/ /\ duration' # "Custom"
     /\ filteredByTime' = FALSE
     /\ timeFilter' = FALSE
     /\ StatusInitializeAndLoad([queue |-> queue', duration |-> duration', byTime |-> FALSE])

SelectQueue(q) ==
  /\ q # queue
  /\ queue' = q
  /\ UNCHANGED duration
  /\ LoadMessagesWithDirectFiltering

SelectDuration(d) ==
  /\ d # duration
  /\ duration' = d
  /\ UNCHANGED queue
  /\ LoadMessagesWithDirectFiltering

LoadMessagesForRange ==
  /\ timeFilter
  /\ filteredByTime' = TRUE
  /\ UNCHANGED <<queue, duration, timeFilter>>
  /\ StatusInitializeAndLoad([CurrentFilter EXCEPT !.byTime = TRUE])

-----------------------------------------------------------------------------

(* loadTable ends by asking for the total of the current selection.        *)
LoadTable(r, output) ==
  /\ rows' = output
  /\ shown' = [filter |-> r.filter, page |-> r.page, size |-> stored[r.filter.queue],
               steady |-> steady]
  /\ outstanding' = (outstanding \ {r}) \union
       {[kind |-> "count", filter |-> CurrentFilter, min |-> 0, page |-> 0, id |-> r.id]}

PageAnswer(r) ==
  LET output == Following(Matching(r.filter, stored[r.filter.queue]), r.min)
  IN /\ r.kind = "page"
     /\ r.min # Undefined
     /\ IF output # {}
          THEN /\ pageEnder' = [n \in DOMAIN pageEnder \union {currentPage} |->
                                  IF n = currentPage THEN LastId(output) ELSE pageEnder[n]]
               /\ currentPageCount' = Cardinality(output)
          ELSE UNCHANGED <<pageEnder, currentPageCount>>
     /\ prevDisabled' = (prevDisabled \/ currentPage = 1)
     /\ nextDisabled' = (Cardinality(output) < PageLimit)
     /\ LoadTable(r, output)
     /\ UNCHANGED <<selection, currentPage, countLabel, stored, loads, listing, steady>>

CountAnswer(r) ==
  LET output == Cardinality(Matching(r.filter, stored[r.filter.queue]))
      currentPageStart == (currentPage - 1) * PageLimit
  IN /\ r.kind = "count"
     /\ countLabel' = IF output = 0 THEN NoLabel
                      ELSE [from |-> currentPageStart + 1,
                            to |-> currentPageStart + currentPageCount, of |-> output]
     /\ outstanding' = outstanding \ {r}
     /\ UNCHANGED <<selection, paging, prevDisabled, nextDisabled, rows, shown, stored,
                    loads, listing, steady>>

(* The server refuses "undefined" as a message id, and any request may     *)
(* fail; the page only raises an alert.                                    *)
PageFails(r) ==
  /\ outstanding' = outstanding \ {r}
  /\ steady' = FALSE
  /\ UNCHANGED <<selection, paging, prevDisabled, nextDisabled, display, stored, loads,
                 listing>>

Publish(q) ==
  /\ stored[q] < MaxStored
  /\ stored' = [stored EXCEPT ![q] = @ + 1]
  /\ UNCHANGED <<selection, paging, prevDisabled, nextDisabled, display, outstanding, loads,
                 listing, steady>>

PagingNext ==
  \/ NextPage
  \/ PrevPage
  \/ \E q \in QueueOptions : SelectQueue(q)
  \/ \E d \in Durations : SelectDuration(d)
  \/ LoadMessagesForRange
  \/ \E r \in outstanding : PageAnswer(r) \/ CountAnswer(r) \/ PageFails(r)
  \/ \E q \in QueueOptions : Publish(q)

PagingSpec == PagingInit /\ [][PagingNext]_pagingVars

-----------------------------------------------------------------------------

PagingTypeOK ==
  /\ CurrentFilter \in Filters
  /\ timeFilter \in BOOLEAN
  /\ currentPage \in Int
  /\ currentPageCount \in 0 .. PageLimit
  /\ DOMAIN pageEnder \subseteq Int
  /\ \A n \in DOMAIN pageEnder : pageEnder[n] \in Nat
  /\ prevDisabled \in BOOLEAN /\ nextDisabled \in BOOLEAN
  /\ rows \subseteq Nat
  /\ countLabel \in [from : Int, to : Int, of : Nat]
  /\ \A r \in outstanding : /\ r.kind \in {"page", "count"}
                         /\ r.filter \in Filters
                         /\ r.min \in Nat \union {Undefined}
                         /\ r.page \in Int
  /\ stored \in [QueueOptions -> Nat]
  /\ listing \in Filters
  /\ steady \in BOOLEAN
  /\ shown \in [filter : Filters, page : Int, size : Nat, steady : BOOLEAN]

(* Page n of the messages of f, counted from the first one.                *)
RankIn(ids, i) == Cardinality({j \in ids : j <= i})
PageOf(f, n, size) ==
  LET ids == Matching(f, size)
  IN {i \in ids : (n - 1) * PageLimit < RankIn(ids, i) /\ RankIn(ids, i) <= n * PageLimit}

(* As long as the user waits for each answer and none fails, and whatever  *)
(* happened before the list was last initialised, the table shows exactly  *)
(* page currentPage of the list, Prev is enabled except on page 1, and     *)
(* Next is enabled exactly on a full page.                                 *)
PageShown ==
  steady /\ Turning = {} =>
    /\ rows = PageOf(listing, currentPage, shown.size)
    /\ currentPage >= 1
    /\ prevDisabled <=> currentPage = 1
    /\ nextDisabled <=> Cardinality(rows) < PageLimit

(* Under the same condition pageEnder remembers the last id of every page  *)
(* up to the current one, so Prev and Next can ask for any of them.        *)
EndersChain ==
  steady /\ Turning = {} =>
    /\ pageEnder[0] = 0
    /\ \A n \in 1 .. currentPage :
         PageOf(listing, n, shown.size) # {} =>
           n \in DOMAIN pageEnder /\ pageEnder[n] = LastId(PageOf(listing, n, shown.size))

(* Once everything is answered the label gives the positions of the rows   *)
(* in the list.  An empty page is left out: currentPageCount then still    *)
(* is that of the page before, and the label claims a page of messages.    *)
LabelRight ==
  steady /\ outstanding = {} /\ rows # {} /\ CurrentFilter = listing =>
    LET ids == Matching(listing, shown.size)
    IN /\ countLabel.from = RankIn(ids, CHOOSE i \in rows : \A j \in rows : i <= j)
       /\ countLabel.to = RankIn(ids, LastId(rows))
       /\ countLabel.of >= countLabel.to

(* What a user who waits for each answer may rely on: the rows, the        *)
(* buttons and the label belong to the same page of the same selection.    *)
ShownAsSelected ==
  /\ PagingTypeOK
  /\ PageShown
  /\ EndersChain
  /\ LabelRight

(* The page implements the abstract list: whatever the user and the        *)
(* network do, each filled table is the neighbouring page of the same      *)
(* list, the first page of a new one, or not promised to be anything.      *)
List == INSTANCE StatusList
          WITH Rows <- SUBSET (1 .. MaxStored), Sizes <- 0 .. MaxStored,
               filter <- shown.filter, page <- shown.page,
               table <- rows, kept <- shown.steady
ImplementsList == List!ListSpec
=============================================================================
