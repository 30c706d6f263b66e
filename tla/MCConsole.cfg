SPECIFICATION PagesSpec
CONSTANTS
  t1 = t1
  t2 = t2
  f1 = f1
  f2 = f2
  consume = consume
  publish = publish
  Tabs = {t1, t2}
  Queues = {"q1", "q2", "bad"}
  Invalid = {"bad"}
  Guarded = {"q2"}
  Tables <- MCTables
  NoQueue = noqueue
  MaxRequests = 3
  Flows = {f1, f2}
  Messages = {1, 2}
  Destinations = {"q1", "q2"}
  Origin <- MCOrigin
  MaxRemoved = 2
  QueueOptions = {"q1", "q2"}
  Durations = {"lastHour", "Custom"}
  PageLimit = 2
  OldIds = {1}
  RangeIds = {1, 2, 4}
  FirstStored <- MCFirstStored
  MaxStored = 5
  MaxLoads = 3
  MaxPending = 2
  Undefined = undefined
  LastSecond = 5
  MaxMessages = 3
  NoDate = nodate
  few = few
  many = many
  Options = {few, many}
  Count <- MCCount
  DataLimit = 2
  NoChart = nochart
  MaxChains = 3
  MaxToggles = 2
  Tenants = {"super", "foo", "bar.com"}
  Super = "super"
  Undotted = {"foo"}
  QueueNames <- MCQueueNames
  Keys <- MCKeys
  Subscribers <- MCSubscribers
  MaxOps = 3
  MaxChecks = 2
  MaxActivations = 3
INVARIANTS
  TabsEditTheirQueue
  
  ShownAsSelected
  RatesAsCounted
  ChartAsChosen
  
  PublishedWhenReady
PROPERTY
  ImplementsList
SYMMETRY Symmetry
CHECK_DEADLOCK FALSE
