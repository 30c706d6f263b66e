---------------------------- MODULE BrokerStartup ----------------------------
(***************************************************************************)
(* Starting the broker (QpidServiceComponent).  Declarative services calls *)
(* activate when the services it refers to are bound; it starts the store, *)
(* then the broker in the same virtual machine, waits for the MBeans of    *)
(* the broker and for its port, and publishes QpidService to the other     *)
(* bundles, which start to connect when they are told.  The store, the     *)
(* broker and declarative services are external.                           *)
(***************************************************************************)
EXTENDS Naturals

CONSTANTS
  MaxChecks,      (* looks for the store before going on without; code: 10 *)
  MaxActivations  (* bound on the activations of the component             *)

ASSUME StartupAssumption == MaxChecks \in Nat /\ MaxActivations \in Nat

VARIABLES
  phase,        (* the next step of activate or deactivate                 *)
  checks,       (* looks for the store so far, count in the code           *)
  failed,       (* an exception was caught while the broker was started    *)
  published,    (* QpidService is registered                               *)
  own,          (* qpidService: the registration is this component's       *)
  store,        (* the store accepts connections                           *)
  broker,       (* "absent", "starting" or "running" (has virtual hosts)   *)
  port,         (* the port of the broker accepts connections              *)
  activations,  (* activations so far                                      *)
  orphaned      (* history: an activation threw after it had published     *)

outside == <<store, broker, port>>
startupVars == <<phase, checks, failed, published, own, outside, activations, orphaned>>

Starting == {"store", "engine", "broker", "port", "publish"}

StartupInit ==
  /\ phase = "down" /\ checks = 0 /\ failed = FALSE
  /\ published = FALSE /\ own = FALSE
  /\ store = FALSE /\ broker = "absent" /\ port = FALSE
  /\ activations = 0 /\ orphaned = FALSE

-----------------------------------------------------------------------------

(* activate: nothing to do if somebody has published the service; the      *)
(* store is started unless the configuration says it is another server's.  *)
Activate ==
  /\ phase = "down" /\ activations < MaxActivations
  /\ activations' = activations + 1
  /\ checks' = 0 /\ failed' = FALSE
  /\ phase' \in IF published THEN {"active"} ELSE {"store", "engine"}
  /\ UNCHANGED <<published, own, outside, orphaned>>

(* The loop around isCassandraStarted: after MaxChecks looks activate goes *)
(* on without the store.  An unknown host makes it throw.                  *)
AwaitStore ==
  /\ phase = "store"
  /\ \/ store /\ phase' = "engine" /\ UNCHANGED checks
     \/ /\ ~store
        /\ checks' = checks + 1
        /\ phase' = IF checks' > MaxChecks THEN "engine" ELSE "store"
     \/ phase' = "threw" /\ UNCHANGED checks
  /\ UNCHANGED <<failed, published, own, outside, activations, orphaned>>

(* Main.main; what it throws is caught, and activate goes on to finally.   *)
StartEngine ==
  /\ phase = "engine"
  /\ broker' \in {"absent", "starting"}
  /\ \/ broker' = "starting" /\ phase' = "broker" /\ UNCHANGED failed
     \/ failed' = TRUE /\ phase' = "publish"
  /\ UNCHANGED <<checks, published, own, store, port, activations, orphaned>>

(* The loop around isBrokerRunning, which nothing else ends.               *)
AwaitBroker ==
  /\ phase = "broker" /\ broker = "running"
  /\ phase' = "port"
  /\ UNCHANGED <<checks, failed, published, own, outside, activations, orphaned>>

(* Mutant: a refused connection ends the wait.                             *)
AwaitPortOnce ==
  /\ phase = "port"
  /\ phase' = "publish"
  /\ failed' \in {failed, TRUE}
  /\ UNCHANGED <<checks, published, own, outside, activations, orphaned>>

(* The loop that connects to the port: a refused connection is tried       *)
(* again; a port that is no number, or an interrupt, is caught outside.    *)
AwaitPort ==
  /\ phase = "port"
  /\ \/ port /\ UNCHANGED failed
     \/ failed' = TRUE
  /\ phase' = "publish"
  /\ UNCHANGED <<checks, published, own, outside, activations, orphaned>>

(* The finally block: the service is published whatever happened.  A       *)
(* listener that notifyStart calls may throw; declarative services then    *)
(* discard the component, and its registration with it is nobody's.        *)
PublishService ==
  /\ phase = "publish"
  /\ published' = TRUE
  /\ \/ phase' = "active" /\ own' = TRUE /\ UNCHANGED orphaned
     \/ phase' = "threw" /\ own' = FALSE /\ orphaned' = TRUE
  /\ UNCHANGED <<checks, failed, outside, activations>>

(* deactivate withdraws the service it has published ...                   *)
Withdraw ==
  /\ phase = "active"
  /\ published' = (published /\ ~own)
  /\ own' = FALSE
  /\ phase' = "withdrawn"
  /\ UNCHANGED <<checks, failed, outside, activations, orphaned>>

(* ... and then stops the broker: ApplicationRegistry.remove.              *)
StopBroker ==
  /\ phase = "withdrawn"
  /\ phase' = "down"
  /\ broker' = "absent" /\ port' = FALSE
  /\ UNCHANGED <<checks, failed, published, own, store, activations, orphaned>>

-----------------------------------------------------------------------------

(* External: the store and the broker come up in threads of their own.     *)
StoreUp ==
  /\ ~store /\ store' = TRUE
  /\ UNCHANGED <<phase, checks, failed, published, own, broker, port, activations, orphaned>>

BrokerUp ==
  /\ broker = "starting" /\ broker' = "running"
  /\ UNCHANGED <<phase, checks, failed, published, own, store, port, activations, orphaned>>

PortUp ==
  /\ broker = "running" /\ ~port /\ port' = TRUE
  /\ UNCHANGED <<phase, checks, failed, published, own, store, broker, activations, orphaned>>

(* External: declarative services try again after an activation threw.     *)
Retry ==
  /\ phase = "threw" /\ phase' = "down"
  /\ UNCHANGED <<checks, failed, published, own, outside, activations, orphaned>>

ActivateStep == AwaitStore \/ StartEngine \/ AwaitBroker \/ AwaitPort \/ PublishService

StartupNext ==
  \/ Activate \/ ActivateStep \/ Withdraw \/ StopBroker
  \/ StoreUp \/ BrokerUp \/ PortUp \/ Retry

(* The thread of activate runs; a broker that Main has started gets its    *)
(* virtual hosts and opens its port.  The store need not come up.          *)
StartupSpec ==
  /\ StartupInit /\ [][StartupNext]_startupVars
  /\ WF_startupVars(ActivateStep) /\ WF_startupVars(BrokerUp) /\ WF_startupVars(PortUp)

-----------------------------------------------------------------------------

StartupTypeOK ==
  /\ phase \in Starting \union {"down", "active", "threw", "withdrawn"}
  /\ checks \in 0 .. MaxChecks + 1
  /\ activations \in 0 .. MaxActivations
  /\ broker \in {"absent", "starting", "running"}
  /\ failed \in BOOLEAN /\ published \in BOOLEAN /\ own \in BOOLEAN
  /\ store \in BOOLEAN /\ port \in BOOLEAN /\ orphaned \in BOOLEAN

(* While the component has its service published, other bundles can        *)
(* connect: the broker runs and accepts connections, unless starting it    *)
(* threw and the finally block published all the same; it is withdrawn     *)
(* before the broker stops.                                                *)
ServiceMeansBroker ==
  own => published /\ (failed \/ (broker = "running" /\ port))

(* Once the component is deactivated nobody finds its service, except one  *)
(* left by an activation that threw after publishing.                      *)
WithdrawnWhenDown ==
  phase \in {"down", "withdrawn"} => ~own /\ (published => orphaned)

(* What other bundles may conclude from the service they find.             *)
PublishedWhenReady ==
  /\ StartupTypeOK
  /\ ServiceMeansBroker
  /\ WithdrawnWhenDown

(* An activation ends, even if the store never comes up.                   *)
StartupEnds == phase \in Starting ~> phase \in {"active", "threw"}
=============================================================================
