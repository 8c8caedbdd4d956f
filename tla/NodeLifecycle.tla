----------------------------- MODULE NodeLifecycle -----------------------------
(***************************************************************************)
(* A Node object, the droplets of its name, and the loops of the process   *)
(* that use droplets.go: the node controller's worker (sync), its periodic *)
(* address update (status) and the lifecycle controller's MonitorNodes     *)
(* (monitor).  Each copies the Node from the informer and acts on it later *)
(* by name; every API call is a step.  The Nodes of a pass are handled     *)
(* independently of one another, so one name is enough.                    *)
(***************************************************************************)
EXTENDS Integers, FiniteSets

CONSTANTS MaxDroplets,     \* bound: droplets that ever have the name
          MaxUIDs,         \* bound: Node objects that ever have the name
          MaxAddresses,    \* bound: addresses a droplet may get
          Scenarios,       \* what may happen: sets of kinds, see Disturb
          MaxDisturbances, \* bound: how often
          Nil

NoID      == 0   \* no provider ID
NoAddress == 0   \* no private address, or none in the Node's status yet
IDs       == 1..MaxDroplets

\* host is the droplet the kubelet runs on; no code reads it.
Node == [uid : 1..MaxUIDs, providerID : IDs \cup {NoID}, host : IDs, tainted : BOOLEAN,
         shutdown : BOOLEAN, ready : BOOLEAN, address : 0..MaxAddresses]

ASSUME NodeAssumption ==
  /\ MaxDroplets \in Nat \ {0} /\ MaxUIDs \in Nat \ {0} /\ MaxAddresses \in Nat \ {0}
  /\ MaxDisturbances \in Nat
  /\ Nil \notin Node

VARIABLES
  droplets,  \* each [status, address]; status "none" before and "gone" after its life
  node,      \* the Node in the Kubernetes API
  lister,    \* the informer's copy
  uid,       \* how many Nodes there have been
  due,       \* the Node is queued for the worker
  sync,      \* the worker's [pc, node, meta]
  status,    \* the address update's [pc, node, meta]
  monitor,   \* MonitorNodes' [pc, node]
  disturbed  \* what may happen in this behaviour and how often it did: [by, times]

vars  == <<droplets, node, lister, uid, due, sync, status, monitor, disturbed>>
world == <<droplets, uid, disturbed>>

Idle == [pc |-> "idle", node |-> Nil, meta |-> Nil]

Disturb(kind) ==
  /\ kind \in disturbed.by
  /\ disturbed.times < MaxDisturbances
  /\ disturbed' = [disturbed EXCEPT !.times = disturbed.times + 1]

(***************************************************************************)
(* droplets.go.  An operator gives the set of its possible results.        *)
(***************************************************************************)
existing == {d \in IDs : droplets[d].status \in {"active", "off"}}

\* dropletByName: the first in the API's order; by address as well as by name.
dropletByName == existing

\* dropletIDFromProviderID fails without a provider ID.
dropletByProviderID(n) == existing \cap {n.providerID}

\* Mutant: every error of the API means not found.
InstanceExistsAny(n, err) == IF n.providerID = NoID THEN "error"
                             ELSE IF ~err /\ n.providerID \in existing THEN "yes" ELSE "no"

InstanceExists(n, err) ==
  CASE n.providerID = NoID \/ err -> "error"
    [] ~err /\ n.providerID \in existing -> "yes"
    [] ~err /\ n.providerID \notin existing \cup {NoID} -> "no"

InstanceShutdown(n) == \E d \in dropletByProviderID(n) : droplets[d].status = "off"

\* Mutant: a private address that is missing is no error.
nodeAddressesAny(d) == {droplets[d].address}

\* nodeAddresses fails without a private address.
nodeAddresses(d) == {droplets[d].address} \ {NoAddress}

\* Mutant: the droplet found by name leaves dropletID zero.
InstanceMetadataZero(n) ==
  UNION {[providerID : {n.providerID}, address : nodeAddresses(d)] :
           d \in IF n.providerID = NoID THEN dropletByName ELSE dropletByProviderID(n)}

InstanceMetadata(n) ==
  UNION {[providerID : {d}, address : nodeAddresses(d)] :
           d \in IF n.providerID = NoID THEN dropletByName ELSE dropletByProviderID(n)}

(***************************************************************************)
(* The node controller's worker: syncNode.                                 *)
(***************************************************************************)
SyncStart ==
  /\ sync.pc = "idle" /\ due
  /\ due' = FALSE
  /\ sync' = IF lister # Nil /\ lister.tainted
             THEN [Idle EXCEPT !.pc = "metadata", !.node = lister] ELSE Idle
  /\ UNCHANGED <<node, lister, status, monitor, world>>

\* AddRateLimited.
Requeue == due' = TRUE /\ sync' = Idle

SyncMetadata ==
  /\ sync.pc = "metadata"
  /\ \/ \E meta \in InstanceMetadata(sync.node) :
          /\ sync' = [sync EXCEPT !.pc = "update", !.meta = meta]
          /\ UNCHANGED due
     \/ InstanceMetadata(sync.node) = {} /\ Requeue
  /\ UNCHANGED <<node, lister, status, monitor, world>>

\* The modifiers, made for the Node that sync copied and applied to n.
modified(n) ==
  [n EXCEPT !.providerID = IF sync.node.providerID = NoID THEN sync.meta.providerID ELSE @,
            !.tainted = FALSE]

\* Update fails on a conflict if the informer's copy is not the latest.
\* RetryOnConflict tries again, which has an effect once the informer has caught
\* up, and may give up before that.  The API server refuses to replace a
\* provider ID.
updateAllowed ==
  /\ lister # Nil /\ lister = node
  /\ node.providerID \in {NoID, modified(lister).providerID}

SyncUpdate ==
  /\ sync.pc = "update"
  /\ \/ /\ updateAllowed
        /\ node' = modified(lister)
        /\ sync' = [sync EXCEPT !.pc = "address", !.node = modified(lister)]
        /\ UNCHANGED due
     \/ /\ ~updateAllowed
        /\ Requeue
        /\ UNCHANGED node
  /\ UNCHANGED <<lister, status, monitor, world>>

\* updateNodeAddress: a patch by name if the copy's addresses differ.  An error
\* is only logged.
patchAddress(p) ==
  node' = IF node # Nil /\ p.node.address # p.meta.address
          THEN [node EXCEPT !.address = p.meta.address] ELSE node

SyncAddress ==
  /\ sync.pc = "address"
  /\ patchAddress(sync)
  /\ sync' = Idle
  /\ UNCHANGED <<lister, due, status, monitor, world>>

(***************************************************************************)
(* UpdateNodeStatus, every nodeStatusUpdateFrequency.                      *)
(***************************************************************************)
\* Mutant: no periodic update of Nodes that have an address.
StatusStartOnce ==
  /\ status.pc = "idle"
  /\ lister # Nil /\ ~lister.tainted /\ lister.address = NoAddress
  /\ status' = [Idle EXCEPT !.pc = "metadata", !.node = lister]
  /\ UNCHANGED <<node, lister, due, sync, monitor, world>>

StatusStart ==
  /\ status.pc = "idle"
  /\ lister # Nil /\ ~lister.tainted
  /\ status' = [Idle EXCEPT !.pc = "metadata", !.node = lister]
  /\ UNCHANGED <<node, lister, due, sync, monitor, world>>

StatusMetadata ==
  /\ status.pc = "metadata"
  /\ \/ \E meta \in InstanceMetadata(status.node) :
          status' = [status EXCEPT !.pc = "address", !.meta = meta]
     \/ InstanceMetadata(status.node) = {} /\ status' = Idle
  /\ UNCHANGED <<node, lister, due, sync, monitor, world>>

StatusAddress ==
  /\ status.pc = "address"
  /\ patchAddress(status)
  /\ status' = Idle
  /\ UNCHANGED <<lister, due, sync, monitor, world>>

(***************************************************************************)
(* MonitorNodes, every nodeMonitorPeriod.                                  *)
(***************************************************************************)
MonitorStart ==
  /\ monitor.pc = "idle"
  /\ lister # Nil
  /\ lister.ready => lister.shutdown
  /\ monitor' = [Idle EXCEPT !.pc = IF lister.ready THEN "untaint" ELSE "exists", !.node = lister]
  /\ UNCHANGED <<node, lister, due, sync, status, world>>

\* The taint patches read the Node again and retry on a conflict.
setShutdown(taint) == node' = IF node # Nil THEN [node EXCEPT !.shutdown = taint] ELSE node

MonitorUntaint ==
  /\ monitor.pc = "untaint"
  /\ setShutdown(FALSE)
  /\ monitor' = Idle
  /\ UNCHANGED <<lister, due, sync, status, world>>

afterExists(err) ==
  CASE InstanceExists(monitor.node, err) = "error" -> Idle
    [] InstanceExists(monitor.node, err) = "yes" -> [monitor EXCEPT !.pc = "shutdown"]
    [] InstanceExists(monitor.node, err) = "no" -> [monitor EXCEPT !.pc = "delete"]

MonitorExists ==
  /\ monitor.pc = "exists"
  /\ monitor' = afterExists(FALSE)
  /\ UNCHANGED <<node, lister, due, sync, status, world>>

\* By name, without the UID.
MonitorDelete ==
  /\ monitor.pc = "delete"
  /\ node' = Nil
  /\ monitor' = Idle
  /\ UNCHANGED <<lister, due, sync, status, world>>

\* A droplet that is gone by now is an error, and the pass ends.
MonitorShutdown ==
  /\ monitor.pc = "shutdown"
  /\ monitor' = IF InstanceShutdown(monitor.node) THEN [monitor EXCEPT !.pc = "taint"] ELSE Idle
  /\ UNCHANGED <<node, lister, due, sync, status, world>>

MonitorTaint ==
  /\ monitor.pc = "taint"
  /\ setShutdown(TRUE)
  /\ monitor' = Idle
  /\ UNCHANGED <<lister, due, sync, status, world>>

(***************************************************************************)
(* A call fails.                                                           *)
(***************************************************************************)
CallFails ==
  /\ Disturb("error")
  /\ \/ /\ sync.pc \in {"metadata", "update"}
        /\ Requeue
        /\ UNCHANGED <<status, monitor>>
     \/ /\ sync.pc = "address"
        /\ sync' = Idle
        /\ UNCHANGED <<due, status, monitor>>
     \/ /\ status.pc # "idle"
        /\ status' = Idle
        /\ UNCHANGED <<due, sync, monitor>>
     \/ /\ monitor.pc # "idle"
        /\ monitor' = IF monitor.pc = "exists" THEN afterExists(TRUE) ELSE Idle
        /\ UNCHANGED <<due, sync, status>>
  /\ UNCHANGED <<droplets, node, lister, uid>>

(***************************************************************************)
(* The rest of the world.                                                  *)
(***************************************************************************)
\* Adds and updates are queued, a deletion is not.
Informer ==
  /\ lister # node
  /\ lister' = node
  /\ due' = (due \/ node # Nil)
  /\ UNCHANGED <<node, sync, status, monitor, world>>

\* What a kubelet is told of its provider ID (--provider-id): all of them are,
\* none is, or each may be or not ("mixed").
registeredIDs(d) ==
  {id \in {d, NoID} : "mixed" \in disturbed.by \/ (id = d <=> "providerID" \in disturbed.by)}

\* A kubelet registers its Node, with its provider ID if it is told.
Register(d) ==
  /\ node = Nil /\ uid < MaxUIDs
  /\ droplets[d].status = "active"
  /\ uid' = uid + 1
  /\ \E id \in registeredIDs(d) :
       node' = [uid |-> uid + 1, providerID |-> id, host |-> d, tainted |-> TRUE,
                shutdown |-> FALSE, ready |-> FALSE, address |-> NoAddress]
  /\ UNCHANGED <<droplets, lister, due, sync, status, monitor, disturbed>>

\* The kubelet of a second droplet of the name takes an existing Node over.
Adopt(d) ==
  /\ Disturb("reuse")
  /\ node # Nil /\ node.host # d
  /\ droplets[d].status = "active"
  /\ node' = [node EXCEPT !.host = d]
  /\ UNCHANGED <<droplets, lister, uid, due, sync, status, monitor>>

\* Heartbeats arrive, or do not.
Readiness ==
  /\ Disturb("ready")
  /\ node # Nil
  /\ ~node.ready => droplets[node.host].status = "active"
  /\ node' = [node EXCEPT !.ready = ~node.ready]
  /\ UNCHANGED <<droplets, lister, uid, due, sync, status, monitor>>

UserDeletes ==
  /\ Disturb("delete")
  /\ node # Nil
  /\ node' = Nil
  /\ UNCHANGED <<droplets, lister, uid, due, sync, status, monitor>>

Change(d, kind, from, to) ==
  /\ Disturb(kind)
  /\ from # to
  /\ droplets[d] = from
  /\ droplets' = [droplets EXCEPT ![d] = to]
  /\ UNCHANGED <<node, lister, uid, due, sync, status, monitor>>

DropletChanges ==
  \E d \in IDs, a, b \in 0..MaxAddresses :
    \/ b # NoAddress /\ \E s \in {"active", "off"} :
         Change(d, "address", [status |-> s, address |-> a], [status |-> s, address |-> b])
    \/ a = b /\ \E s, t \in {"active", "off"} :
         Change(d, "power", [status |-> s, address |-> a], [status |-> t, address |-> b])
    \/ b = NoAddress /\ \E s \in {"active", "off"} :
         Change(d, "destroy", [status |-> s, address |-> a], [status |-> "gone", address |-> b])
    \/ a = NoAddress /\
         Change(d, "reuse", [status |-> "none", address |-> a], [status |-> "active", address |-> b])

Init ==
  /\ droplets \in {f \in [IDs -> [status : {"none", "active"}, address : 0..MaxAddresses]] :
                     \A d \in IDs : /\ f[d].status = "active" <=> d = 1
                                    /\ f[d].address \in IF d = 1 THEN {0, 1} ELSE {0}}
  /\ node = Nil /\ lister = Nil /\ uid = 0
  /\ due = FALSE
  /\ sync = Idle /\ status = Idle /\ monitor = Idle
  /\ disturbed \in [by : Scenarios, times : {0}]

Sync    == SyncStart \/ SyncMetadata \/ SyncUpdate \/ SyncAddress
Status  == StatusStart \/ StatusMetadata \/ StatusAddress
Monitor == MonitorStart \/ MonitorUntaint \/ MonitorExists \/ MonitorDelete \/ MonitorShutdown
             \/ MonitorTaint

Next ==
  \/ Sync \/ Status \/ Monitor
  \/ CallFails
  \/ Informer
  \/ \E d \in IDs : Register(d) \/ Adopt(d)
  \/ Readiness \/ UserDeletes \/ DropletChanges

\* The goroutines and the informer run; of the world nothing is assumed.
Fairness == WF_vars(Sync) /\ WF_vars(Status) /\ WF_vars(Monitor) /\ WF_vars(Informer)

Spec     == Init /\ [][Next]_vars
FairSpec == Spec /\ Fairness

-------------------------------------------------------------------------------
(***************************************************************************)
(* Properties.                                                             *)
(***************************************************************************)

\* The type invariant, with what each step of a pass has at hand.
TypeOK ==
  /\ droplets \in [IDs -> [status : {"none", "active", "off", "gone"}, address : 0..MaxAddresses]]
  /\ node \in Node \cup {Nil} /\ lister \in Node \cup {Nil}
  /\ uid \in 0..MaxUIDs
  /\ due \in BOOLEAN
  /\ \A p \in {sync, status, monitor} :
       /\ p.node \in Node \cup {Nil}
       /\ p.node = Nil <=> p.pc = "idle"
       /\ p.pc \in {"update", "address"} =>
            p.meta \in [providerID : IDs, address : 1..MaxAddresses]

\* An initialised Node has a provider ID, which everything that looks up its
\* droplet later needs (InstanceExists, InstanceShutdown and the backends of a
\* load balancer fail without).  The one exception: syncNode makes its modifiers
\* for the Node it copied and applies them to the Node there is
\* (node_controller.go:446-466).  If the first was registered with its provider
\* ID and the second, registered since under the same name, was not, nothing
\* sets the ID of the second.  A name's first Node always gets it, and every
\* Node does where kubelets all set it or all do not.
InitialisedHaveID ==
  node # Nil /\ ~node.tainted /\ node.providerID = NoID
    => "mixed" \in disturbed.by /\ node.uid > 1

\* MonitorNodes removes only a Node whose droplet is gone, never one whose
\* droplet it merely could not look up ("when false is returned with no error,
\* the instance will be immediately deleted", droplets.go:60), except a Node
\* registered under the name after the lookup, as the deletion is by name.
LiveNodesKept ==
  [][monitor.pc = "delete" /\ node # Nil /\ node' = Nil /\ monitor' = Idle
       => node.providerID \notin existing \/ node.uid # monitor.node.uid]_vars

\* What is settled about a Node.  Without a provider ID it stays as it is if no
\* droplet of its name has an address, or if it is past its initialisation (the
\* exception of InitialisedHaveID); InstanceExists cannot have it removed.
Settled ==
  node # Nil =>
    /\ node.ready => ~node.shutdown
    /\ node.providerID = NoID /\ node.tainted => InstanceMetadata(node) = {}
    /\ node.providerID \in existing =>
         /\ nodeAddresses(node.providerID) \subseteq {node.address}
         /\ nodeAddresses(node.providerID) # {} => ~node.tainted
         /\ ~node.ready /\ InstanceShutdown(node) => node.shutdown
    /\ node.providerID \notin existing \cup {NoID} => node.ready

\* Whatever changes and fails in between, a Node is in the end initialised, has
\* its droplet's current addresses, has the shutdown taint if its droplet is off
\* and lost it once it is ready again, and is removed when its droplet is gone.
NodesSettle == <>[]Settled
===============================================================================
