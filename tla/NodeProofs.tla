------------------------------ MODULE NodeProofs ------------------------------
(***************************************************************************)
(* Proofs about NodeLifecycle for every number of droplets, Nodes and      *)
(* disturbances: initialised Nodes have a provider ID, and MonitorNodes    *)
(* removes no Node whose droplet is there.                                 *)
(***************************************************************************)
EXTENDS NodeLifecycle, TLAPS

Meta     == [providerID : IDs, address : 1..MaxAddresses]
Statuses == {"none", "active", "off", "gone"}
Copy     == Node \cup {Nil}

\* The types of the variables that belong to no loop.
Types ==
  /\ droplets \in [IDs -> [status : Statuses, address : 0..MaxAddresses]]
  /\ node \in Copy /\ lister \in Copy
  /\ uid \in 0..MaxUIDs
  /\ due \in BOOLEAN
  /\ disturbed \in [by : Scenarios, times : 0..MaxDisturbances]

\* What is known of a copy c of the Node, given the Node n, the number of Nodes
\* so far u, the droplets dr and the scenario by: c is no younger than n,
\* the youngest; unless the scenario is mixed, kubelets register all Nodes with a
\* provider ID, or it comes with the removal of the taint; in any scenario it
\* does so for the first Node; the droplet it names has been created; and a
\* provider ID, once set, is that of the Node for as long as the Node is there.
Known(c, n, u, dr, by) ==
  c # Nil =>
    /\ c.uid <= u /\ (n # Nil => n.uid = u)
    /\ "mixed" \notin by =>
         IF "providerID" \in by THEN c.providerID # NoID ELSE c.tainted <=> c.providerID = NoID
    /\ c.providerID = NoID /\ ~c.tainted => "mixed" \in by /\ c.uid > 1
    /\ c.providerID # NoID => dr[c.providerID].status # "none"
    /\ n # Nil /\ c.uid = n.uid /\ c.providerID # NoID => n.providerID = c.providerID

known(c) == Known(c, node, uid, droplets, disturbed.by)

\* A pass under way has a copy of the Node, and metadata once it has asked.
Stage(p) ==
  /\ p.node = Nil <=> p.pc = "idle"
  /\ p.pc \in {"update", "address"} => p.meta \in Meta

SyncType    == [pc : {"idle", "metadata", "update", "address"}, node : Copy, meta : Meta \cup {Nil}]
StatusType  == [pc : {"idle", "metadata", "address"}, node : Copy, meta : Meta \cup {Nil}]
MonitorType == [pc : {"idle", "untaint", "exists", "shutdown", "delete", "taint"},
                node : Copy, meta : {Nil}]

\* The worker is about to initialise a Node that was not initialised when it was
\* copied, from a droplet that exists or existed.
SyncOK(p) ==
  /\ p \in SyncType /\ Stage(p) /\ known(p.node)
  /\ p.pc \in {"metadata", "update"} => p.node.tainted
  /\ p.pc = "update" => droplets[p.meta.providerID].status # "none"

StatusOK(p) == p \in StatusType /\ Stage(p) /\ known(p.node)

\* MonitorNodes is about to delete a Node whose droplet has come and gone.
MonitorOK(p) ==
  /\ p \in MonitorType /\ Stage(p) /\ known(p.node)
  /\ p.pc = "delete" =>
       p.node.providerID # NoID /\ droplets[p.node.providerID].status = "gone"

IndInv ==
  /\ Types
  /\ known(node) /\ known(lister)
  /\ SyncOK(sync) /\ StatusOK(status) /\ MonitorOK(monitor)

-------------------------------------------------------------------------------
\* The inductive invariant implies the type invariant.
LEMMA IndTypeOK == IndInv => TypeOK
<1> SUFFICES ASSUME IndInv PROVE TypeOK
  OBVIOUS
<1>1. \A p \in {sync, status, monitor} :
        /\ p.node \in Copy /\ Stage(p)
  BY DEF IndInv, SyncOK, StatusOK, MonitorOK, SyncType, StatusType, MonitorType
<1>2. QED
  BY <1>1 DEF IndInv, Types, Stage, TypeOK, Copy, Statuses, Meta

\* It implies that initialised Nodes have a provider ID.
LEMMA IndHaveID == IndInv => InitialisedHaveID
BY DEF IndInv, known, Known, InitialisedHaveID

\* A pass of one of the loops that ends, in any state.
LEMMA IdleOK == SyncOK(Idle) /\ StatusOK(Idle) /\ MonitorOK(Idle)
<1>1. Idle \in [pc : {"idle"}, node : {Nil}, meta : {Nil}] /\ Idle.pc = "idle" /\ Idle.node = Nil
  BY DEF Idle
<1>2. Idle \in SyncType /\ Idle \in StatusType /\ Idle \in MonitorType
  BY <1>1 DEF SyncType, StatusType, MonitorType, Copy
<1>3. known(Idle.node) /\ Stage(Idle)
  BY <1>1 DEF known, Known, Stage
<1>4. QED
  BY <1>1, <1>2, <1>3 DEF SyncOK, StatusOK, MonitorOK

\* A pass that begins with the informer's copy.
LEMMA BegunOK ==
  ASSUME NEW c \in Node, NEW at \in {"metadata", "untaint", "exists"}, NEW b,
         b = [Idle EXCEPT !.pc = at, !.node = c], known(c)
  PROVE  /\ at = "metadata" /\ c.tainted => SyncOK(b)
         /\ at = "metadata" => StatusOK(b)
         /\ at # "metadata" => MonitorOK(b)
<1>1. b \in [pc : {at}, node : {c}, meta : {Nil}]
  BY Zenon DEF Idle
<1>2. b.pc = at /\ b.node = c
  BY <1>1
<1>3. c # Nil /\ at \notin {"idle", "update", "address", "delete"}
  BY NodeAssumption
<1>4. Stage(b) /\ known(b.node)
  BY <1>2, <1>3 DEF Stage
<1>5. /\ at = "metadata" => b \in SyncType /\ b \in StatusType
      /\ at # "metadata" => b \in MonitorType
  BY <1>1 DEF SyncType, StatusType, MonitorType, Copy
<1>6. QED
  BY <1>2, <1>3, <1>4, <1>5 DEF SyncOK, StatusOK, MonitorOK

\* The inductive invariant holds initially, when there is no Node.
LEMMA IndInit == Init => IndInv
<1> SUFFICES ASSUME Init PROVE IndInv
  OBVIOUS
<1>1. droplets \in [IDs -> [status : Statuses, address : 0..MaxAddresses]]
  BY DEF Init, Statuses
<1>2. disturbed \in [by : Scenarios, times : 0..MaxDisturbances]
  BY NodeAssumption DEF Init
<1>3. sync = Idle /\ status = Idle /\ monitor = Idle /\ node = Nil /\ lister = Nil
      /\ uid = 0 /\ due = FALSE
  BY DEF Init
<1>4. 0 \in 0..MaxUIDs
  BY NodeAssumption
<1>5. Types
  BY Zenon, <1>1, <1>2, <1>3, <1>4 DEF Types, Copy
<1>6. known(node) /\ known(lister)
  BY <1>3 DEF known, Known
<1>7. QED
  BY <1>3, <1>5, <1>6, IdleOK DEF IndInv

\* What the API answers about a droplet is metadata of one that exists.
LEMMA MetadataOK ==
  ASSUME Types, NEW n \in Node, NEW meta \in InstanceMetadata(n)
  PROVE  meta \in Meta /\ droplets[meta.providerID].status # "none"
<1>1. PICK d \in existing : meta \in [providerID : {d}, address : nodeAddresses(d)]
  BY DEF InstanceMetadata, dropletByName, dropletByProviderID
<1>2. d \in IDs /\ droplets[d].status # "none"
  BY DEF existing
<1>3. nodeAddresses(d) \subseteq 1..MaxAddresses
  BY <1>2, NodeAssumption DEF nodeAddresses, Types, NoAddress
<1>4. QED
  BY <1>1, <1>2, <1>3 DEF Meta

\* The lookup of a Node's droplet leads on to its deletion only if the droplet
\* has come and gone, whether or not the call fails.
LEMMA ExistsOK ==
  ASSUME Types, MonitorOK(monitor), monitor.pc = "exists", NEW err \in BOOLEAN
  PROVE  MonitorOK(afterExists(err))
<1>1. /\ monitor \in MonitorType /\ monitor.node \in Node /\ monitor.node # Nil
      /\ known(monitor.node)
  BY DEF MonitorOK, Stage, MonitorType, Copy
<1>2. monitor.node.providerID \in IDs \cup {NoID}
  BY <1>1 DEF Node
<1>3. CASE InstanceExists(monitor.node, err) = "error"
  BY <1>3, IdleOK DEF afterExists
<1>4. ASSUME NEW at \in {"shutdown", "delete"}, NEW b, b = [monitor EXCEPT !.pc = at],
             at = "delete" => /\ monitor.node.providerID # NoID
                              /\ droplets[monitor.node.providerID].status = "gone"
      PROVE  MonitorOK(b)
  <2>1. b \in MonitorType /\ b.pc = at /\ b.node = monitor.node
    BY <1>1, <1>4 DEF MonitorType
  <2>2. QED
    BY <1>1, <1>4, <2>1 DEF MonitorOK, Stage
<1>5. CASE InstanceExists(monitor.node, err) = "yes"
  <2>1. afterExists(err) = [monitor EXCEPT !.pc = "shutdown"]
    BY <1>5 DEF afterExists
  <2>2. QED
    BY <1>4, <2>1
<1>6. CASE InstanceExists(monitor.node, err) = "no"
  <2>1. monitor.node.providerID \notin existing \cup {NoID}
    BY <1>6 DEF InstanceExists
  <2>2. monitor.node.providerID \in IDs /\ monitor.node.providerID # NoID
    BY <1>2, <2>1
  <2>3. droplets[monitor.node.providerID].status \in Statuses \ {"none", "active", "off"}
    BY <1>1, <2>1, <2>2 DEF existing, Types, known, Known
  <2>4. droplets[monitor.node.providerID].status = "gone"
    BY <2>3 DEF Statuses
  <2>5. afterExists(err) = [monitor EXCEPT !.pc = "delete"]
    BY <1>6 DEF afterExists
  <2>6. QED
    BY <1>4, <2>2, <2>4, <2>5
<1>7. InstanceExists(monitor.node, err) \in {"error", "yes", "no"}
  BY DEF InstanceExists
<1>8. QED
  BY <1>3, <1>5, <1>6, <1>7

-------------------------------------------------------------------------------
(***************************************************************************)
(* What becomes of a copy when something else changes.                     *)
(***************************************************************************)

\* Droplets that have been created are not forgotten.
LEMMA KnownDroplets ==
  ASSUME NEW c \in Copy, NEW n, NEW u, NEW dr, NEW dr2, NEW by,
         Known(c, n, u, dr, by),
         \A d \in IDs : dr[d].status # "none" => dr2[d].status # "none"
  PROVE  Known(c, n, u, dr2, by)
BY DEF Known, Copy, Node

\* The Node changes, but neither who it is nor its initialisation.
LEMMA KnownEdited ==
  ASSUME NEW c \in Copy, NEW n \in Node, NEW n2 \in Node, NEW u, NEW dr, NEW by,
         n2.uid = n.uid, n2.providerID = n.providerID, n2.tainted = n.tainted,
         Known(c, n, u, dr, by), Known(n, n, u, dr, by)
  PROVE  Known(c, n2, u, dr, by) /\ Known(n2, n2, u, dr, by)
BY NodeAssumption DEF Known

\* The Node is removed.
LEMMA KnownRemoved ==
  ASSUME NEW c, NEW n, NEW u, NEW dr, NEW by, Known(c, n, u, dr, by)
  PROVE  Known(c, Nil, u, dr, by)
BY DEF Known

\* A Node younger than the copy is registered.
LEMMA KnownRegistered ==
  ASSUME NEW c \in Copy, NEW n, NEW n2 \in Node, NEW u \in Nat, NEW dr, NEW by,
         Known(c, n, u, dr, by), n2.uid = u + 1
  PROVE  Known(c, n2, u + 1, dr, by)
BY DEF Known, Copy, Node


-------------------------------------------------------------------------------
(***************************************************************************)
(* The steps.  A step has a history that loses nothing if what was known   *)
(* of a copy is known afterwards, and no droplet goes back to an earlier   *)
(* stage of its life.                                                      *)
(***************************************************************************)
Lossless ==
  /\ \A c \in Copy : known(c) => Known(c, node', uid', droplets', disturbed'.by)
  /\ \A d \in IDs : droplets[d].status # "none" => droplets'[d].status # "none"
  /\ \A d \in IDs : droplets[d].status = "gone" => droplets'[d].status = "gone"

\* What the loops hold stays right in such a step.
LEMMA Carried ==
  ASSUME Lossless
  PROVE  /\ lister' \in Copy /\ known(lister') => known(lister)'
         /\ SyncOK(sync') => SyncOK(sync)'
         /\ StatusOK(status') => StatusOK(status)'
         /\ MonitorOK(monitor') => MonitorOK(monitor)'
<1>1. lister' \in Copy /\ known(lister') => known(lister)'
  BY DEF Lossless, known
<1>2. SyncOK(sync') => SyncOK(sync)'
  <2>1. SUFFICES ASSUME SyncOK(sync') PROVE SyncOK(sync)'
    OBVIOUS
  <2>2. sync' \in SyncType /\ Stage(sync') /\ sync'.node \in Copy
    BY <2>1 DEF SyncOK, SyncType
  <2>3. Known(sync'.node, node', uid', droplets', disturbed'.by)
    BY <2>1, <2>2 DEF SyncOK, Lossless
  <2>4. sync'.pc = "update" => sync'.meta.providerID \in IDs
    BY <2>2 DEF Stage, Meta
  <2>5. QED
    BY <2>1, <2>2, <2>3, <2>4 DEF SyncOK, Lossless, known, Stage
<1>3. StatusOK(status') => StatusOK(status)'
  <2>1. SUFFICES ASSUME StatusOK(status') PROVE StatusOK(status)'
    OBVIOUS
  <2>2. status' \in StatusType /\ Stage(status') /\ status'.node \in Copy
    BY <2>1 DEF StatusOK, StatusType
  <2>3. QED
    BY <2>1, <2>2 DEF StatusOK, Lossless, known, Stage
<1>4. MonitorOK(monitor') => MonitorOK(monitor)'
  <2>1. SUFFICES ASSUME MonitorOK(monitor') PROVE MonitorOK(monitor)'
    OBVIOUS
  <2>2. monitor' \in MonitorType /\ Stage(monitor') /\ monitor'.node \in Copy
    BY <2>1 DEF MonitorOK, MonitorType
  <2>3. monitor'.pc = "delete" => monitor'.node.providerID \in IDs
    BY <2>1, <2>2 DEF MonitorOK, Stage, Copy, Node, NoID
  <2>4. QED
    BY <2>1, <2>2, <2>3 DEF MonitorOK, Lossless, known, Stage
<1>5. QED
  BY <1>1, <1>2, <1>3, <1>4

\* Steps that change neither the Node nor the droplets.
Quiet == UNCHANGED <<droplets, node, uid>> /\ disturbed'.by = disturbed.by

\* Such a step loses nothing a loop has read.
LEMMA QuietLossless == Quiet => Lossless
BY DEF Quiet, Lossless, known

\* The invariant after such a step, from what it says of the three loops.
LEMMA QuietStep ==
  ASSUME IndInv, Quiet, due' \in BOOLEAN, lister' \in {lister, node},
         disturbed' \in [by : Scenarios, times : 0..MaxDisturbances],
         SyncOK(sync'), StatusOK(status'), MonitorOK(monitor')
  PROVE  IndInv'
<1>1. Types'
  BY DEF IndInv, Types, Quiet
<1>2. lister' \in Copy /\ known(lister') /\ known(node)'
  BY DEF IndInv, Types, Quiet, known
<1>3. QED
  BY <1>1, <1>2, QuietLossless, Carried DEF IndInv

\* The node controller's worker up to its first write.
LEMMA SyncReads ==
  ASSUME IndInv, SyncStart \/ SyncMetadata
  PROVE  IndInv'
<1>1. /\ Quiet /\ UNCHANGED <<lister, status, monitor>>
      /\ disturbed' \in [by : Scenarios, times : 0..MaxDisturbances]
      /\ StatusOK(status') /\ MonitorOK(monitor')
  BY ZenonT(30) DEF SyncStart, SyncMetadata, Quiet, world, IndInv, Types
<1>2. due' \in BOOLEAN
  BY Zenon DEF SyncStart, SyncMetadata, Requeue, IndInv, Types
<1>3. CASE SyncStart
  <2>1. CASE lister # Nil /\ lister.tainted
    <3>1. lister \in Node /\ known(lister)
      BY <2>1 DEF IndInv, Types, Copy
    <3>2. sync' = [Idle EXCEPT !.pc = "metadata", !.node = lister]
      BY <1>3, <2>1 DEF SyncStart
    <3>3. SyncOK(sync')
      BY Zenon, <2>1, <3>1, <3>2, BegunOK
    <3>4. QED
      BY <1>1, <1>2, <3>3, QuietStep
  <2>2. CASE ~(lister # Nil /\ lister.tainted)
    <3>1. sync' = Idle
      BY <1>3, <2>2 DEF SyncStart
    <3>2. QED
      BY <1>1, <1>2, <3>1, IdleOK, QuietStep
  <2>3. QED
    BY <2>1, <2>2
<1>4. CASE SyncMetadata
  <2>1. /\ sync.pc = "metadata" /\ sync \in SyncType /\ sync.node \in Node
        /\ sync.node # Nil /\ known(sync.node) /\ sync.node.tainted
    BY Zenon, <1>4 DEF SyncMetadata, IndInv, SyncOK, Stage, SyncType, Copy
  <2>2. ASSUME NEW meta \in InstanceMetadata(sync.node),
               sync' = [sync EXCEPT !.pc = "update", !.meta = meta]
        PROVE  IndInv'
    <3>1. meta \in Meta /\ droplets[meta.providerID].status # "none"
      BY <2>1, <2>2, MetadataOK DEF IndInv
    <3>2. /\ sync' \in SyncType
          /\ sync'.pc = "update" /\ sync'.node = sync.node /\ sync'.meta = meta
      BY Zenon, <2>1, <2>2, <3>1 DEF SyncType
    <3>3. SyncOK(sync')
      BY <2>1, <3>1, <3>2 DEF SyncOK, Stage
    <3>4. QED
      BY <1>1, <1>2, <3>3, QuietStep
  <2>3. CASE Requeue
    BY <1>1, <1>2, <2>3, IdleOK, QuietStep DEF Requeue
  <2>4. QED
    BY ZenonT(30), <1>4, <2>2, <2>3 DEF SyncMetadata
<1>5. QED
  BY <1>3, <1>4

\* The periodic address update up to its write.
LEMMA StatusReads ==
  ASSUME IndInv, StatusStart \/ StatusMetadata
  PROVE  IndInv'
<1>1. /\ Quiet /\ UNCHANGED <<lister, sync, monitor>>
      /\ disturbed' \in [by : Scenarios, times : 0..MaxDisturbances]
      /\ SyncOK(sync') /\ MonitorOK(monitor') /\ due' \in BOOLEAN
  BY Zenon DEF StatusStart, StatusMetadata, Quiet, world, IndInv, Types
<1>2. CASE StatusStart
  <2>1. lister \in Node /\ known(lister)
    BY <1>2 DEF StatusStart, IndInv, Types, Copy
  <2>2. status' = [Idle EXCEPT !.pc = "metadata", !.node = lister]
    BY <1>2 DEF StatusStart
  <2>3. StatusOK(status')
    BY ZenonT(30), <2>1, <2>2, BegunOK
  <2>4. QED
    BY <1>1, <2>3, QuietStep
<1>3. CASE StatusMetadata
  <2>1. /\ status.pc = "metadata" /\ status \in StatusType /\ status.node \in Node
        /\ status.node # Nil /\ known(status.node)
    BY Zenon, <1>3 DEF StatusMetadata, IndInv, StatusOK, Stage, StatusType, Copy
  <2>2. ASSUME NEW meta \in InstanceMetadata(status.node),
               status' = [status EXCEPT !.pc = "address", !.meta = meta]
        PROVE  IndInv'
    <3>1. meta \in Meta
      BY <2>1, <2>2, MetadataOK DEF IndInv
    <3>2. /\ status' \in StatusType
          /\ status'.pc = "address" /\ status'.node = status.node /\ status'.meta = meta
      BY Zenon, <2>1, <2>2, <3>1 DEF StatusType
    <3>3. StatusOK(status')
      BY <2>1, <3>1, <3>2 DEF StatusOK, Stage
    <3>4. QED
      BY <1>1, <3>3, QuietStep
  <2>3. CASE status' = Idle
    BY <1>1, <2>3, IdleOK, QuietStep
  <2>4. QED
    BY ZenonT(30), <1>3, <2>2, <2>3 DEF StatusMetadata
<1>4. QED
  BY <1>2, <1>3

\* MonitorNodes' lookups.
LEMMA MonitorReads ==
  ASSUME IndInv, MonitorStart \/ MonitorExists \/ MonitorShutdown
  PROVE  IndInv'
<1>1. /\ Quiet /\ UNCHANGED <<lister, sync, status>>
      /\ disturbed' \in [by : Scenarios, times : 0..MaxDisturbances]
      /\ SyncOK(sync') /\ StatusOK(status') /\ due' \in BOOLEAN
  BY Zenon DEF MonitorStart, MonitorExists, MonitorShutdown, Quiet, world, IndInv, Types
<1>2. CASE MonitorStart
  <2>1. lister \in Node /\ known(lister)
    BY <1>2 DEF MonitorStart, IndInv, Types, Copy
  <2>2. PICK at \in {"untaint", "exists"} : monitor' = [Idle EXCEPT !.pc = at, !.node = lister]
    BY Zenon, <1>2 DEF MonitorStart
  <2>3. MonitorOK(monitor')
    BY Zenon, <2>1, <2>2, BegunOK
  <2>4. QED
    BY <1>1, <2>3, QuietStep
<1>3. CASE MonitorExists
  <2>1. MonitorOK(monitor')
    BY Zenon, <1>3, ExistsOK DEF MonitorExists, IndInv
  <2>2. QED
    BY <1>1, <2>1, QuietStep
<1>4. CASE MonitorShutdown
  <2>1. CASE monitor' = Idle
    BY <1>1, <2>1, IdleOK, QuietStep
  <2>2. CASE monitor' = [monitor EXCEPT !.pc = "taint"]
    <3>1. monitor \in MonitorType /\ monitor.pc = "shutdown" /\ Stage(monitor) /\ known(monitor.node)
      BY <1>4 DEF MonitorShutdown, IndInv, MonitorOK
    <3>2. monitor' \in MonitorType /\ monitor'.pc = "taint" /\ monitor'.node = monitor.node
      BY <2>2, <3>1 DEF MonitorType
    <3>3. MonitorOK(monitor')
      BY <3>1, <3>2 DEF MonitorOK, Stage
    <3>4. QED
      BY <1>1, <3>3, QuietStep
  <2>3. QED
    BY <1>4, <2>1, <2>2 DEF MonitorShutdown
<1>5. QED
  BY <1>2, <1>3, <1>4

\* A disturbance is counted.
LEMMA Disturbed ==
  ASSUME IndInv, NEW kind, Disturb(kind)
  PROVE  /\ disturbed' \in [by : Scenarios, times : 0..MaxDisturbances]
         /\ disturbed'.by = disturbed.by
BY NodeAssumption DEF Disturb, IndInv, Types

\* A call that fails ends a pass or, as a lookup, counts as an error.
LEMMA FailStep ==
  ASSUME IndInv, CallFails
  PROVE  IndInv'
<1>1. /\ Quiet /\ UNCHANGED lister
      /\ disturbed' \in [by : Scenarios, times : 0..MaxDisturbances]
  BY Disturbed DEF CallFails, Quiet
<1>2. due' \in BOOLEAN
  BY Zenon DEF CallFails, Requeue, IndInv, Types
<1>3. SyncOK(sync')
  BY Zenon, IdleOK DEF CallFails, Requeue, IndInv
<1>4. StatusOK(status')
  BY Zenon, IdleOK DEF CallFails, IndInv
<1>5. MonitorOK(monitor')
  BY Zenon, IdleOK, ExistsOK DEF CallFails, IndInv
<1>6. QED
  BY <1>1, <1>2, <1>3, <1>4, <1>5, QuietStep

\* The informer catches up.
LEMMA InformerStep ==
  ASSUME IndInv, Informer
  PROVE  IndInv'
<1>1. Quiet /\ disturbed' \in [by : Scenarios, times : 0..MaxDisturbances]
  BY DEF Informer, Quiet, world, IndInv, Types
<1>2. due' \in BOOLEAN /\ lister' = node
  BY DEF Informer
<1>3. SyncOK(sync') /\ StatusOK(status') /\ MonitorOK(monitor')
  BY DEF Informer, IndInv
<1>4. QED
  BY <1>1, <1>2, <1>3, QuietStep

-------------------------------------------------------------------------------
\* The Node is changed in what is neither its identity nor its initialisation.
sameNode ==
  \/ node' = node
  \/ /\ node \in Node /\ node' \in Node
     /\ node'.uid = node.uid /\ node'.providerID = node.providerID /\ node'.tainted = node.tainted

\* The invariant after a write of one Node that keeps what is known of it.
LEMMA EditStep ==
  ASSUME IndInv, sameNode \/ node' = Nil, UNCHANGED <<droplets, uid, lister, due>>,
         disturbed' \in [by : Scenarios, times : 0..MaxDisturbances],
         disturbed'.by = disturbed.by,
         SyncOK(sync'), StatusOK(status'), MonitorOK(monitor')
  PROVE  IndInv'
<1>1. Types'
  BY DEF IndInv, Types, sameNode, Copy
<1>2. \A c \in Copy : known(c) => Known(c, node', uid, droplets, disturbed.by)
  <2>1. CASE node' = node
    BY <2>1 DEF known
  <2>2. CASE node' = Nil
    BY <2>2, KnownRemoved DEF known
  <2>3. CASE sameNode /\ node' # node
    BY <2>3, KnownEdited DEF sameNode, known, IndInv
  <2>4. QED
    BY <2>1, <2>2, <2>3
<1>3. Lossless
  BY <1>2 DEF Lossless
<1>4. known(node)'
  <2>1. CASE node' = node
    BY <2>1 DEF known, IndInv
  <2>2. CASE node' = Nil
    BY <2>2 DEF known, Known
  <2>3. CASE sameNode /\ node' # node
    <3>1. Known(node', node', uid, droplets, disturbed.by)
      BY <2>3, KnownEdited DEF sameNode, known, IndInv, Copy
    <3>2. QED
      BY <3>1 DEF known
  <2>4. QED
    BY <2>1, <2>2, <2>3
<1>5. lister' \in Copy /\ known(lister')
  BY DEF IndInv, Types
<1>6. QED
  BY <1>1, <1>3, <1>4, <1>5, Carried DEF IndInv

\* Patches of addresses and of the shutdown taint are such changes.
LEMMA PatchesKeepNode ==
  ASSUME Types
  PROVE  /\ \A taint \in BOOLEAN : setShutdown(taint) => sameNode
         /\ SyncOK(sync) /\ sync.pc = "address" /\ patchAddress(sync) => sameNode
         /\ StatusOK(status) /\ status.pc = "address" /\ patchAddress(status) => sameNode
<1>1. ASSUME node # Nil, NEW a \in 0..MaxAddresses, node' = [node EXCEPT !.address = a]
      PROVE  sameNode
  BY <1>1 DEF sameNode, Types, Copy, Node
<1>2. ASSUME NEW taint \in BOOLEAN, setShutdown(taint)
      PROVE  sameNode
  BY <1>2 DEF setShutdown, sameNode, Types, Copy, Node
<1>3. \A meta \in Meta : meta.address \in 0..MaxAddresses
  BY NodeAssumption DEF Meta
<1>4. SyncOK(sync) /\ sync.pc = "address" /\ patchAddress(sync) => sameNode
  <2>1. SUFFICES ASSUME SyncOK(sync), sync.pc = "address", patchAddress(sync) PROVE sameNode
    OBVIOUS
  <2>2. sync.meta.address \in 0..MaxAddresses
    BY <1>3, <2>1 DEF SyncOK, Stage
  <2>3. node' = node \/ (node # Nil /\ node' = [node EXCEPT !.address = sync.meta.address])
    BY <2>1 DEF patchAddress
  <2>4. QED
    BY <1>1, <2>2, <2>3 DEF sameNode
<1>5. StatusOK(status) /\ status.pc = "address" /\ patchAddress(status) => sameNode
  <2>1. SUFFICES ASSUME StatusOK(status), status.pc = "address", patchAddress(status) PROVE sameNode
    OBVIOUS
  <2>2. status.meta.address \in 0..MaxAddresses
    BY <1>3, <2>1 DEF StatusOK, Stage
  <2>3. node' = node \/ (node # Nil /\ node' = [node EXCEPT !.address = status.meta.address])
    BY <2>1 DEF patchAddress
  <2>4. QED
    BY <1>1, <2>2, <2>3 DEF sameNode
<1>6. QED
  BY <1>2, <1>4, <1>5

\* The loops' writes, apart from the worker's update of the Node.
LEMMA LoopWrites ==
  ASSUME IndInv,
         \/ SyncAddress \/ StatusAddress
         \/ MonitorUntaint \/ MonitorTaint \/ MonitorDelete
  PROVE  IndInv'
<1>1. sameNode \/ node' = Nil
  BY Zenon, PatchesKeepNode
  DEF SyncAddress, StatusAddress, MonitorUntaint, MonitorTaint, MonitorDelete, IndInv
<1>2. /\ UNCHANGED <<droplets, uid, lister, due>>
      /\ disturbed' \in [by : Scenarios, times : 0..MaxDisturbances]
      /\ disturbed'.by = disturbed.by
  BY Zenon DEF SyncAddress, StatusAddress, MonitorUntaint, MonitorTaint, MonitorDelete, world, IndInv, Types
<1>3. SyncOK(sync') /\ StatusOK(status') /\ MonitorOK(monitor')
  BY Zenon, IdleOK DEF SyncAddress, StatusAddress, MonitorUntaint, MonitorTaint, MonitorDelete, IndInv
<1>4. QED
  BY <1>1, <1>2, <1>3, EditStep

\* What kubelets and users do to a Node that is there.
LEMMA OthersWrite ==
  ASSUME IndInv, (\E d \in IDs : Adopt(d)) \/ Readiness \/ UserDeletes
  PROVE  IndInv'
<1>1. sameNode \/ node' = Nil
  BY ZenonT(60) DEF Adopt, Readiness, UserDeletes, sameNode, IndInv, Types, Copy, Node
<1>2. /\ UNCHANGED <<droplets, uid, lister, due>>
      /\ disturbed' \in [by : Scenarios, times : 0..MaxDisturbances]
      /\ disturbed'.by = disturbed.by
  BY Disturbed DEF Adopt, Readiness, UserDeletes
<1>3. SyncOK(sync') /\ StatusOK(status') /\ MonitorOK(monitor')
  BY DEF Adopt, Readiness, UserDeletes, IndInv
<1>4. QED
  BY <1>1, <1>2, <1>3, EditStep

\* A kubelet registers a Node, which is younger than every copy.
LEMMA RegisterStep ==
  ASSUME IndInv, NEW d \in IDs, Register(d)
  PROVE  IndInv'
<1>1. /\ uid \in Nat /\ uid + 1 \in 1..MaxUIDs /\ uid' = uid + 1
      /\ UNCHANGED <<droplets, lister, due, sync, status, monitor, disturbed>>
      /\ droplets[d].status = "active"
  BY NodeAssumption DEF Register, IndInv, Types
<1>2. /\ node' \in Node /\ node'.uid = uid + 1 /\ node'.tainted = TRUE
      /\ node'.providerID \in registeredIDs(d)
  <2>1. PICK id \in registeredIDs(d) :
          node' = [uid |-> uid + 1, providerID |-> id, host |-> d, tainted |-> TRUE,
                   shutdown |-> FALSE, ready |-> FALSE, address |-> NoAddress]
    BY Zenon DEF Register
  <2>2. id \in IDs \cup {NoID}
    BY DEF registeredIDs
  <2>3. QED
    BY <1>1, <2>1, <2>2, NodeAssumption DEF Node, NoAddress
<1>3. Types'
  BY <1>1, <1>2, NodeAssumption DEF IndInv, Types, Copy
<1>4. Lossless
  BY Zenon, <1>1, <1>2, KnownRegistered DEF Lossless, known
<1>5. known(node)'
  BY <1>1, <1>2 DEF known, Known, registeredIDs, IDs, NoID
<1>6. lister' \in Copy /\ known(lister')
  BY <1>1 DEF IndInv, Types
<1>7. SyncOK(sync') /\ StatusOK(status') /\ MonitorOK(monitor')
  BY <1>1 DEF IndInv
<1>8. QED
  BY <1>3, <1>4, <1>5, <1>6, <1>7, Carried DEF IndInv

\* Droplets are created, switched, given addresses and destroyed.
LEMMA DropletStep ==
  ASSUME IndInv, DropletChanges
  PROVE  IndInv'
<1>1. PICK d \in IDs, kind \in {"address", "power", "destroy", "reuse"},
           from, to \in [status : Statuses, address : 0..MaxAddresses] :
        /\ Change(d, kind, from, to)
        /\ to \in [status : Statuses \ {"none"}, address : 0..MaxAddresses]
        /\ from.status \in {"none", "active", "off"}
  BY DEF DropletChanges, Statuses
<1>2. /\ droplets[d] = from /\ droplets' = [droplets EXCEPT ![d] = to]
      /\ UNCHANGED <<node, lister, uid, due, sync, status, monitor>>
      /\ disturbed' \in [by : Scenarios, times : 0..MaxDisturbances]
      /\ disturbed'.by = disturbed.by
  BY <1>1, Disturbed DEF Change
<1>3. Types'
  BY <1>1, <1>2 DEF IndInv, Types
<1>4. /\ \A e \in IDs : droplets[e].status # "none" => droplets'[e].status # "none"
      /\ \A e \in IDs : droplets[e].status = "gone" => droplets'[e].status = "gone"
  BY <1>1, <1>2 DEF IndInv, Types
<1>5. \A c \in Copy : known(c) => Known(c, node', uid', droplets', disturbed'.by)
  BY Zenon, <1>2, <1>4, KnownDroplets DEF known
<1>6. Lossless
  BY <1>4, <1>5 DEF Lossless
<1>7. known(node)' /\ lister' \in Copy /\ known(lister')
  BY Zenon, <1>2, <1>5 DEF IndInv, Types, known
<1>8. SyncOK(sync') /\ StatusOK(status') /\ MonitorOK(monitor')
  BY <1>2 DEF IndInv
<1>9. QED
  BY <1>3, <1>6, <1>7, <1>8, Carried DEF IndInv

\* The worker removes the taint and sets the provider ID.  It has copied a Node
\* that was not initialised; if the copy has a provider ID, so has the Node, or
\* the scenario is mixed and the Node is not the first.
LEMMA UpdateStep ==
  ASSUME IndInv, SyncUpdate
  PROVE  IndInv'
<1>1. /\ sync.pc = "update" /\ UNCHANGED <<lister, status, monitor, droplets, uid, disturbed>>
      /\ disturbed' \in [by : Scenarios, times : 0..MaxDisturbances]
  BY DEF SyncUpdate, world, IndInv, Types
<1>2. CASE updateAllowed /\ UNCHANGED due /\ node' = modified(lister)
           /\ sync' = [sync EXCEPT !.pc = "address", !.node = modified(lister)]
  <2>1. /\ sync \in SyncType /\ sync.node \in Node /\ sync.node # Nil /\ sync.node.tainted
        /\ sync.meta \in Meta /\ droplets[sync.meta.providerID].status # "none"
        /\ known(sync.node)
    BY <1>1 DEF IndInv, SyncOK, Stage, SyncType, Copy
  <2>2. /\ lister \in Node /\ lister = node /\ lister # Nil /\ known(lister)
        /\ node.providerID \in {NoID, modified(lister).providerID}
    BY <1>2 DEF updateAllowed, IndInv, Types, Copy
  <2>3. /\ node' \in Node /\ node'.uid = node.uid /\ node'.tainted = FALSE
        /\ node'.providerID = IF sync.node.providerID = NoID
                              THEN sync.meta.providerID ELSE node.providerID
    BY ZenonT(60), <1>2, <2>1, <2>2 DEF modified, Node, Meta
  <2>4. /\ node'.providerID # NoID => droplets[node'.providerID].status # "none"
        /\ node'.providerID = NoID => "mixed" \in disturbed.by /\ node'.uid > 1
    <3>1. CASE sync.node.providerID = NoID
      BY <2>1, <2>3, <3>1 DEF Meta, IDs, NoID
    <3>2. CASE sync.node.providerID # NoID
      <4>1. node'.providerID = node.providerID
        BY <2>3, <3>2
      <4>2. node.providerID # NoID => droplets[node.providerID].status # "none"
        BY <2>2 DEF known, Known
      <4>3. ASSUME node.providerID = NoID PROVE "mixed" \in disturbed.by /\ node.uid > 1
        <5>1. "mixed" \in disturbed.by
          BY <2>1, <2>2, <3>2, <4>3 DEF known, Known
        <5>2. sync.node.uid <= uid /\ node.uid = uid /\ sync.node.uid # node.uid
          BY <2>1, <2>2, <3>2, <4>3 DEF known, Known
        <5>3. sync.node.uid \in 1..MaxUIDs /\ node.uid \in 1..MaxUIDs
          BY <2>1, <2>2 DEF Node
        <5>4. QED
          BY <5>1, <5>2, <5>3, NodeAssumption
      <4>4. QED
        BY <2>3, <4>1, <4>2, <4>3
    <3>3. QED
      BY <3>1, <3>2
  <2>5. Known(node', node', uid, droplets, disturbed.by)
    BY <2>2, <2>3, <2>4 DEF known, Known
  <2>6. \A c \in Copy : known(c) => Known(c, node', uid, droplets, disturbed.by)
    <3>1. SUFFICES ASSUME NEW c \in Copy, known(c), c # Nil, c.uid = node'.uid, c.providerID # NoID
                   PROVE  node'.providerID = c.providerID
      BY <2>2, <2>3 DEF known, Known
    <3>2. node.providerID = c.providerID
      BY <2>2, <2>3, <3>1 DEF known, Known
    <3>3. QED
      BY <1>2, <2>2, <3>1, <3>2
  <2>7. Lossless
    BY <1>1, <2>6 DEF Lossless
  <2>8. Types'
    BY <1>1, <1>2, <2>3 DEF IndInv, Types, Copy
  <2>9. SyncOK(sync)'
    <3>1. /\ sync' \in SyncType
          /\ sync'.pc = "address" /\ sync'.node = node' /\ sync'.meta = sync.meta
      BY Zenon, <1>2, <2>1, <2>3 DEF SyncType, Copy
    <3>2. node' # Nil
      BY <2>3, NodeAssumption
    <3>3. known(sync.node)'
      BY <1>1, <2>5, <3>1 DEF known
    <3>4. QED
      BY <2>1, <3>1, <3>2, <3>3 DEF SyncOK, Stage
  <2>10. known(node)' /\ lister' \in Copy /\ known(lister')
    BY <1>1, <2>2, <2>5 DEF known, Copy
  <2>11. StatusOK(status') /\ MonitorOK(monitor')
    BY <1>1 DEF IndInv
  <2>12. QED
    BY <2>7, <2>8, <2>9, <2>10, <2>11, Carried DEF IndInv
<1>3. CASE Requeue /\ UNCHANGED node
  <2>1. Quiet /\ SyncOK(sync') /\ due' \in BOOLEAN
    BY <1>1, <1>3, IdleOK DEF Quiet, Requeue
  <2>2. StatusOK(status') /\ MonitorOK(monitor')
    BY <1>1 DEF IndInv
  <2>3. QED
    BY <1>1, <2>1, <2>2, QuietStep
<1>4. QED
  BY <1>2, <1>3 DEF SyncUpdate

\* Every step preserves the inductive invariant.
LEMMA IndStep == IndInv /\ [Next]_vars => IndInv'
<1> SUFFICES ASSUME IndInv, [Next]_vars PROVE IndInv'
  OBVIOUS
<1>1. CASE Sync
  BY <1>1, SyncReads, UpdateStep, LoopWrites DEF Sync
<1>2. CASE Status
  BY <1>2, StatusReads, LoopWrites DEF Status
<1>3. CASE Monitor
  BY <1>3, MonitorReads, LoopWrites DEF Monitor
<1>4. CASE CallFails \/ Informer
  BY <1>4, FailStep, InformerStep
<1>5. CASE \E d \in IDs : Register(d) \/ Adopt(d)
  BY <1>5, RegisterStep, OthersWrite
<1>6. CASE Readiness \/ UserDeletes \/ DropletChanges
  BY <1>6, OthersWrite, DropletStep
<1>7. CASE UNCHANGED vars
  <2>1. /\ UNCHANGED <<droplets, uid, lister, due>> /\ sameNode
        /\ disturbed' \in [by : Scenarios, times : 0..MaxDisturbances]
        /\ disturbed'.by = disturbed.by
    BY <1>7 DEF vars, sameNode, IndInv, Types
  <2>2. SyncOK(sync') /\ StatusOK(status') /\ MonitorOK(monitor')
    BY <1>7 DEF vars, IndInv
  <2>3. QED
    BY <2>1, <2>2, EditStep
<1>8. QED
  BY <1>1, <1>2, <1>3, <1>4, <1>5, <1>6, <1>7 DEF Next

\* The invariant holds throughout.
LEMMA Invariance == Spec => []IndInv
BY IndInit, IndStep, PTL DEF Spec

\* The node loops' state is well typed for every number of droplets and Nodes; in
\* particular a step that applies metadata has them.
THEOREM TypeCorrect == Spec => []TypeOK
BY Invariance, IndTypeOK, PTL

\* InitialisedHaveID for all constants: whichever copy syncNode works on, it
\* removes the taint from no Node without a provider ID, except from one that
\* replaced a Node whose kubelet, unlike its own, had set the ID.
THEOREM InitialisedSound == Spec => []InitialisedHaveID
BY Invariance, IndHaveID, PTL

\* LiveNodesKept for all constants: MonitorNodes deletes no Node whose droplet
\* exists, unless the Node was registered after the lookup.
THEOREM LiveKept == Spec => LiveNodesKept
<1>1. ASSUME IndInv, monitor.pc = "delete", node # Nil, node.uid = monitor.node.uid
      PROVE  node.providerID \notin existing
  <2>1. /\ monitor.node # Nil /\ monitor.node.providerID # NoID /\ known(monitor.node)
        /\ droplets[monitor.node.providerID].status = "gone"
    BY <1>1 DEF IndInv, MonitorOK, Stage
  <2>2. node.providerID = monitor.node.providerID
    BY <1>1, <2>1 DEF known, Known
  <2>3. QED
    BY <2>1, <2>2 DEF existing
<1>2. IndInv /\ [Next]_vars =>
        [monitor.pc = "delete" /\ node # Nil /\ node' = Nil /\ monitor' = Idle
           => node.providerID \notin existing \/ node.uid # monitor.node.uid]_vars
  BY <1>1
<1>3. QED
  BY <1>2, Invariance, PTL DEF Spec, LiveNodesKept
===============================================================================
