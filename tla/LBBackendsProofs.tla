--------------------------- MODULE LBBackendsProofs ---------------------------
(***************************************************************************)
(* Proofs about LBBackends for every set of nodes, every look a node may   *)
(* have and every configuration: the type invariant and what a pass may    *)
(* never do to the backends of a load balancer.                            *)
(***************************************************************************)
EXTENDS LBBackends, TLAPS

\* The nodes a request built now is about: with a usable address, and admitted.
Ready  == lbReadyNodes(listed, present, cfg)
Chosen == admit(listed, Ready, backends)

\* The list has exactly the nodes that are there.
LEMMA ListedDomain ==
  DOMAIN listed = present /\ \A n \in present : listed[n] = nodes[n]
BY DEF listed

\* What buildLoadBalancerRequest has established when it returns no error.
LEMMA RequestOK ==
  ASSUME request.kind = "ok"
  PROVE  /\ request.droplets = {n \in Chosen : hasDroplet(listed[n])}
         /\ request.stack = networkStack(listed, Chosen, cfg)
         /\ request.pending = Ready \ Chosen
         /\ networkStackOK(listed, Chosen, cfg)
         /\ \A n \in Chosen : listed[n].providerID # "bad"
         /\ Chosen \subseteq Ready
<1>1. DOMAIN listed = present
  BY ListedDomain
<1>2. Chosen \subseteq Ready
  BY DEF Chosen, admit
<1>3. QED
  BY <1>1, <1>2 DEF request, buildLoadBalancerRequest, Chosen, Ready, Failed, Outcome,
    nodesToDropletIDs

\* The nodes with a usable address are among those that are there.
LEMMA ReadyPresent == Ready \subseteq present
BY DEF Ready, lbReadyNodes, singleStackV4Nodes, dualStackNodes, ofClass

\* A node that is there is one of NodeSpecs.
LEMMA PresentSpecs ==
  ASSUME TypeOK, NEW n \in present
  PROVE  nodes[n] \in NodeSpecs /\ n \in Names /\ listed[n] = nodes[n]
BY ListedDomain DEF TypeOK, present

\* What a step does to the load balancer is what a pass writes.
LEMMA OnlySyncWrites ==
  ASSUME [Next]_vars, ~UNCHANGED <<backends, stack>>
  PROVE  /\ request.kind = "ok"
         /\ backends' = request.droplets /\ stack' = request.stack
         /\ UNCHANGED <<nodes, cfg>>
BY Zenon DEF Next, NodeChange, Sync, SyncFails, SyncWrites, vars

\* Initially there is no load balancer.
LEMMA TypeInit == Init => TypeOK
BY BackendsAssumption DEF Init, TypeOK

\* Every step keeps the state well typed: getNetworkStack lets no unknown stack
\* pass, and droplets are those of nodes that are there.
LEMMA TypeStep == TypeOK /\ [Next]_vars => TypeOK'
<1> SUFFICES ASSUME TypeOK, [Next]_vars PROVE TypeOK'
  OBVIOUS
<1>1. ASSUME NEW n \in Names, NEW spec \in NodeSpecs \cup {Absent}, NodeChange(n, spec)
      PROVE  TypeOK'
  <2>1. due' \in BOOLEAN
    BY <1>1 DEF NodeChange
  <2>2. changes' \in 0..MaxChanges
    BY <1>1, BackendsAssumption DEF NodeChange, TypeOK
  <2>3. QED
    BY <1>1, <2>1, <2>2 DEF NodeChange, TypeOK
<1>2. CASE Sync
  <2>1. CASE SyncFails(request)
    BY <1>2, <2>1 DEF Sync, SyncFails, TypeOK
  <2>2. CASE SyncWrites(request)
    <3>1. request.kind = "ok" /\ backends' = request.droplets /\ stack' = request.stack
      BY <2>2 DEF SyncWrites
    <3>2. backends' \subseteq Names
      BY <3>1, RequestOK, ReadyPresent DEF present
    <3>3. stack' \in {NoStack, "IPV4", "DUALSTACK"}
      BY <3>1, RequestOK DEF networkStackOK
    <3>4. due' \in BOOLEAN
      BY <2>2 DEF SyncWrites
    <3>5. QED
      BY <1>2, <3>2, <3>3, <3>4 DEF Sync, TypeOK
  <2>3. QED
    BY <1>2, <2>1, <2>2 DEF Sync
<1>3. CASE UNCHANGED vars
  BY <1>3 DEF vars, TypeOK
<1>4. QED
  BY <1>1, <1>2, <1>3 DEF Next

\* TypeOK for every cluster: in particular the network stack a pass writes is one
\* the API knows, whatever the annotation says.
THEOREM TypeCorrect == Spec => []TypeOK
BY TypeInit, TypeStep, PTL DEF Spec

-------------------------------------------------------------------------------
\* What a step that changes the load balancer does, written with the nodes.
LEMMA Written ==
  ASSUME TypeOK, [Next]_vars, ~UNCHANGED <<backends, stack>>
  PROVE  /\ UNCHANGED <<nodes, cfg>>
         /\ Chosen \subseteq Ready /\ Ready \subseteq present /\ Chosen # {}
         /\ networkStackOK(listed, Chosen, cfg)
         /\ stack' = networkStack(listed, Chosen, cfg)
         /\ backends' = {n \in Chosen : hasDroplet(nodes[n])}
         /\ \A n \in Chosen : nodes[n].providerID \in {"set", "empty"}
<1>1. /\ request.kind = "ok"
      /\ backends' = request.droplets /\ stack' = request.stack
      /\ UNCHANGED <<nodes, cfg>>
  BY OnlySyncWrites
<1>2. /\ request.droplets = {n \in Chosen : hasDroplet(listed[n])}
      /\ request.stack = networkStack(listed, Chosen, cfg)
      /\ networkStackOK(listed, Chosen, cfg)
      /\ \A n \in Chosen : listed[n].providerID # "bad"
      /\ Chosen \subseteq Ready
  BY <1>1, RequestOK
<1>3. Ready \subseteq present
  BY ReadyPresent
<1>4. \A n \in Chosen : listed[n] = nodes[n] /\ nodes[n] \in NodeSpecs
  BY <1>2, <1>3, PresentSpecs
<1>5. \A n \in Chosen : nodes[n].providerID \in {"set", "empty"}
  BY <1>2, <1>4, BackendsAssumption
<1>6. Chosen # {}
  <2>1. lbReadyNodes(listed, Chosen, cfg) # {}
    BY <1>2 DEF networkStackOK
  <2>2. lbReadyNodes(listed, Chosen, cfg) \subseteq Chosen
    BY DEF lbReadyNodes, singleStackV4Nodes, dualStackNodes, ofClass
  <2>3. QED
    BY <2>1, <2>2
<1>7. QED
  BY <1>1, <1>2, <1>3, <1>4, <1>5, <1>6

\* No pass writes the empty set of backends, for every cluster, unless a node
\* has neither a provider ID nor a droplet of its name.
THEOREM NeverEmpty == Spec => BackendsNeverEmpty
<1>1. ASSUME TypeOK, [Next]_vars, ~UNCHANGED <<backends, stack>>, backends' = {}
      PROVE  \E n \in present : nodes[n].providerID = "empty" /\ ~nodes[n].found
  <2>1. PICK n \in Chosen : n \in present /\ ~hasDroplet(nodes[n])
    BY <1>1, Written
  <2>2. nodes[n].providerID \in {"set", "empty"}
    BY <1>1, <2>1, Written
  <2>3. QED
    BY <2>1, <2>2 DEF hasDroplet
<1>2. QED
  BY <1>1, TypeCorrect, PTL DEF Spec, BackendsNeverEmpty

\* A node once attached stays so while it is listed, has its provider ID and a
\* usable address, for every cluster and however its readiness changes.
THEOREM StayAttached == Spec => AttachedStay
<1>1. ASSUME TypeOK, [Next]_vars, ~UNCHANGED <<backends, stack>>,
             NEW n \in backends \cap present, usable(n), nodes[n].providerID = "set"
      PROVE  n \in backends'
  <2>1. n \in Ready
    BY <1>1 DEF usable, Ready
  <2>2. listed[n] = nodes[n]
    BY <1>1, PresentSpecs
  <2>3. n \in Chosen
    BY <1>1, <2>1, <2>2 DEF Chosen, admit, admitted
  <2>4. hasDroplet(nodes[n])
    BY <1>1 DEF hasDroplet
  <2>5. QED
    BY <1>1, <2>3, <2>4, Written
<1>2. TypeOK /\ [Next]_vars =>
        [\A n \in backends \cap present :
           usable(n) /\ nodes[n].providerID = "set" => n \in backends']_<<backends, stack>>
  BY <1>1
<1>3. QED
  BY <1>2, TypeCorrect, PTL DEF Spec, AttachedStay

\* A node with a usable address that is not classified as IPv4 only has both
\* external addresses.
LEMMA DualNodes ==
  ASSUME NEW n \in Ready, cfg.network # "INTERNAL",
         n \notin singleStackV4Nodes(listed, {n}, cfg), listed[n].v6 \in BOOLEAN
  PROVE  listed[n].v4 /\ listed[n].v6
<1>1. classifyNode(listed[n], allowsPrivateOnlyBackends(cfg)) = "dualStack"
  BY DEF Ready, lbReadyNodes, singleStackV4Nodes, dualStackNodes, ofClass
<1>2. hasIPv4(listed[n], allowsPrivateOnlyBackends(cfg)) /\ listed[n].v6
  BY <1>1 DEF classifyNode
<1>3. QED
  BY <1>2 DEF hasIPv4

\* A pass-through load balancer is put on DUALSTACK only when every node it is
\* given has both addresses, for every cluster and whatever the annotation says.
THEOREM DualStackSound == Spec => DualStackOnlyOnDualNodes
<1>1. ASSUME TypeOK, [Next]_vars, ~UNCHANGED <<backends, stack>>,
             stack' = "DUALSTACK", cfg.type = "REGIONAL_NETWORK",
             NEW n \in backends' \cap present
      PROVE  nodes[n].v4 /\ nodes[n].v6
  <2>1. /\ n \in Chosen /\ Chosen \subseteq Ready
        /\ networkStackOK(listed, Chosen, cfg)
        /\ stack' = networkStack(listed, Chosen, cfg)
    BY <1>1, Written
  <2>2. cfg.network # "INTERNAL" /\ singleStackV4Nodes(listed, Chosen, cfg) = {}
    BY <1>1, <2>1 DEF networkStackOK
  <2>3. n \notin singleStackV4Nodes(listed, {n}, cfg)
    BY <2>1, <2>2 DEF singleStackV4Nodes, ofClass
  <2>4. listed[n] = nodes[n] /\ listed[n].v6 \in BOOLEAN
    BY <1>1, PresentSpecs, BackendsAssumption
  <2>5. QED
    BY <2>1, <2>2, <2>3, <2>4, DualNodes
<1>2. TypeOK /\ [Next]_vars =>
        [/\ stack' = "DUALSTACK"
         /\ cfg.type = "REGIONAL_NETWORK"
         => \A n \in backends' \cap present : nodes[n].v4 /\ nodes[n].v6]_<<backends, stack>>
  BY <1>1
<1>3. QED
  BY <1>2, TypeCorrect, PTL DEF Spec, DualStackOnlyOnDualNodes

-------------------------------------------------------------------------------
\* A node the address filter leaves out while nothing is pending will stay out:
\* it is on the private network or has IPv6 only.
LEMMA LeftOut ==
  ASSUME TypeOK, NEW n \in present, n \notin Ready, pendingInitNodes(listed, cfg) = {}
  PROVE  ineligible(n)
<1>1. listed[n] = nodes[n] /\ nodes[n] \in NodeSpecs /\ DOMAIN listed = present
  BY PresentSpecs, ListedDomain
<1>2. cfg.network = "EXTERNAL"
  BY BackendsAssumption DEF TypeOK, Ready, lbReadyNodes
<1>3. ~usable(n)
  BY DEF usable, Ready
<1>4. CASE nodes[n].v6
  BY <1>2, <1>3, <1>4 DEF ineligible
<1>5. CASE ~nodes[n].v6
  <2>1. ~hasIPv4(nodes[n], allowsPrivateOnlyBackends(cfg))
    <3>1. SUFFICES ASSUME hasIPv4(nodes[n], allowsPrivateOnlyBackends(cfg)) PROVE FALSE
      OBVIOUS
    <3>2. classifyNode(nodes[n], allowsPrivateOnlyBackends(cfg)) = "singleStackV4"
      BY <1>5, <3>1 DEF classifyNode
    <3>3. QED
      BY <1>1, <1>2, <3>2 DEF Ready, lbReadyNodes, singleStackV4Nodes, ofClass
  <2>2. classifyNode(nodes[n], allowsPrivateOnlyBackends(cfg)) = "publicNetUnready"
    BY <1>5, <2>1 DEF classifyNode
  <2>3. n \in publicNetUnreadyNodes(listed, DOMAIN listed, cfg)
    BY <1>1, <1>2, <2>2 DEF publicNetUnreadyNodes, ofClass
  <2>4. nodes[n].private
    BY <1>1, <2>3 DEF pendingInitNodes, nodeIntendsPublicNetwork
  <2>5. QED
    BY <1>2, <1>3, <2>4 DEF ineligible
<1>6. QED
  BY <1>4, <1>5

\* A pass that will not be repeated leaves out no node that could become a
\* backend, for every cluster: whatever the filters hold back makes
\* retryIfNodesPendingInit ask for another pass.
THEOREM NothingForgotten == Spec => NoNodeForgotten
<1>1. ASSUME TypeOK, [Next]_vars, due, ~due', NEW n \in present, hasDroplet(nodes[n])
      PROVE  n \in backends' \/ ineligible(n)
  <2>1. SyncWrites(request)
    BY Zenon, <1>1 DEF Next, NodeChange, Sync, SyncFails, vars
  <2>2. /\ request.kind = "ok" /\ backends' = request.droplets
        /\ pendingInitNodes(listed, cfg) = {} /\ request.pending = {}
    BY <1>1, <2>1 DEF SyncWrites, retryIfNodesPendingInit
  <2>3. request.droplets = {m \in Chosen : hasDroplet(listed[m])} /\ Ready \subseteq Chosen
    BY <2>2, RequestOK
  <2>4. CASE n \in Ready
    BY <1>1, <2>2, <2>3, <2>4, PresentSpecs
  <2>5. CASE n \notin Ready
    BY <1>1, <2>2, <2>5, LeftOut
  <2>6. QED
    BY <2>4, <2>5
<1>2. TypeOK /\ [Next]_vars =>
        [due /\ ~due' =>
           \A n \in present : n \in backends' \/ ineligible(n) \/ ~hasDroplet(nodes[n])]_vars
  BY <1>1
<1>3. QED
  BY <1>2, TypeCorrect, PTL DEF Spec, NoNodeForgotten
===============================================================================
