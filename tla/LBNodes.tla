------------------------------- MODULE LBNodes -------------------------------
(***************************************************************************)
(* Which nodes back a load balancer (loadbalancers.go): classification by  *)
(* address, the hold-back of nodes that are not serving yet, the network   *)
(* stack derived from the nodes that remain, and the request or the error  *)
(* that comes out of it.                                                   *)
(*                                                                         *)
(* A node list is a function from node names to records                    *)
(*   [v4, v6, internal4, private, ready, held, providerID, found]          *)
(* v4, v6, internal4: has an external IPv4, external IPv6, internal IPv4   *)
(* address; private: is labelled as a private-network node; ready: its     *)
(* NodeReady condition is True; held: carries the critical-components      *)
(* taint; providerID: "set", "empty" or "bad" (does not parse); found: the *)
(* droplet list has a droplet of this name.  The droplet of node n is      *)
(* called n as well.                                                       *)
(*                                                                         *)
(* A configuration is a record [type, network, stack]: the load balancer's *)
(* type and network as getType and getNetwork return them, and the value   *)
(* of the network stack annotation (NoStack when it is missing or empty).  *)
(***************************************************************************)
EXTENDS Integers, FiniteSets

NoStack == "none"

(***************************************************************************)
(* Classification.                                                         *)
(***************************************************************************)
allowsPrivateOnlyBackends(cfg) ==
  cfg.network = "INTERNAL" \/ (cfg.network = "EXTERNAL" /\ cfg.type = "REGIONAL")

\* The internal address counts only when there is no external one.
hasIPv4(node, allowInternalFallback) ==
  node.v4 \/ (~node.v6 /\ allowInternalFallback /\ node.internal4)

classifyNode(node, allowInternalFallback) ==
  LET v4 == hasIPv4(node, allowInternalFallback) IN
  CASE v4 /\ node.v6   -> "dualStack"
    [] v4 /\ ~node.v6  -> "singleStackV4"
    [] ~v4 /\ node.v6  -> "singleStackV6"
    [] ~v4 /\ ~node.v6 -> "publicNetUnready"

\* filterAndClassifyNodes, its nodeState as operators: the nodes of a class, and
\* lbReadyNodes.  An internal load balancer takes every node and classifies none.
ofClass(class, nodes, names, cfg) ==
  {n \in names : /\ cfg.network # "INTERNAL"
                 /\ classifyNode(nodes[n], allowsPrivateOnlyBackends(cfg)) = class}

singleStackV4Nodes(nodes, names, cfg)    == ofClass("singleStackV4", nodes, names, cfg)
dualStackNodes(nodes, names, cfg)        == ofClass("dualStack", nodes, names, cfg)
publicNetUnreadyNodes(nodes, names, cfg) == ofClass("publicNetUnready", nodes, names, cfg)

lbReadyNodes(nodes, names, cfg) ==
  IF cfg.network = "INTERNAL"
  THEN names
  ELSE singleStackV4Nodes(nodes, names, cfg) \cup dualStackNodes(nodes, names, cfg)

nodeIntendsPublicNetwork(node) == ~node.private

\* pendingInitNodes of the nodes without a usable address.
pendingInitNodes(nodes, cfg) ==
  {n \in publicNetUnreadyNodes(nodes, DOMAIN nodes, cfg) : nodeIntendsPublicNetwork(nodes[n])}

\* prepareNodesForLBSync fails with a RetryError when nothing can be written yet.
prepareFails(nodes, cfg) ==
  lbReadyNodes(nodes, DOMAIN nodes, cfg) = {} /\ pendingInitNodes(nodes, cfg) # {}

(***************************************************************************)
(* Readiness gates the first admission only: a node whose droplet is among *)
(* the load balancer's (admittedIDs) is kept.                              *)
(***************************************************************************)
admitted(name, node, admittedIDs) == node.providerID = "set" /\ name \in admittedIDs

serving(node) == node.ready /\ ~node.held

\* Mutant: readiness gates nodes that are already admitted as well.
admitServing(nodes, names, admittedIDs) == {n \in names : serving(nodes[n])}

\* filterByReadiness: the nodes to admit; the others are pending.
admit(nodes, names, admittedIDs) ==
  {n \in names : admitted(n, nodes[n], admittedIDs) \/ serving(nodes[n])}

(***************************************************************************)
(* The network stack for a set of admitted nodes.                          *)
(***************************************************************************)
isAllDualStack(nodes, names, cfg) ==
  dualStackNodes(nodes, names, cfg) # {} /\ singleStackV4Nodes(nodes, names, cfg) = {}

defaultNetworkStack(nodes, names, cfg) ==
  CASE cfg.network = "INTERNAL" -> "IPV4"
    [] cfg.network # "INTERNAL" /\ cfg.type = "REGIONAL_NETWORK" ->
         IF isAllDualStack(nodes, names, cfg) THEN "DUALSTACK" ELSE "IPV4"
    [] cfg.network # "INTERNAL" /\ cfg.type # "REGIONAL_NETWORK" -> "DUALSTACK"

networkStack(nodes, names, cfg) ==
  IF cfg.stack = NoStack THEN defaultNetworkStack(nodes, names, cfg) ELSE cfg.stack

\* Mutants: the annotation's value is not validated; an empty node set is
\* accepted; nodes without IPv6 are accepted for DUALSTACK.
stackAnyValue(nodes, names, cfg) ==
  /\ lbReadyNodes(nodes, names, cfg) # {}
  /\ networkStack(nodes, names, cfg) = "DUALSTACK" =>
       /\ cfg.network # "INTERNAL"
       /\ cfg.type = "REGIONAL_NETWORK" => singleStackV4Nodes(nodes, names, cfg) = {}

stackWithoutNodes(nodes, names, cfg) ==
  /\ networkStack(nodes, names, cfg) \in {"IPV4", "DUALSTACK"}
  /\ networkStack(nodes, names, cfg) = "DUALSTACK" =>
       /\ cfg.network # "INTERNAL"
       /\ cfg.type = "REGIONAL_NETWORK" => singleStackV4Nodes(nodes, names, cfg) = {}

stackAnyNodes(nodes, names, cfg) ==
  /\ lbReadyNodes(nodes, names, cfg) # {}
  /\ networkStack(nodes, names, cfg) \in {"IPV4", "DUALSTACK"}
  /\ networkStack(nodes, names, cfg) = "DUALSTACK" => cfg.network # "INTERNAL"

\* What getNetworkStack accepts.
networkStackOK(nodes, names, cfg) ==
  /\ lbReadyNodes(nodes, names, cfg) # {}
  /\ networkStack(nodes, names, cfg) \in {"IPV4", "DUALSTACK"}
  /\ networkStack(nodes, names, cfg) = "DUALSTACK" =>
       /\ cfg.network # "INTERNAL"
       /\ cfg.type = "REGIONAL_NETWORK" => singleStackV4Nodes(nodes, names, cfg) = {}

(***************************************************************************)
(* The request.  A node without provider ID is looked up in the droplet    *)
(* list by name; one that is not found there is left out.                  *)
(***************************************************************************)
hasDroplet(node) == node.providerID = "set" \/ (node.providerID = "empty" /\ node.found)

nodesToDropletIDs(nodes, names) == {n \in names : hasDroplet(nodes[n])}

\* ErrNoEligibleBackends
noEligibleBackends(nodes, cfg) ==
  /\ lbReadyNodes(nodes, DOMAIN nodes, cfg) = {}
  /\ publicNetUnreadyNodes(nodes, DOMAIN nodes, cfg) # {}
  /\ cfg.type = "REGIONAL_NETWORK" /\ cfg.network = "EXTERNAL"

Outcome(kind, stack, droplets, pending) ==
  [kind |-> kind, stack |-> stack, droplets |-> droplets, pending |-> pending]

Failed(kind) == Outcome(kind, NoStack, {}, {})

\* (*loadBalancers).buildLoadBalancerRequest.  kind is "ok", "retry" for an
\* api.RetryError and "error" for any other; pending is pendingNotReady.
buildLoadBalancerRequest(nodes, cfg, admittedIDs) ==
  LET ready  == lbReadyNodes(nodes, DOMAIN nodes, cfg)
      chosen == admit(nodes, ready, admittedIDs)
  IN  IF noEligibleBackends(nodes, cfg) THEN Failed("error")
      ELSE IF chosen = {} /\ ready # {} THEN Failed("retry")
      ELSE IF ~networkStackOK(nodes, chosen, cfg) THEN Failed("error")
      ELSE IF \E n \in chosen : nodes[n].providerID = "bad" THEN Failed("error")
      ELSE Outcome("ok", networkStack(nodes, chosen, cfg),
                   nodesToDropletIDs(nodes, chosen), ready \ chosen)

\* Mutants: only one kind of pending node is retried for.
retryForInit(pendingInit, pendingNotReady) == IF pendingInit = {} THEN "ok" ELSE "retry"

retryForReadiness(pendingInit, pendingNotReady) == IF pendingNotReady = {} THEN "ok" ELSE "retry"

\* retryIfNodesPendingInit: what a pass that has written its request returns.
retryIfNodesPendingInit(pendingInit, pendingNotReady) ==
  IF pendingInit \cup pendingNotReady = {} THEN "ok" ELSE "retry"
==============================================================================
