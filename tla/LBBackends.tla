------------------------------ MODULE LBBackends ------------------------------
(***************************************************************************)
(* One load balancer kept in step with the nodes of the cluster, one pass  *)
(* at a time: EnsureLoadBalancer and UpdateLoadBalancer as far as the      *)
(* backends go.  Nodes come, go and change; a pass is due after the        *)
(* changes the service controller reacts to, and after a pass that         *)
(* returned an error.  How passes of two workers interleave is the subject *)
(* of LBService.                                                           *)
(***************************************************************************)
EXTENDS LBNodes

CONSTANTS Names,       \* node names
          NodeSpecs,   \* what a node may look like
          Configs,     \* the load balancer's [type, network, stack]
          Absent,      \* no node of that name
          MaxChanges   \* bound: how often a node changes

ASSUME BackendsAssumption ==
  /\ NodeSpecs \subseteq [v4 : BOOLEAN, v6 : BOOLEAN, internal4 : BOOLEAN, private : BOOLEAN,
                          ready : BOOLEAN, held : BOOLEAN,
                          providerID : {"set", "empty", "bad"}, found : BOOLEAN]
  /\ Configs \subseteq [type : {"REGIONAL", "REGIONAL_NETWORK"},
                        network : {"EXTERNAL", "INTERNAL"},
                        stack : {NoStack, "IPV4", "DUALSTACK", "IPV6"}]
  /\ Absent \notin NodeSpecs
  /\ MaxChanges \in Nat

VARIABLES
  nodes,     \* the node lister
  cfg,       \* the load balancer's configuration
  backends,  \* DropletIDs of the load balancer
  stack,     \* its network stack, NoStack while it does not exist
  due,       \* a pass is queued
  changes    \* how many node changes there were

vars == <<nodes, cfg, backends, stack, due, changes>>

present == {n \in Names : nodes[n] # Absent}

\* listWithPredicates(nodeLister, stableNodeSetPredicates)
listed == [n \in present |-> nodes[n]]

\* Node events that make the service controller sync: a node appears,
\* disappears or changes its provider ID.  Readiness and addresses do not.
shouldSync(old, new) ==
  \/ (old = Absent) # (new = Absent)
  \/ old # Absent /\ new # Absent /\ old.providerID # new.providerID

\* What a droplet is created with: its node is labelled for the private network
\* or not, and has nothing but an IPv6 address or not.
onlyIPv6(node) == node.v6 /\ ~node.v4

keepsNetwork(old, new) ==
  Absent \notin {old, new} => new.private = old.private /\ (onlyIPv6(old) => onlyIPv6(new))

NodeChange(n, spec) ==
  /\ changes < MaxChanges
  /\ spec # nodes[n] /\ keepsNetwork(nodes[n], spec)
  /\ nodes' = [nodes EXCEPT ![n] = spec]
  /\ due' = (due \/ shouldSync(nodes[n], spec))
  /\ changes' = changes + 1
  /\ UNCHANGED <<cfg, backends, stack>>

request == buildLoadBalancerRequest(listed, cfg, backends)

\* A pass that ends without a write returns an error and is repeated.
SyncFails(r) ==
  /\ prepareFails(listed, cfg) \/ r.kind # "ok"
  /\ UNCHANGED <<backends, stack, due>>

\* A pass that creates or updates the load balancer; it is repeated after the
\* creation, as the load balancer is not active yet, and while nodes are pending.
SyncWrites(r) ==
  /\ ~prepareFails(listed, cfg) /\ r.kind = "ok"
  /\ backends' = r.droplets
  /\ stack' = r.stack
  /\ due' = \/ stack = NoStack
            \/ retryIfNodesPendingInit(pendingInitNodes(listed, cfg), r.pending) = "retry"

Sync ==
  /\ due
  /\ \E r \in {request} : SyncFails(r) \/ SyncWrites(r)
  /\ UNCHANGED <<nodes, cfg, changes>>

Init ==
  /\ nodes \in [Names -> NodeSpecs \cup {Absent}]
  /\ cfg \in Configs
  /\ backends = {}
  /\ stack = NoStack
  /\ due = TRUE
  /\ changes = 0

Next ==
  \/ \E n \in Names, spec \in NodeSpecs \cup {Absent} : NodeChange(n, spec)
  \/ Sync

\* The queue hands out what is due.
Spec == Init /\ [][Next]_vars /\ WF_vars(Sync)

-------------------------------------------------------------------------------
(***************************************************************************)
(* Properties.                                                             *)
(***************************************************************************)

\* The type invariant: no pass writes a network stack the API does not know.
TypeOK ==
  /\ nodes \in [Names -> NodeSpecs \cup {Absent}]
  /\ cfg \in Configs
  /\ backends \subseteq Names
  /\ stack \in {NoStack, "IPV4", "DUALSTACK"}
  /\ due \in BOOLEAN
  /\ changes \in 0..MaxChanges

\* No pass writes the empty set of backends, whatever the nodes look like:
\* buildLoadBalancerRequest fails before it does.  The one exception is nodes
\* without provider ID that the droplet list does not know, which
\* nodesToDropletIDs leaves out after the last of those checks.
BackendsNeverEmpty ==
  [][backends' = {} =>
       \E n \in present : nodes[n].providerID = "empty" /\ ~nodes[n].found]_<<backends, stack>>

usable(n) == n \in lbReadyNodes(listed, present, cfg)

\* A node whose droplet is attached stays attached for as long as it is listed,
\* has its provider ID and an address to be used at, however often it becomes
\* NotReady or is tainted again (loadbalancers.go:1176, annotations.md "Nodes
\* already attached stay attached if they briefly become NotReady or are
\* re-tainted").
AttachedStay ==
  [][\A n \in backends \cap present :
       usable(n) /\ nodes[n].providerID = "set" => n \in backends']_<<backends, stack>>

\* A pass-through load balancer is never put on DUALSTACK while one of the
\* nodes it is given lacks an address of either kind (getNetworkStack, computed
\* from the admitted nodes only).
DualStackOnlyOnDualNodes ==
  [][/\ stack' = "DUALSTACK"
     /\ cfg.type = "REGIONAL_NETWORK"
     => \A n \in backends' \cap present : nodes[n].v4 /\ nodes[n].v6]_<<backends, stack>>

\* What the address filter leaves out for good.
ineligible(n) ==
  /\ cfg.network = "EXTERNAL"
  /\ ~usable(n)
  /\ nodes[n].private \/ nodes[n].v6

\* A pass that is not going to be repeated has left out no node that could
\* become a backend (retryIfNodesPendingInit "is the only convergence path").
NoNodeForgotten ==
  [][due /\ ~due' =>
       \A n \in present : n \in backends' \/ ineligible(n) \/ ~hasDroplet(nodes[n])]_vars

\* No request can be built from the nodes there are.
Blocked == prepareFails(listed, cfg) \/ request.kind # "ok"

\* A node that serves, has its provider ID and can be reached is eventually a
\* backend and stays one, although neither its becoming ready nor its getting an
\* address is an event (retryIfNodesPendingInit and the service controller's
\* retries).
ServingNodesAttached ==
  <>[](\/ Blocked
       \/ \A n \in present :
            /\ serving(nodes[n]) /\ usable(n)
            /\ nodes[n].providerID = "set"
            => n \in backends)
===============================================================================
