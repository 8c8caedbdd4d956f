---------------------------- MODULE FirewallRules ----------------------------
(***************************************************************************)
(* The content of the public access firewall as a function of the Services *)
(* in the informer store (firewall_controller.go,                          *)
(* createReconciledFirewallRequest) and the comparison that decides        *)
(* whether a firewall already has that content                             *)
(* (firewall_controller_diff.go).                                          *)
(*                                                                         *)
(* A Service is a record                                                   *)
(*   [type, managed, lbType, network, lbID, local, hcNodePort, ports]      *)
(* where managed, lbType, network and lbID are annotation values (Unset    *)
(* when the annotation is missing or empty), local says whether            *)
(* externalTrafficPolicy is Local, and ports is a sequence of              *)
(* [protocol, port, nodePort].  Outbound rules and tags are constants of   *)
(* the controller and are folded into the inbound rules.                   *)
(***************************************************************************)
EXTENDS Integers, FiniteSets

CONSTANTS DefaultLBType,  \* what newCloud puts into cloud.defaultLBType
          Absent,         \* no Service of that name
          BuildError      \* createReconciledFirewallRequest returned an error

Unset      == "unset"
Everywhere == "everywhere"   \* Addresses: 0.0.0.0/0 and ::/0
NilSources == "nil"          \* portProtocol.sources == nil

kubeProxyHealthPort == 10256

(***************************************************************************)
(* Annotation readers.                                                     *)
(***************************************************************************)

\* isManaged, with the caller's rule that an unparsable value counts as true.
managed(svc) == svc.managed # "false"

getType(svc) == IF svc.lbType = Unset THEN DefaultLBType ELSE svc.lbType

getNetwork(svc) == IF svc.network = Unset THEN "EXTERNAL" ELSE svc.network

typeOK(svc)    == getType(svc) \in {"REGIONAL", "REGIONAL_NETWORK"}
networkOK(svc) == getNetwork(svc) \in {"EXTERNAL", "INTERNAL"}

healthCheckPathAndPort(svc) ==
  IF svc.local /\ svc.hcNodePort # 0 THEN svc.hcNodePort ELSE kubeProxyHealthPort

supported(protocol) == protocol \in {"TCP", "UDP"}

portsOf(svc) == {svc.ports[i] : i \in DOMAIN svc.ports}

(***************************************************************************)
(* createReconciledFirewallRequest.                                        *)
(***************************************************************************)
names(list) == {n \in DOMAIN list : list[n] # Absent}

nodePortServices(list) ==
  {n \in names(list) : list[n].type = "NodePort" /\ managed(list[n])}

loadBalancerServices(list) == {n \in names(list) : list[n].type = "LoadBalancer"}

networkLoadBalancers(list) ==
  {n \in loadBalancerServices(list) :
     getType(list[n]) = "REGIONAL_NETWORK" /\ getNetwork(list[n]) = "EXTERNAL"}

\* nodePortInboundRules: one entry per Service and port.
nodePortRules(list) ==
  UNION {{[owner |-> n, protocol |-> p.protocol, port |-> p.nodePort, sources |-> NilSources] :
            p \in {q \in portsOf(list[n]) : q.nodePort # 0 /\ supported(q.protocol)}} :
         n \in nodePortServices(list)}

\* Mutant: the health check port is open to everyone.
healthCheckKeyPublic(n, svc) ==
  [owner |-> NilSources, protocol |-> "TCP", port |-> healthCheckPathAndPort(svc), sources |-> NilSources]

\* The map loadBalancerPorts.  Its key holds a pointer to the sources, so two
\* keys with an LB ID are the same only if they come from the same Service
\* (owner), and all keys without one that agree on protocol and port are one.
healthCheckKey(n, svc) ==
  [owner    |-> IF svc.lbID = Unset THEN NilSources ELSE n,
   protocol |-> "TCP",
   port     |-> healthCheckPathAndPort(svc),
   sources  |-> IF svc.lbID = Unset THEN NilSources ELSE svc.lbID]

\* Mutant: the node ports are opened.
servicePortKeysNodePort(svc) ==
  {[owner |-> NilSources, protocol |-> p.protocol, port |-> p.nodePort, sources |-> NilSources] :
     p \in {q \in portsOf(svc) : supported(q.protocol)}}

servicePortKeys(svc) ==
  {[owner |-> NilSources, protocol |-> p.protocol, port |-> p.port, sources |-> NilSources] :
     p \in {q \in portsOf(svc) : supported(q.protocol)}}

loadBalancerPorts(list) ==
  UNION {{healthCheckKey(n, list[n])} \cup servicePortKeys(list[n]) :
         n \in networkLoadBalancers(list)}

inboundRule(entry) ==
  [protocol |-> entry.protocol,
   port     |-> entry.port,
   sources  |-> IF entry.sources = NilSources THEN Everywhere ELSE entry.sources]

\* The rules as a multiset: the slices are compared after sorting, so only how
\* often each rule occurs matters.
inboundRules(list) ==
  LET np == nodePortRules(list)
      lb == loadBalancerPorts(list)
  IN  [r \in {inboundRule(e) : e \in np \cup lb} |->
         Cardinality({e \in np : inboundRule(e) = r})
         + Cardinality({e \in lb : inboundRule(e) = r})]

createReconciledFirewallRequest(list) ==
  IF \A n \in loadBalancerServices(list) : typeOK(list[n]) /\ networkOK(list[n])
  THEN inboundRules(list)
  ELSE BuildError
==============================================================================
