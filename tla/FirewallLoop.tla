---------------------------- MODULE FirewallLoop ----------------------------
(***************************************************************************)
(* createReconciledFirewallRequest as the code runs it: one pass over the  *)
(* list of Services, port by port, that appends to a slice of rules, fills *)
(* a map of ports, skips what it does not want and may return early.       *)
(* FirewallRules says what the result is; the order of the list is that of *)
(* the informer's store, a map, and differs from call to call.             *)
(***************************************************************************)
EXTENDS LBAdmission, SequencesExt, BagsExt

\* The variables of the loop: the slice of rules, of which only how often each
\* occurs matters, the keys of loadBalancerPorts, the protocol that is declared
\* once for all ports of a load balancer, and whether an error was returned.
start == [rules |-> EmptyBag, ports |-> {}, protocol |-> Unset, failed |-> FALSE]

forNodePort(v, servicePort) ==
  IF servicePort.nodePort = 0 \/ ~supported(servicePort.protocol)
  THEN v
  ELSE [v EXCEPT !.rules = BagAdd(@, [protocol |-> servicePort.protocol, port |-> servicePort.nodePort,
                                      sources |-> Everywhere])]

portKey(protocol, number_) ==
  [owner |-> NilSources, protocol |-> protocol, port |-> number_, sources |-> NilSources]

\* Mutant: a port of an unsupported protocol is not skipped and has the protocol
\* of the port before it.
forServicePortCarried(v, servicePort) ==
  LET protocol == IF supported(servicePort.protocol) THEN servicePort.protocol ELSE v.protocol
  IN  [v EXCEPT !.protocol = protocol, !.ports = @ \cup {portKey(protocol, servicePort.port)}]

forServicePort(v, servicePort) ==
  IF ~supported(servicePort.protocol)
  THEN v
  ELSE [v EXCEPT !.protocol = servicePort.protocol,
                 !.ports = @ \cup {portKey(servicePort.protocol, servicePort.port)}]

\* The body of the loop for the Service of name n.  The key of its health check
\* holds a pointer made in this iteration, if it has an ID.
forService(v, n, svc) ==
  CASE v.failed -> v
    [] ~v.failed /\ svc.type = "NodePort" ->
         IF managed(svc) THEN FoldLeft(forNodePort, v, svc.ports) ELSE v
    [] ~v.failed /\ svc.type = "LoadBalancer" ->
         IF ~typeOK(svc) \/ ~networkOK(svc)
         THEN [v EXCEPT !.failed = TRUE]
         ELSE IF \/ getType(svc) # "REGIONAL_NETWORK" \/ getNetwork(svc) # "EXTERNAL"
                 \/ healthCheckPathAndPort(svc) = 0
         THEN v
         ELSE FoldLeft(forServicePort,
                       [v EXCEPT !.protocol = Unset, !.ports = @ \cup {healthCheckKey(n, svc)}], svc.ports)
    [] OTHER -> v

\* The request made of the list in the given order; the second loop appends a
\* rule for each key of the map.
reconciledFirewallRequest(order, list) ==
  LET end == FoldLeft(LAMBDA v, n : forService(v, n, list[n]), start, order)
  IN  IF end.failed
      THEN BuildError
      ELSE FoldSet(LAMBDA key, rules : BagAdd(rules, inboundRule(key)), end.rules, end.ports)

------------------------------------------------------------------------------
\* In whatever order the store lists the Services, the loop makes one and the
\* same request of them, the one FirewallRules says, each rule as often: nothing
\* of one Service (a skipped one, the protocol of its last port, its entry in
\* the map) gets into or takes away what another one opens, so that deleting a
\* Service closes no more than it opened and two passes never differ
\* (firewall_controller.go:281-380).
LoopAsSpecified ==
  \A order \in SetToSeqs(names(services)) : reconciledFirewallRequest(order, services) = firewall
==============================================================================
