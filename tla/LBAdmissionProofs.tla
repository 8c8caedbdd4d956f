--------------------------- MODULE LBAdmissionProofs ---------------------------
(***************************************************************************)
(* Proofs about LBAdmission for every cluster of Services: what the        *)
(* firewall opens, what the load balancers are asked for, that the two     *)
(* fit, and what the webhook lets pass.                                    *)
(***************************************************************************)
EXTENDS LBAdmission, SequenceTheorems, TLAPS

\* The set of rules of a list: the multiset without how often they occur.
LEMMA RuleSet ==
  ASSUME NEW list
  PROVE  DOMAIN inboundRules(list) =
           {inboundRule(e) : e \in nodePortRules(list) \cup loadBalancerPorts(list)}
BY DEF inboundRules

--------------------------------------------------------------------------------
(***************************************************************************)
(* The requests, as the webhook and as the controller build them.          *)
(***************************************************************************)

\* Without nodes to look at, getNetworkStack fails for less than with them: only
\* a DUALSTACK annotation can be turned down because of the nodes.
LEMMA StackWithoutNodes ==
  ASSUME NEW svc, NEW nodeState \in {"none", "dual", "mixed"}
  PROVE  /\ getNetworkStack(svc, nodeState) # BuildError => getNetworkStack(svc, "nil") # BuildError
         /\ /\ getNetworkStack(svc, nodeState) = BuildError
            /\ getNetworkStack(svc, "nil") # BuildError
            => nodeState = "none" \/ (nodeState = "mixed" /\ svc.networkStack = "DUALSTACK")
<1>1. CASE svc.networkStack = Unset
  <2>1. getNetworkStack(svc, "nil") # BuildError
    BY <1>1, ErrorAssumption DEF getNetworkStack, Unset
  <2>2. nodeState # "none" => getNetworkStack(svc, nodeState) # BuildError
    BY <1>1, ErrorAssumption DEF getNetworkStack, Unset
  <2>3. QED
    BY <2>1, <2>2
<1>2. CASE svc.networkStack # Unset
  BY <1>2, ErrorAssumption DEF getNetworkStack
<1>3. QED
  BY <1>1, <1>2

\* The controller can build only what the webhook can build, and what it cannot
\* build of that has a network stack the nodes do not support.
LEMMA FailsWithNodes ==
  ASSUME NEW svc, NEW certs, NEW nodeState \in {"none", "dual", "mixed"}
  PROVE  /\ requestFails(svc, certs, "nil") => requestFails(svc, certs, nodeState)
         /\ requestFails(svc, certs, nodeState) /\ ~requestFails(svc, certs, "nil") =>
              nodeState = "none" \/ (nodeState = "mixed" /\ svc.networkStack = "DUALSTACK")
BY StackWithoutNodes DEF requestFails

\* WebhookAgrees holds of any Services.
LEMMA Agrees == WebhookAgrees
<1> SUFFICES ASSUME NEW n \in loadBalancerServices(services), NEW nodeState \in {"none", "dual", "mixed"}
             PROVE  IF requestFails(services[n], certificates("up"), nodeState)
                    THEN n \in requested =>
                           \/ nodeState = "none"
                           \/ nodeState = "mixed" /\ services[n].networkStack = "DUALSTACK"
                    ELSE /\ n \in requested
                         /\ sameButStack(buildLoadBalancerRequest(services[n], certificates("up"), nodeState),
                                         request(n))
  BY DEF WebhookAgrees
<1>1. n \in requested <=> ~requestFails(services[n], certificates("up"), "nil")
  BY DEF requested
<1>2. CASE requestFails(services[n], certificates("up"), nodeState)
  BY <1>1, <1>2, FailsWithNodes
<1>3. CASE ~requestFails(services[n], certificates("up"), nodeState)
  <2>1. n \in requested
    BY <1>1, <1>3, FailsWithNodes
  <2>2. sameButStack(buildLoadBalancerRequest(services[n], certificates("up"), nodeState), request(n))
    BY <1>1, <1>3, <2>1 DEF sameButStack, request, requestOf, buildLoadBalancerRequest
  <2>3. QED
    BY <1>3, <2>1, <2>2
<1>4. QED
  BY <1>2, <1>3

\* WebhookAgrees in every state: buildLoadBalancerRequestWithNodeState does not
\* depend on the nodes but for the network stack.
THEOREM Agreement == Spec => []WebhookAgrees
BY Agrees, PTL

\* The step in RepairAdmitted.
LEMMA Repairs ==
  ASSUME NEW n \in names(services), ~requestFails(services'[n], certificates(api), "nil"),
         NEW answer \in answers(api) \ {"rejected", "none"}
  PROVE  handle(services[n], services'[n], certificates(api), answer) = "allowed"
BY DEF handle, validate, mapGodoRespToAdmissionResp

\* RepairAdmitted for all Services and every answer: no old version of a Service
\* stands in the way of a new one (validateUpdate ignores that it is wrong).
THEOREM Repairable == Spec => RepairAdmitted
<1>1. \A n \in names(services) :
        services'[n] # Absent /\ services'[n] # services[n] /\ ~requestFails(services'[n], certificates(api), "nil")
        => \A answer \in answers(api) \ {"rejected", "none"} :
             handle(services[n], services'[n], certificates(api), answer) = "allowed"
  BY Repairs
<1>2. QED
  BY <1>1, PTL DEF RepairAdmitted

--------------------------------------------------------------------------------
(***************************************************************************)
(* The firewall and the requests together.                                 *)
(***************************************************************************)

\* The firewall's rules when there are any.
LEMMA Built ==
  ASSUME firewall # BuildError
  PROVE  /\ \A n \in loadBalancerServices(services) : typeOK(services[n]) /\ networkOK(services[n])
         /\ DOMAIN firewall = {inboundRule(e) : e \in nodePortRules(services) \cup loadBalancerPorts(services)}
<1>1. \A n \in loadBalancerServices(services) : typeOK(services[n]) /\ networkOK(services[n])
  BY DEF firewall, createReconciledFirewallRequest
<1>2. firewall = inboundRules(services)
  BY <1>1 DEF firewall, createReconciledFirewallRequest
<1>3. QED
  BY Zenon, <1>1, <1>2, RuleSet

\* The entries for a load balancer are among those of the map.
LEMMA Entries ==
  ASSUME NEW n \in networkLoadBalancers(services)
  PROVE  /\ healthCheckKey(n, services[n]) \in loadBalancerPorts(services)
         /\ servicePortKeys(services[n]) \subseteq loadBalancerPorts(services)
BY DEF loadBalancerPorts

\* A rule for load balancer id, or for everyone, opens its port to it.
LEMMA Opens ==
  ASSUME firewall # BuildError, NEW id, NEW e \in loadBalancerPorts(services), e.sources \in {NilSources, id}
  PROVE  <<e.protocol, e.port>> \in opened(id)
<1>1. inboundRule(e) \in DOMAIN firewall
  BY Built
<1>2. /\ inboundRule(e).sources \in {Everywhere, id}
      /\ inboundRule(e).protocol = e.protocol /\ inboundRule(e).port = e.port
  BY DEF inboundRule
<1>3. QED
  BY <1>1, <1>2 DEF opened

\* BackendsReachable holds of any Services.
LEMMA Reachable == BackendsReachable
<1> SUFFICES ASSUME firewall # BuildError, NEW n \in passThroughLBs
             PROVE  /\ \A r \in rulesOf(n) : <<protocolOf(r), r.targetPort>> \in opened(services[n].lbID)
                    /\ ~services[n].overrideHealthCheck =>
                         <<"TCP", request(n).healthCheck.port>> \in opened(services[n].lbID)
  BY DEF BackendsReachable
<1> DEFINE svc == services[n]
<1>1. /\ n \in loadBalancerServices(services) /\ isNetwork(svc) /\ ~isInternal(svc)
      /\ ~requestFails(svc, certificates("up"), "nil")
  BY DEF passThroughLBs, requested
<1>2. n \in networkLoadBalancers(services)
  BY <1>1, Built DEF networkLoadBalancers, networkOK, isNetwork, isInternal
<1>3. /\ request(n).forwardingRules = buildRegionalNetworkForwardingRule(svc)
      /\ request(n).healthCheck = buildHealthCheck(svc)
  BY <1>1 DEF request, requestOf, buildLoadBalancerRequest, forwardingRules
<1>4. /\ buildRegionalNetworkForwardingRule(svc) # BuildError
      /\ buildHealthCheck(svc) # BuildError
  BY <1>1 DEF requestFails, forwardingRules
<1>5. ASSUME NEW r \in rulesOf(n)
      PROVE  <<protocolOf(r), r.targetPort>> \in opened(services[n].lbID)
  <2>1. \A p \in portsOf(svc) : supported(p.protocol)
    BY Zenon, <1>4 DEF buildRegionalNetworkForwardingRule
  <2>2. PICK i \in DOMAIN svc.ports :
          r = rule(IF svc.ports[i].protocol = "TCP" THEN "tcp" ELSE "udp", svc.ports[i].port, svc.ports[i].port)
    BY <1>3, <2>1 DEF rulesOf, values, buildRegionalNetworkForwardingRule
  <2>3. svc.ports[i] \in portsOf(svc) /\ svc.ports[i].protocol \in {"TCP", "UDP"}
    BY Zenon, <2>1 DEF portsOf, supported
  <2>4. protocolOf(r) = svc.ports[i].protocol /\ r.targetPort = svc.ports[i].port
    BY <2>2, <2>3 DEF protocolOf, rule
  <2> DEFINE e == [owner |-> NilSources, protocol |-> svc.ports[i].protocol, port |-> svc.ports[i].port,
                   sources |-> NilSources]
  <2>5. e \in servicePortKeys(svc)
    BY <2>1, <2>3 DEF servicePortKeys
  <2>6. <<e.protocol, e.port>> \in opened(services[n].lbID)
    <3>1. e \in loadBalancerPorts(services) /\ e.sources \in {NilSources, services[n].lbID}
      BY <1>2, <2>5, Entries
    <3> HIDE DEF e
    <3>2. QED
      BY <3>1, Opens
  <2>7. QED
    BY <2>4, <2>6
<1>6. ASSUME ~svc.overrideHealthCheck
      PROVE  <<"TCP", request(n).healthCheck.port>> \in opened(services[n].lbID)
  <2>1. request(n).healthCheck.port = healthCheckPathAndPort(svc)
    BY <1>3, <1>4, <1>6 DEF buildHealthCheck
  <2>2. LET e == healthCheckKey(n, svc) IN
          e.protocol = "TCP" /\ e.port = healthCheckPathAndPort(svc) /\ e.sources \in {NilSources, svc.lbID}
    BY DEF healthCheckKey
  <2>3. QED
    BY Zenon, <1>2, <2>1, <2>2, Entries, Opens
<1>7. QED
  BY <1>5, <1>6

\* BackendsReachable for every cluster and every sequence of changes.
THEOREM Reachability == Spec => []BackendsReachable
BY Reachable, PTL

--------------------------------------------------------------------------------
(***************************************************************************)
(* Services stay well-formed, whoever changes them.                        *)
(***************************************************************************)
AllWellFormed == \A n \in names(services) : wellFormed(services[n])

\* The fields the requests depend on are fields of a Service.
LEMMA Fields ==
  /\ ServiceFields = {"protocol", "httpPorts", "tlsPorts", "http2Ports", "http3Port", "tlsPassThrough",
       "certificateID", "certificateName", "overrideHealthCheck", "healthCheckPort", "healthCheckPath",
       "healthCheckProtocol", "interval", "timeout", "unhealthy", "healthy", "stickySessionsType",
       "cookieName", "cookieTTL", "algorithm", "sizeSlug", "sizeUnit", "redirect", "proxyProtocol",
       "keepalive", "disableLEDNS", "idleTimeout", "denyRules", "allowRules", "networkStack", "hostname",
       "sourceRanges", "deleted", "type", "managed", "lbType", "network", "lbID", "local", "hcNodePort",
       "ports"}
BY DEF ServiceFields, NoAnnotations

\* A user's edit of one field keeps a Service well-formed.
LEMMA EditedWellFormed ==
  ASSUME NEW svc, wellFormed(svc), NEW new \in Edited(svc)
  PROVE  wellFormed(new)
<1>1. \E field \in DOMAIN Values : new \in {[svc EXCEPT ![field] = v] : v \in Values[field]}
  BY DEF Edited
<1>2. PICK field \in DOMAIN Values : new \in {[svc EXCEPT ![field] = v] : v \in Values[field]}
  BY <1>1
<1>3. PICK v \in Values[field] : new = [svc EXCEPT ![field] = v]
  BY <1>2
<1>4. {"lbID", "certificateName", "ports"} \subseteq DOMAIN svc /\ DOMAIN svc = ServiceFields
  BY Fields DEF wellFormed
<1>5. /\ DOMAIN new = ServiceFields
      /\ new.lbID = IF field = "lbID" THEN v ELSE svc.lbID
      /\ new.certificateName = IF field = "certificateName" THEN v ELSE svc.certificateName
      /\ new.ports = IF field = "ports" THEN v ELSE svc.ports
  BY <1>3, <1>4
<1>6. QED
  BY <1>5, AdmissionAssumption DEF wellFormed

\* So does recording the ID of a load balancer, which changes two annotations.
LEMMA Annotated ==
  ASSUME NEW svc, wellFormed(svc)
  PROVE  LET new == annotated(svc, "lb1") IN
         /\ DOMAIN new = ServiceFields /\ new.lbID = "lb1" /\ new.lbType = getType(svc)
         /\ \A field \in ServiceFields \ {"lbID", "lbType"} : new[field] = svc[field]
<1>1. DOMAIN svc = ServiceFields /\ {"lbID", "lbType"} \subseteq ServiceFields
  BY Fields DEF wellFormed
<1>2. QED
  BY Zenon, <1>1 DEF annotated

\* A Service that EnsureLoadBalancer has annotated is well-formed.
LEMMA AnnotatedWellFormed ==
  ASSUME NEW svc, wellFormed(svc)
  PROVE  wellFormed(annotated(svc, "lb1"))
<1>1. {"certificateName", "ports"} \subseteq ServiceFields \ {"lbID", "lbType"}
  BY Fields
<1>2. LET new == annotated(svc, "lb1") IN new.certificateName = svc.certificateName /\ new.ports = svc.ports
  BY <1>1, Annotated
<1>3. QED
  BY <1>2, Annotated DEF wellFormed, isID, Everywhere, NilSources

\* The Services are well-formed at first.
LEMMA WellFormedInit == Init => AllWellFormed
BY AdmissionAssumption DEF Init, AllWellFormed

\* Storing a well-formed Service, or none, keeps all of them so.
LEMMA StoreWellFormed ==
  ASSUME AllWellFormed, NEW n \in names(services), NEW new, Store(n, new), new # Absent => wellFormed(new)
  PROVE  AllWellFormed'
<1> SUFFICES ASSUME NEW m \in names(services')
             PROVE  wellFormed(services'[m])
  BY DEF AllWellFormed
<1>1. m \in DOMAIN services /\ n \in DOMAIN services /\ services'[m] # Absent
  BY DEF names, Store
<1>2. services'[m] = IF m = n THEN new ELSE services[m]
  BY <1>1 DEF Store
<1>3. QED
  BY <1>1, <1>2 DEF AllWellFormed, names

\* Every step does.
LEMMA WellFormedStep == AllWellFormed /\ [Next]_vars => AllWellFormed'
<1> SUFFICES ASSUME AllWellFormed, [Next]_vars
             PROVE  AllWellFormed'
  OBVIOUS
<1>1. ASSUME NEW n \in names(services), NEW new \in Edited(services[n]),
             UserWrites(n, new) \/ WebhookSkipped(n, new)
      PROVE  AllWellFormed'
  <2>1. wellFormed(new)
    BY EditedWellFormed DEF AllWellFormed
  <2>2. QED
    BY <1>1, <2>1, StoreWellFormed DEF UserWrites, WebhookSkipped
<1>2. ASSUME NEW n \in names(services), RecordID(n)
      PROVE  AllWellFormed'
  <2>1. wellFormed(annotated(services[n], "lb1"))
    BY AnnotatedWellFormed DEF AllWellFormed
  <2>2. QED
    BY <1>2, <2>1, StoreWellFormed DEF RecordID
<1>3. ASSUME NEW n \in names(services), RemoveFinalizer(n)
      PROVE  AllWellFormed'
  BY <1>3, StoreWellFormed DEF RemoveFinalizer
<1>4. ASSUME NEW state, ApiChanges(state)
      PROVE  AllWellFormed'
  BY <1>4 DEF ApiChanges, AllWellFormed
<1>5. CASE UNCHANGED vars
  BY <1>5 DEF vars, AllWellFormed
<1>6. QED
  BY <1>1, <1>2, <1>3, <1>4, <1>5 DEF Next

\* The Services are always well-formed.
LEMMA WellFormed == Spec => []AllWellFormed
BY WellFormedInit, WellFormedStep, PTL DEF Spec

\* HealthPortRestricted follows: the ID of a load balancer is not the mark of a
\* rule without sources.
LEMMA Restricted == AllWellFormed => HealthPortRestricted
<1> SUFFICES ASSUME AllWellFormed, firewall # BuildError, NEW n \in networkLoadBalancers(services),
                    [protocol |-> "TCP", port |-> healthCheckPathAndPort(services[n])] \in public
             PROVE  \/ \E m \in networkLoadBalancers(services) :
                         /\ services[m].lbID = Unset
                         /\ healthCheckPathAndPort(services[m]) = healthCheckPathAndPort(services[n])
                    \/ \E m \in names(services) :
                         \E q \in portsOf(services[m]) : healthCheckPathAndPort(services[n]) \in {q.port, q.nodePort}
  BY DEF HealthPortRestricted
<1>1. PICK r \in DOMAIN firewall : r.sources = Everywhere /\ r.port = healthCheckPathAndPort(services[n])
  BY Zenon DEF public
<1>2. PICK e \in nodePortRules(services) \cup loadBalancerPorts(services) : r = inboundRule(e)
  BY Built
<1>3. e.port = healthCheckPathAndPort(services[n]) /\ e.sources \in {NilSources, Everywhere}
  BY <1>1, <1>2 DEF inboundRule
<1>4. /\ networkLoadBalancers(services) \subseteq names(services)
      /\ nodePortServices(services) \subseteq names(services)
  BY DEF networkLoadBalancers, nodePortServices, loadBalancerServices
<1>5. CASE e \in nodePortRules(services)
  <2>1. PICK m \in nodePortServices(services) :
          e \in {[owner |-> m, protocol |-> p.protocol, port |-> p.nodePort, sources |-> NilSources] :
                   p \in {q \in portsOf(services[m]) : q.nodePort # 0 /\ supported(q.protocol)}}
    BY <1>5 DEF nodePortRules
  <2>2. \E q \in portsOf(services[m]) : e.port = q.nodePort
    BY <2>1
  <2>3. QED
    BY Zenon, <1>3, <1>4, <2>2
<1>6. CASE e \in loadBalancerPorts(services)
  <2>1. PICK m \in networkLoadBalancers(services) :
          e \in {healthCheckKey(m, services[m])} \cup servicePortKeys(services[m])
    BY <1>6 DEF loadBalancerPorts
  <2>2. CASE e = healthCheckKey(m, services[m])
    <3>1. services[m].lbID \notin {NilSources, Everywhere}
      BY <1>4 DEF AllWellFormed, wellFormed, isID
    <3>2. services[m].lbID = Unset /\ e.port = healthCheckPathAndPort(services[m])
      BY Zenon, <1>3, <2>2, <3>1 DEF healthCheckKey
    <3>3. QED
      BY <1>3, <3>2
  <2>3. CASE e \in servicePortKeys(services[m])
    <3>1. \E q \in portsOf(services[m]) : e.port = q.port
      BY <2>3 DEF servicePortKeys
    <3>2. QED
      BY <1>3, <1>4, <3>1
  <2>4. QED
    BY <2>1, <2>2, <2>3
<1>7. QED
  BY <1>2, <1>5, <1>6

\* HealthPortRestricted for every cluster and every sequence of changes.
THEOREM Restriction == Spec => []HealthPortRestricted
BY WellFormed, Restricted, PTL

--------------------------------------------------------------------------------
(***************************************************************************)
(* The controller's own writes.                                            *)
(***************************************************************************)

\* The request does not depend on the annotations that EnsureLoadBalancer adds:
\* the type it records is the one it has used.
LEMMA AnnotatedRequest ==
  ASSUME NEW svc, wellFormed(svc), NEW certs, NEW nodeState
  PROVE  LET new == annotated(svc, "lb1") IN
         /\ new.type = svc.type /\ new.deleted = svc.deleted
         /\ requestFails(new, certs, nodeState) <=> requestFails(svc, certs, nodeState)
         /\ buildLoadBalancerRequest(new, certs, nodeState) = buildLoadBalancerRequest(svc, certs, nodeState)
<1> DEFINE new == annotated(svc, "lb1")
<1>1. \A field \in ServiceFields \ {"lbID", "lbType"} : new[field] = svc[field]
  BY Annotated
<1>2. /\ new.protocol = svc.protocol /\ new.httpPorts = svc.httpPorts /\ new.tlsPorts = svc.tlsPorts
      /\ new.http2Ports = svc.http2Ports /\ new.http3Port = svc.http3Port
      /\ new.tlsPassThrough = svc.tlsPassThrough /\ new.certificateID = svc.certificateID
      /\ new.certificateName = svc.certificateName /\ new.ports = svc.ports
  BY <1>1, Fields
<1>3. /\ new.overrideHealthCheck = svc.overrideHealthCheck /\ new.healthCheckPort = svc.healthCheckPort
      /\ new.healthCheckPath = svc.healthCheckPath /\ new.healthCheckProtocol = svc.healthCheckProtocol
      /\ new.interval = svc.interval /\ new.timeout = svc.timeout
      /\ new.unhealthy = svc.unhealthy /\ new.healthy = svc.healthy
      /\ new.local = svc.local /\ new.hcNodePort = svc.hcNodePort
  BY <1>1, Fields
<1>4. /\ new.stickySessionsType = svc.stickySessionsType /\ new.cookieName = svc.cookieName
      /\ new.cookieTTL = svc.cookieTTL /\ new.algorithm = svc.algorithm
      /\ new.sizeSlug = svc.sizeSlug /\ new.sizeUnit = svc.sizeUnit
      /\ new.redirect = svc.redirect /\ new.proxyProtocol = svc.proxyProtocol
      /\ new.keepalive = svc.keepalive /\ new.disableLEDNS = svc.disableLEDNS
  BY <1>1, Fields
<1>5. /\ new.idleTimeout = svc.idleTimeout /\ new.denyRules = svc.denyRules
      /\ new.allowRules = svc.allowRules /\ new.sourceRanges = svc.sourceRanges
      /\ new.networkStack = svc.networkStack /\ new.network = svc.network
      /\ new.type = svc.type /\ new.deleted = svc.deleted
  BY <1>1, Fields
<1>6. getType(new) = getType(svc)
  BY Annotated DEF getType
<1> HIDE DEF new
<1>7. /\ getNetwork(new) = getNetwork(svc) /\ typeOK(new) = typeOK(svc) /\ networkOK(new) = networkOK(svc)
      /\ isNetwork(new) = isNetwork(svc) /\ isInternal(new) = isInternal(svc)
  BY <1>5, <1>6 DEF getNetwork, typeOK, networkOK, isNetwork, isInternal
<1>8. getNetworkStack(new, nodeState) = getNetworkStack(svc, nodeState)
  BY Zenon, <1>5, <1>7 DEF getNetworkStack
<1>9. buildRegionalNetworkForwardingRule(new) = buildRegionalNetworkForwardingRule(svc)
  BY <1>2 DEF buildRegionalNetworkForwardingRule, portsOf
<1>10. buildForwardingRules(new, certs) = buildForwardingRules(svc, certs)
  BY <1>2 DEF buildForwardingRules, findCertificateID, entryProtocol, passThrough, securePorts, getProtocol,
              buildHTTP3ForwardingRule
<1>11. forwardingRules(new, certs) = forwardingRules(svc, certs)
  BY <1>7, <1>9, <1>10 DEF forwardingRules
<1>12. buildHealthCheck(new) = buildHealthCheck(svc)
  BY <1>2, <1>3 DEF buildHealthCheck, healthCheckProtocol, healthCheckPort, healthCheckNumbers, healthCheckPathAndPort
<1>13. /\ buildStickySessions(new) = buildStickySessions(svc) /\ getAlgorithm(new) = getAlgorithm(svc)
       /\ sizeOK(new) = sizeOK(svc) /\ flags(new) = flags(svc) /\ buildFirewall(new) = buildFirewall(svc)
  BY Zenon, <1>4, <1>5 DEF buildStickySessions, getAlgorithm, sizeOK, flags, buildFirewall
<1>14. requestFails(new, certs, nodeState) <=> requestFails(svc, certs, nodeState)
  BY Zenon, <1>5, <1>7, <1>8, <1>11, <1>12, <1>13 DEF requestFails
<1>15. buildLoadBalancerRequest(new, certs, nodeState) = buildLoadBalancerRequest(svc, certs, nodeState)
  BY Zenon, <1>4, <1>5, <1>6, <1>7, <1>8, <1>11, <1>12, <1>13, <1>14 DEF buildLoadBalancerRequest
<1>16. QED
  BY <1>5, <1>14, <1>15 DEF new

\* A certificate that is not looked up by name does not depend on the API.
LEMMA NoLookup ==
  ASSUME NEW svc, NEW certs1, NEW certs2, NEW nodeState,
         svc.certificateName = Unset \/ svc.certificateID # Unset \/ isNetwork(svc)
  PROVE  requestFails(svc, certs1, nodeState) <=> requestFails(svc, certs2, nodeState)
<1>1. isNetwork(svc) \/ findCertificateID(svc, certs1) = findCertificateID(svc, certs2)
  BY DEF findCertificateID
<1>2. forwardingRules(svc, certs1) = forwardingRules(svc, certs2)
  BY <1>1 DEF forwardingRules, buildForwardingRules
<1>3. QED
  BY <1>2 DEF requestFails

\* OwnWritesAdmitted follows.
LEMMA Admits == AllWellFormed => OwnWritesAdmitted
<1> SUFFICES ASSUME AllWellFormed, NEW n \in loadBalancerServices(services), NEW answer \in answers(api)
             PROVE  /\ services[n].deleted =>
                         handle(services[n], services[n], certificates(api), answer) = "allowed"
                    /\ /\ buildable(services[n])
                       /\ \/ services[n].certificateName = Unset \/ services[n].certificateID # Unset
                          \/ isNetwork(services[n])
                       => handle(services[n], annotated(services[n], "lb1"), certificates(api), answer) = "allowed"
  BY DEF OwnWritesAdmitted
<1>1. services[n].deleted => handle(services[n], services[n], certificates(api), answer) = "allowed"
  BY DEF handle
<1>2. ASSUME buildable(services[n]),
             services[n].certificateName = Unset \/ services[n].certificateID # Unset \/ isNetwork(services[n])
      PROVE  handle(services[n], annotated(services[n], "lb1"), certificates(api), answer) = "allowed"
  <2>1. n \in names(services) /\ services[n] # Absent /\ wellFormed(services[n])
    BY DEF loadBalancerServices, names, AllWellFormed
  <2>2. PICK nodeState \in {"dual", "mixed"} : ~requestFails(services[n], certificates("up"), nodeState)
    BY <1>2 DEF buildable
  <2>3. ~requestFails(services[n], certificates("up"), "nil")
    BY <2>2, FailsWithNodes
  <2>4. ~requestFails(services[n], certificates(api), "nil")
    BY <1>2, <2>3, NoLookup
  <2>5. /\ ~requestFails(annotated(services[n], "lb1"), certificates(api), "nil")
        /\ requestOf(annotated(services[n], "lb1"), certificates(api)) = requestOf(services[n], certificates(api))
    BY <2>1, <2>4, AnnotatedRequest DEF requestOf
  <2>6. QED
    BY <2>1, <2>5 DEF handle, validate
<1>3. QED
  BY <1>1, <1>2

\* OwnWritesAdmitted in every state: the webhook finds the request unchanged and
\* asks the API nothing.
THEOREM Unobstructed == Spec => []OwnWritesAdmitted
BY WellFormed, Admits, PTL

--------------------------------------------------------------------------------
(***************************************************************************)
(* Encrypted ports.                                                        *)
(***************************************************************************)

\* Ports are small numbers.
LEMMA PortBound == MaxPort \in Nat /\ MaxPort < Int32Half
BY Int32Assumption DEF MaxPort

\* The conversion of a port number to 32 bits and back loses nothing.
LEMMA Int32OfPort ==
  ASSUME NEW p \in 1..MaxPort
  PROVE  int32(p) = p
<1> DEFINE sum == p + Int32Half
           width == 2 * Int32Half
<1>1. MaxPort \in Nat /\ MaxPort < Int32Half
  BY PortBound
<1>2. sum \in Nat /\ width \in Nat /\ width > 0 /\ sum < width
  BY <1>1, Int32Assumption
<1>3. sum % width = sum
  <2> HIDE DEF sum, width
  <2>1. QED
    BY <1>2, Z3
<1>4. QED
  BY <1>3, Int32Assumption DEF int32

\* A TCP port that the annotations name as encrypted is not given a plain text
\* protocol.
LEMMA Encrypted ==
  ASSUME NEW svc, NEW cert, NEW port, port.port \in 1..MaxPort, port.protocol # "UDP",
         port.port \in encryptedPorts(svc),
         svc.certificateID # Unset \/ svc.certificateName # Unset => cert # Unset
  PROVE  entryProtocol(svc, port, cert) \in {"https", "http2"}
<1>1. \A list : port.port \in values(list) => named(port, list)
  BY Int32OfPort DEF named
<1>2. CASE port.port \in values(svc.http2Ports)
  BY <1>1, <1>2 DEF entryProtocol
<1>3. CASE port.port \in values(svc.tlsPorts)
  <2>1. svc.tlsPorts # <<>>
    BY <1>3 DEF values
  <2>2. securePorts(svc, cert) = svc.tlsPorts
    BY <2>1 DEF securePorts
  <2>3. QED
    BY <1>1, <1>3, <2>2 DEF entryProtocol
<1>4. CASE port.port \notin values(svc.http2Ports) /\ port.port \notin values(svc.tlsPorts)
  <2>1. /\ svc.tlsPorts = <<>> /\ port.port = defaultSecurePort
        /\ cert # Unset \/ passThrough(svc)
    BY <1>4 DEF encryptedPorts
  <2>2. securePorts(svc, cert) = <<defaultSecurePort>>
    BY <1>4, <2>1 DEF securePorts
  <2>3. defaultSecurePort \in values(<<defaultSecurePort>>)
    BY DEF values
  <2>4. QED
    BY <1>1, <2>1, <2>2, <2>3 DEF entryProtocol
<1>5. QED
  BY <1>2, <1>3, <1>4

\* The rule for one port of the Service.
LEMMA PortRule ==
  ASSUME NEW port, NEW protocol, NEW cert, NEW pass \in BOOLEAN,
         buildForwardingRule(port, protocol, cert, pass) # BuildError
  PROVE  LET r == buildForwardingRule(port, protocol, cert, pass) IN
         /\ r.entryPort = port.port /\ r.entryProtocol = protocol
         /\ protocol \in {"https", "http2"} => (r.certificateID # Unset) # r.tlsPassThrough
         /\ protocol \notin {"https", "http2"} => r.targetProtocol = protocol
         /\ r.tlsPassThrough => r.targetProtocol = r.entryProtocol
         /\ r.certificateID # Unset => r.targetProtocol = "http"
<1> DEFINE plain == rule(protocol, port.port, port.nodePort)
<1>1. CASE protocol \notin {"https", "http2"}
  BY Zenon, <1>1 DEF buildForwardingRule, rule
<1>2. CASE protocol \in {"https", "http2"}
  <2>1. buildForwardingRule(port, protocol, cert, pass) = buildTLSForwardingRule(plain, cert, pass)
    BY <1>2 DEF buildForwardingRule
  <2>2. (cert # Unset) # pass
    BY <2>1 DEF buildTLSForwardingRule
  <2>3. CASE pass
    <3>1. buildForwardingRule(port, protocol, cert, pass) = [plain EXCEPT !.tlsPassThrough = TRUE]
      BY <2>1, <2>2, <2>3 DEF buildTLSForwardingRule
    <3>2. QED
      BY Zenon, <1>2, <3>1 DEF rule
  <2>4. CASE ~pass
    <3>1. buildForwardingRule(port, protocol, cert, pass)
            = [plain EXCEPT !.certificateID = cert, !.targetProtocol = "http"]
      BY <2>1, <2>2, <2>4 DEF buildTLSForwardingRule
    <3>2. cert # Unset
      BY Zenon, <2>2, <2>4
    <3>3. QED
      BY Zenon, <1>2, <3>1, <3>2 DEF rule
  <2>5. QED
    BY <2>3, <2>4
<1>3. QED
  BY <1>1, <1>2

\* The rule buildHTTP3ForwardingRule adds.
LEMMA HTTP3Rule ==
  ASSUME NEW svc, NEW cert, NEW r \in values(buildHTTP3ForwardingRule(svc, cert)), r # BuildError
  PROVE  /\ r.entryProtocol = "http3" /\ r.targetProtocol = "http"
         /\ r.certificateID # Unset /\ r.tlsPassThrough = FALSE
<1>1. PICK i \in DOMAIN buildHTTP3ForwardingRule(svc, cert) : r = buildHTTP3ForwardingRule(svc, cert)[i]
  BY Zenon DEF values
<1> DEFINE matching == {j \in DOMAIN svc.ports : svc.ports[j].port = int32(svc.http3Port[1])}
           target   == svc.ports[Min(matching)].nodePort
           http3    == [rule("http3", svc.http3Port[1], target) EXCEPT !.targetProtocol = "http", !.certificateID = cert]
<1>2. \/ buildHTTP3ForwardingRule(svc, cert) \in {<<>>, <<BuildError>>}
      \/ buildHTTP3ForwardingRule(svc, cert) = <<http3>> /\ cert # Unset
  BY Zenon DEF buildHTTP3ForwardingRule
<1>3. r = http3 /\ cert # Unset
  <2> HIDE DEF http3
  <2>1. QED
    BY <1>1, <1>2
<1>4. QED
  BY Zenon, <1>3 DEF rule

\* What is in a list made of two.
LEMMA ValuesConcat ==
  ASSUME NEW S, NEW a \in Seq(S), NEW b \in Seq(S), NEW x \in values(a \o b)
  PROVE  x \in values(a) \/ x \in values(b)
<1>1. PICK i \in DOMAIN (a \o b) : x = (a \o b)[i]
  BY DEF values
<1>2. /\ Len(a) \in Nat /\ Len(b) \in Nat /\ i \in 1..(Len(a) + Len(b))
      /\ DOMAIN a = 1..Len(a) /\ DOMAIN b = 1..Len(b)
  BY <1>1
<1>3. CASE i <= Len(a)
  <2>1. i \in DOMAIN a /\ x = a[i]
    BY <1>1, <1>2, <1>3
  <2>2. QED
    BY <2>1 DEF values
<1>4. CASE i > Len(a)
  <2>1. i - Len(a) \in DOMAIN b /\ x = b[i - Len(a)]
    BY <1>1, <1>2, <1>4
  <2>2. QED
    BY <2>1 DEF values
<1>5. QED
  BY <1>2, <1>3, <1>4

\* A rule of a terminating load balancer is that of one of the Service's ports,
\* or the one for HTTP/3.
LEMMA RuleOfPort ==
  ASSUME NEW svc, wellFormed(svc), NEW certs, buildForwardingRules(svc, certs) # BuildError,
         NEW r \in values(buildForwardingRules(svc, certs))
  PROVE  LET cert == findCertificateID(svc, certs) IN
         /\ r # BuildError /\ cert # BuildError
         /\ \/ r \in values(buildHTTP3ForwardingRule(svc, cert))
            \/ \E i \in DOMAIN svc.ports :
                 r = buildForwardingRule(svc.ports[i], entryProtocol(svc, svc.ports[i], cert),
                                         cert, passThrough(svc))
<1> DEFINE cert  == findCertificateID(svc, certs)
           ports == [i \in DOMAIN svc.ports |->
                       buildForwardingRule(svc.ports[i], entryProtocol(svc, svc.ports[i], cert),
                                           cert, passThrough(svc))]
           http3 == buildHTTP3ForwardingRule(svc, cert)
           S     == values(ports) \cup values(http3)
<1>1. /\ buildForwardingRules(svc, certs) = ports \o http3
      /\ BuildError \notin values(ports \o http3) /\ cert # BuildError
  BY Zenon DEF buildForwardingRules
<1>2. ports \in Seq(S)
  <2>1. svc.ports \in Seq(Ports)
    BY DEF wellFormed
  <2>2. Len(svc.ports) \in Nat /\ DOMAIN svc.ports = 1..Len(svc.ports)
    BY <2>1
  <2>3. \A i \in DOMAIN svc.ports : ports[i] \in S
    BY DEF values
  <2> HIDE DEF S
  <2>4. ports \in [1..Len(svc.ports) -> S]
    BY Zenon, <2>2, <2>3
  <2> HIDE DEF ports
  <2>5. QED
    BY <2>2, <2>4, SeqDef
<1>3. http3 \in Seq(S)
  <2>1. http3 = <<>> \/ \E x : http3 = <<x>>
    BY Zenon DEF buildHTTP3ForwardingRule
  <2>2. \A i \in DOMAIN http3 : http3[i] \in S
    BY DEF values
  <2> HIDE DEF S, http3
  <2>3. CASE http3 = <<>>
    BY <2>3
  <2>4. ASSUME NEW x, http3 = <<x>>
        PROVE  http3 \in Seq(S)
    <3>1. x \in S
      BY <2>2, <2>4
    <3>2. QED
      BY <2>4, <3>1
  <2>5. QED
    BY <2>1, <2>3, <2>4
<1>4. r \in values(ports) \/ r \in values(http3)
  <2> HIDE DEF S, ports, http3
  <2>1. QED
    BY Zenon, <1>1, <1>2, <1>3, ValuesConcat
<1>5. r # BuildError
  BY <1>1
<1>6. r \in values(ports) =>
        \E i \in DOMAIN svc.ports :
          r = buildForwardingRule(svc.ports[i], entryProtocol(svc, svc.ports[i], cert), cert, passThrough(svc))
  BY Zenon DEF values
<1>7. QED
  BY Zenon, <1>1, <1>4, <1>5, <1>6

\* TLSAsConfigured follows.
LEMMA Configured == AllWellFormed => TLSAsConfigured
<1> SUFFICES ASSUME AllWellFormed, NEW n \in requested, ~isNetwork(services[n]), NEW r \in rulesOf(n)
             PROVE  /\ r.entryPort \in encryptedPorts(services[n]) /\ r.entryProtocol # "udp" => secured(r)
                    /\ r.entryProtocol \in {"https", "http2", "http3"}
                         => secured(r) \/ plainHTTP3(services[n], r)
                    /\ r.tlsPassThrough => r.targetProtocol = r.entryProtocol
                    /\ r.certificateID # Unset => r.targetProtocol = "http"
  BY Zenon DEF TLSAsConfigured
<1> DEFINE svc   == services[n]
           certs == certificates("up")
           cert  == findCertificateID(svc, certs)
<1>1. n \in names(services) /\ wellFormed(svc) /\ ~requestFails(svc, certs, "nil")
  BY DEF requested, loadBalancerServices, AllWellFormed
<1>2. /\ request(n).forwardingRules = buildForwardingRules(svc, certs)
      /\ buildForwardingRules(svc, certs) # BuildError
  BY Zenon, <1>1 DEF request, requestOf, buildLoadBalancerRequest, forwardingRules, requestFails
<1>3. r \in values(buildForwardingRules(svc, certs))
  BY <1>2 DEF rulesOf
<1>4. /\ r # BuildError /\ cert # BuildError
      /\ \/ r \in values(buildHTTP3ForwardingRule(svc, cert))
         \/ \E i \in DOMAIN svc.ports :
              r = buildForwardingRule(svc.ports[i], entryProtocol(svc, svc.ports[i], cert),
                                      cert, passThrough(svc))
  BY Zenon, <1>1, <1>2, <1>3, RuleOfPort
<1>5. svc.certificateID # Unset \/ svc.certificateName # Unset => cert # Unset
  <2>1. CASE svc.certificateID # Unset
    BY <2>1 DEF findCertificateID
  <2>2. CASE svc.certificateID = Unset /\ svc.certificateName # Unset
    <3>1. svc.certificateName \in CertificateNames /\ cert = certs[svc.certificateName]
      BY Zenon, <1>1, <2>2 DEF findCertificateID, wellFormed, isCertificate
    <3>2. cert = svc.certificateName
      BY <1>4, <3>1 DEF certificates
    <3>3. QED
      BY <2>2, <3>2
  <2>3. QED
    BY <2>1, <2>2
<1>6. CASE r \in values(buildHTTP3ForwardingRule(svc, cert))
  <2>1. /\ r.entryProtocol = "http3" /\ r.targetProtocol = "http"
        /\ r.certificateID # Unset /\ r.tlsPassThrough = FALSE
    BY Zenon, <1>4, <1>6, HTTP3Rule
  <2>2. QED
    BY Zenon, <2>1 DEF secured
<1>7. ASSUME NEW i \in DOMAIN svc.ports,
             r = buildForwardingRule(svc.ports[i], entryProtocol(svc, svc.ports[i], cert), cert, passThrough(svc))
      PROVE  /\ r.entryPort \in encryptedPorts(svc) /\ r.entryProtocol # "udp" => secured(r)
             /\ r.entryProtocol \in {"https", "http2", "http3"} => secured(r) \/ plainHTTP3(svc, r)
             /\ r.tlsPassThrough => r.targetProtocol = r.entryProtocol
             /\ r.certificateID # Unset => r.targetProtocol = "http"
  <2> DEFINE port     == svc.ports[i]
             protocol == entryProtocol(svc, port, cert)
  <2>1. /\ r.entryPort = port.port /\ r.entryProtocol = protocol
        /\ protocol \in {"https", "http2"} => (r.certificateID # Unset) # r.tlsPassThrough
        /\ protocol \notin {"https", "http2"} => r.targetProtocol = protocol
        /\ r.tlsPassThrough => r.targetProtocol = r.entryProtocol
        /\ r.certificateID # Unset => r.targetProtocol = "http"
    <3>1. passThrough(svc) \in BOOLEAN
      BY DEF passThrough
    <3> HIDE DEF svc, port, protocol, cert
    <3>2. r = buildForwardingRule(port, protocol, cert, passThrough(svc))
      BY Zenon, <1>7 DEF port, protocol
    <3>3. QED
      BY <1>4, <3>1, <3>2, PortRule
  <2>2. port.port \in 1..MaxPort
    <3>1. svc.ports \in Seq(Ports)
      BY <1>1 DEF wellFormed
    <3>2. port \in Ports
      BY <1>7, <3>1
    <3>3. QED
      BY <3>2 DEF Ports
  <2>3. protocol # "udp" => port.protocol # "UDP"
    BY Zenon DEF entryProtocol
  <2>4. ASSUME r.entryPort \in encryptedPorts(svc), r.entryProtocol # "udp"
        PROVE  secured(r)
    <3> HIDE DEF svc, port, protocol, cert
    <3>1. port.protocol # "UDP" /\ port.port \in encryptedPorts(svc)
      BY Zenon, <2>1, <2>3, <2>4
    <3>2. entryProtocol(svc, port, cert) \in {"https", "http2"}
      BY <1>5, <2>2, <3>1, Encrypted
    <3>3. QED
      BY Zenon, <2>1, <3>2 DEF protocol, secured
  <2>5. ASSUME r.entryProtocol \in {"https", "http2", "http3"}
        PROVE  secured(r) \/ plainHTTP3(svc, r)
    <3>1. protocol = "http3" => getProtocol(svc) = "http3"
      BY Zenon DEF entryProtocol
    <3> HIDE DEF svc, port, protocol, cert
    <3>2. CASE protocol \in {"https", "http2"}
      BY Zenon, <2>1, <2>5, <3>2 DEF secured
    <3>3. CASE protocol = "http3"
      BY Zenon, <2>1, <3>1, <3>3 DEF plainHTTP3
    <3>4. QED
      BY Zenon, <2>1, <2>5, <3>2, <3>3
  <2>6. QED
    BY Zenon, <2>1, <2>4, <2>5
<1>8. QED
  BY <1>4, <1>6, <1>7

\* TLSAsConfigured for all annotations and every sequence of changes.
THEOREM Encryption == Spec => []TLSAsConfigured
BY WellFormed, Configured, PTL
================================================================================
