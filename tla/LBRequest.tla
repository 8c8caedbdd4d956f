------------------------------ MODULE LBRequest ------------------------------
(***************************************************************************)
(* The request for a load balancer as a function of its Service            *)
(* (loadbalancers.go, buildLoadBalancerRequestWithNodeState), and what the *)
(* admission webhook answers to a change of the Service                    *)
(* (lb_service_admission_handler.go).                                      *)
(*                                                                         *)
(* A Service is the record of FirewallRules with one more field for each   *)
(* annotation of lb_annotations.go that the request depends on.  A text is *)
(* Unset when the annotation is missing; numbers and port lists are        *)
(* sequences, <<>> when it is missing; BuildError stands for a value that  *)
(* cannot be parsed, and for the error every function here may return.     *)
(***************************************************************************)
EXTENDS FirewallRules, Sequences, FiniteSetsExt

CONSTANT Int32Half   \* 2^31

ASSUME Int32Assumption == Int32Half \in Nat /\ Int32Half > 65535

ASSUME ErrorAssumption == BuildError \notin {"IPV4", "DUALSTACK"}

int32(n) == ((n + Int32Half) % (2 * Int32Half)) - Int32Half

\* The annotations a load balancer's request is made of, all missing, and the
\* parts of the Service's spec the firewall does not look at.
NoAnnotations ==
  [protocol |-> Unset, httpPorts |-> <<>>, tlsPorts |-> <<>>, http2Ports |-> <<>>, http3Port |-> <<>>,
   tlsPassThrough |-> Unset, certificateID |-> Unset, certificateName |-> Unset,
   overrideHealthCheck |-> FALSE, healthCheckPort |-> <<>>, healthCheckPath |-> Unset,
   healthCheckProtocol |-> Unset, interval |-> <<>>, timeout |-> <<>>, unhealthy |-> <<>>, healthy |-> <<>>,
   stickySessionsType |-> Unset, cookieName |-> Unset, cookieTTL |-> <<>>,
   algorithm |-> Unset, sizeSlug |-> Unset, sizeUnit |-> <<>>,
   redirect |-> Unset, proxyProtocol |-> Unset, keepalive |-> Unset, disableLEDNS |-> Unset,
   idleTimeout |-> <<>>, denyRules |-> <<>>, allowRules |-> <<>>, networkStack |-> Unset,
   hostname |-> Unset, sourceRanges |-> <<>>, deleted |-> FALSE]

values(seq) == {seq[i] : i \in DOMAIN seq}

number(ann, default) ==
  IF ann = BuildError THEN BuildError ELSE IF ann = <<>> THEN default ELSE ann[1]

getBool(ann) ==
  CASE ann = Unset -> FALSE
    [] ann \in {"true", "false"} -> ann = "true"
    [] OTHER -> BuildError

------------------------------------------------------------------------------
(***************************************************************************)
(* Forwarding rules.  certificates answers a lookup by name: an ID, or     *)
(* BuildError if there is none or the API cannot be asked.                 *)
(***************************************************************************)

findCertificateID(svc, certificates) ==
  CASE svc.certificateID # Unset -> svc.certificateID
    [] svc.certificateID = Unset /\ svc.certificateName # Unset -> certificates[svc.certificateName]
    [] OTHER -> Unset

passThrough(svc) == svc.tlsPassThrough = "true"

getProtocol(svc) ==
  CASE svc.protocol = Unset -> "tcp"
    [] svc.protocol \in {"tcp", "http", "https", "http2", "http3"} -> svc.protocol
    [] OTHER -> BuildError

defaultSecurePort == 443

\* getHTTPSPorts, with port 443 added when the Service asks for encryption and
\* says nowhere on which port.
securePorts(svc, cert) ==
  IF /\ cert # Unset \/ passThrough(svc)
     /\ svc.tlsPorts = <<>>
     /\ defaultSecurePort \notin values(svc.http2Ports)
  THEN <<defaultSecurePort>>
  ELSE svc.tlsPorts

findDups(list) == \E i, j \in DOMAIN list : i # j /\ list[i] = list[j]

named(port, list) == \E n \in values(list) : int32(n) = port.port

\* Mutant: a port in two of the lists is taken for HTTP first.
entryProtocolPlain(svc, port, cert) ==
  IF port.protocol = "UDP" THEN "udp"
  ELSE IF named(port, svc.httpPorts) THEN "http"
  ELSE IF named(port, svc.http2Ports) THEN "http2"
  ELSE IF named(port, securePorts(svc, cert)) THEN "https"
  ELSE getProtocol(svc)

entryProtocol(svc, port, cert) ==
  IF port.protocol = "UDP" THEN "udp"
  ELSE IF named(port, svc.http2Ports) THEN "http2"
  ELSE IF named(port, securePorts(svc, cert)) THEN "https"
  ELSE IF named(port, svc.httpPorts) THEN "http"
  ELSE getProtocol(svc)

rule(protocol, port, targetPort) ==
  [entryProtocol |-> protocol, entryPort |-> port, targetProtocol |-> protocol, targetPort |-> targetPort,
   certificateID |-> Unset, tlsPassThrough |-> FALSE]

buildTLSForwardingRule(r, cert, pass) ==
  IF (cert # Unset) = pass THEN BuildError
  ELSE IF pass THEN [r EXCEPT !.tlsPassThrough = TRUE]
  ELSE [r EXCEPT !.certificateID = cert, !.targetProtocol = "http"]

buildForwardingRule(port, protocol, cert, pass) ==
  IF ~supported(port.protocol) THEN BuildError
  ELSE IF protocol \in {"https", "http2"}
  THEN buildTLSForwardingRule(rule(protocol, port.port, port.nodePort), cert, pass)
  ELSE rule(protocol, port.port, port.nodePort)

\* No rule, one rule or an error; -1 stands for a missing annotation and counts
\* as one.  The entry port is the number as it is in the annotation, before its
\* conversion to 32 bits.
buildHTTP3ForwardingRule(svc, cert) ==
  LET matching == {i \in DOMAIN svc.ports : svc.ports[i].port = int32(svc.http3Port[1])}
  IN  IF svc.http3Port \in {<<>>, <<-1>>} THEN <<>>
      ELSE IF svc.http3Port = BuildError \/ passThrough(svc) \/ cert = Unset THEN <<BuildError>>
      ELSE IF matching = {} THEN <<>>
      ELSE <<[rule("http3", svc.http3Port[1], svc.ports[Min(matching)].nodePort)
                EXCEPT !.targetProtocol = "http", !.certificateID = cert]>>

buildForwardingRules(svc, certificates) ==
  LET cert  == findCertificateID(svc, certificates)
      rules == [i \in DOMAIN svc.ports |->
                  buildForwardingRule(svc.ports[i], entryProtocol(svc, svc.ports[i], cert),
                                      cert, passThrough(svc))]
               \o buildHTTP3ForwardingRule(svc, cert)
  IN  IF \/ getProtocol(svc) = BuildError
         \/ svc.httpPorts = BuildError \/ svc.tlsPorts = BuildError \/ svc.http2Ports = BuildError
         \/ findDups(svc.httpPorts \o svc.tlsPorts \o svc.http2Ports)
         \/ cert = BuildError
         \/ BuildError \in values(rules)
      THEN BuildError
      ELSE rules

buildRegionalNetworkForwardingRule(svc) ==
  IF \E port \in portsOf(svc) : ~supported(port.protocol)
  THEN BuildError
  ELSE [i \in DOMAIN svc.ports |->
          LET port == svc.ports[i]
          IN  rule(IF port.protocol = "TCP" THEN "tcp" ELSE "udp", port.port, port.port)]

------------------------------------------------------------------------------
(***************************************************************************)
(* Health check, sticky sessions, size, firewall and network stack.        *)
(***************************************************************************)

\* The node port of the one port the annotation names, or of the first TCP port.
healthCheckPort(svc) ==
  LET candidates == {i \in DOMAIN svc.ports : IF svc.healthCheckPort = <<>>
                                              THEN svc.ports[i].protocol = "TCP"
                                              ELSE svc.ports[i].port = svc.healthCheckPort[1]}
      first      == svc.ports[Min(candidates)]
  IN  IF \/ svc.healthCheckPort = BuildError
         \/ Len(svc.healthCheckPort) > 1
         \/ candidates = {}
         \/ first.protocol = "UDP"
      THEN BuildError
      ELSE first.nodePort

healthCheckProtocol(svc) ==
  CASE svc.healthCheckProtocol = Unset -> IF svc.healthCheckPath = Unset THEN "tcp" ELSE "http"
    [] svc.healthCheckProtocol \in {"tcp", "http", "https"} -> svc.healthCheckProtocol
    [] OTHER -> BuildError

healthCheckNumbers(svc) ==
  <<number(svc.interval, 3), number(svc.timeout, 5), number(svc.unhealthy, 3), number(svc.healthy, 5)>>

\* Without the override the other health check annotations are not read, apart
\* from the numbers, and PROXY protocol is off.
buildHealthCheck(svc) ==
  LET check == IF svc.overrideHealthCheck
               THEN [protocol |-> healthCheckProtocol(svc), port |-> healthCheckPort(svc),
                     path |-> svc.healthCheckPath, proxyProtocol |-> Unset,
                     numbers |-> healthCheckNumbers(svc)]
               ELSE [protocol |-> "http", port |-> healthCheckPathAndPort(svc),
                     path |-> "/healthz", proxyProtocol |-> "false",
                     numbers |-> healthCheckNumbers(svc)]
  IN  IF \/ check.protocol = BuildError
         \/ check.port = BuildError
         \/ \E i \in DOMAIN check.numbers : check.numbers[i] = BuildError
      THEN BuildError
      ELSE check

buildStickySessions(svc) ==
  IF svc.stickySessionsType # "cookies" THEN <<"none">>
  ELSE IF svc.cookieName = Unset \/ svc.cookieTTL = <<>> \/ svc.cookieTTL = BuildError THEN BuildError
  ELSE <<"cookies", svc.cookieName, svc.cookieTTL[1]>>

getAlgorithm(svc) == IF svc.algorithm = "least_connections" THEN svc.algorithm ELSE "round_robin"

sizeOK(svc) ==
  /\ svc.sizeSlug \in {Unset, "lb-small", "lb-medium", "lb-large"}
  /\ svc.sizeUnit # BuildError
  /\ number(svc.sizeUnit, 0) >= 0
  /\ svc.sizeSlug = Unset \/ number(svc.sizeUnit, 0) = 0

flags(svc) ==
  <<getBool(svc.redirect), getBool(svc.proxyProtocol), getBool(svc.keepalive), getBool(svc.disableLEDNS)>>

\* Source ranges take precedence over the annotation with the allow rules.
buildFirewall(svc) ==
  IF svc.sourceRanges = BuildError THEN BuildError
  ELSE [deny  |-> svc.denyRules,
        allow |-> IF svc.sourceRanges # <<>> THEN svc.sourceRanges ELSE svc.allowRules]

isNetwork(svc)  == getType(svc) = "REGIONAL_NETWORK"
isInternal(svc) == getNetwork(svc) = "INTERNAL"

\* Mutant: without nodes the annotation is taken as it is.
getNetworkStackUnchecked(svc, nodeState) ==
  IF nodeState = "none" THEN BuildError
  ELSE IF nodeState = "nil" THEN svc.networkStack
  ELSE IF svc.networkStack = "DUALSTACK" /\ isInternal(svc) THEN BuildError ELSE svc.networkStack

\* nodeState: "nil" in the webhook; otherwise "none" when no node is lb-ready,
\* "dual" when all that are have both addresses, and "mixed".
getNetworkStack(svc, nodeState) ==
  LET default == IF \/ isInternal(svc)
                    \/ isNetwork(svc) /\ nodeState # "dual"
                 THEN "IPV4" ELSE "DUALSTACK"
      stack   == IF svc.networkStack = Unset THEN default ELSE svc.networkStack
  IN  IF \/ nodeState = "none"
         \/ stack \notin {"IPV4", "DUALSTACK"}
         \/ stack = "DUALSTACK" /\ isInternal(svc)
         \/ stack = "DUALSTACK" /\ isNetwork(svc) /\ nodeState = "mixed"
      THEN BuildError
      ELSE stack

forwardingRules(svc, certificates) ==
  IF isNetwork(svc) THEN buildRegionalNetworkForwardingRule(svc) ELSE buildForwardingRules(svc, certificates)

\* One of the parts cannot be built.
requestFails(svc, certificates, nodeState) ==
  \/ ~typeOK(svc) \/ ~networkOK(svc) \/ ~sizeOK(svc)
  \/ getNetworkStack(svc, nodeState) = BuildError
  \/ forwardingRules(svc, certificates) = BuildError
  \/ buildHealthCheck(svc) = BuildError
  \/ buildStickySessions(svc) = BuildError
  \/ \E i \in DOMAIN flags(svc) : flags(svc)[i] = BuildError
  \/ svc.idleTimeout = BuildError
  \/ buildFirewall(svc) = BuildError

buildLoadBalancerRequest(svc, certificates, nodeState) ==
  IF requestFails(svc, certificates, nodeState) THEN BuildError
  ELSE [type |-> getType(svc), network |-> getNetwork(svc),
        networkStack |-> getNetworkStack(svc, nodeState),
        forwardingRules |-> forwardingRules(svc, certificates), healthCheck |-> buildHealthCheck(svc),
        stickySessions |-> buildStickySessions(svc), algorithm |-> getAlgorithm(svc),
        size |-> <<svc.sizeSlug, number(svc.sizeUnit, 0)>>, flags |-> flags(svc),
        idleTimeout |-> svc.idleTimeout, firewall |-> buildFirewall(svc)]

------------------------------------------------------------------------------
(***************************************************************************)
(* The admission webhook.  answer is what the API says to the dry run of   *)
(* the creation or update: "accepted", "rejected" (4xx), "failed" (5xx) or *)
(* "none" (no response).                                                   *)
(***************************************************************************)

mapGodoRespToAdmissionResp(answer) ==
  CASE answer = "none"     -> "errored"
    [] answer = "rejected" -> "denied"
    [] OTHER               -> "allowed"

requestOf(svc, certificates) == buildLoadBalancerRequest(svc, certificates, "nil")

\* Mutant: every update is tried against the API.
validateAlways(old, new, certificates, answer) == mapGodoRespToAdmissionResp(answer)

\* Mutant: an update of a Service that is wrong is an error.
validateOldToo(old, new, certificates, answer) ==
  IF old # Absent /\ requestOf(old, certificates) = BuildError THEN "errored"
  ELSE mapGodoRespToAdmissionResp(answer)

\* validateUpdate and validateCreate: they differ in the dry run they ask for.
\* The old Service (Absent for a creation) may be one no request can be built of.
validate(old, new, certificates, answer) ==
  IF old # Absent /\ requestOf(old, certificates) = requestOf(new, certificates)
  THEN "allowed"
  ELSE mapGodoRespToAdmissionResp(answer)

handle(old, new, certificates, answer) ==
  IF new.type # "LoadBalancer" \/ new.deleted THEN "allowed"
  ELSE IF requestFails(new, certificates, "nil") THEN "denied"
  ELSE validate(old, new, certificates, answer)
==============================================================================
