---------------------------- MODULE MCLBAdmission ----------------------------
(***************************************************************************)
(* Small instances of LBAdmission for TLC: pairs of Services as the        *)
(* firewall sees them, some of three, and one Service with many            *)
(* annotations.                                                            *)
(***************************************************************************)
EXTENDS FirewallLoop

port(protocol, number_, nodePort) ==
  [protocol |-> protocol, port |-> number_, nodePort |-> nodePort]

\* Ports both Services have, one that is also a health check port, one without
\* a node port, and one whose protocol is not supported.
PortLists ==
  {<<port("TCP", 80, 30080)>>, <<port("TCP", 80, 30081), port("SCTP", 90, 30090)>>,
   <<port("UDP", 53, 30053), port("TCP", 10256, 0)>>}

spec(type, managed_, lbType, network, lbID, hcNodePort, ports) ==
  [type |-> type, managed |-> managed_, lbType |-> lbType, network |-> network, lbID |-> lbID,
   local |-> hcNodePort # 0, hcNodePort |-> hcNodePort, ports |-> ports] @@ NoAnnotations

FirewallSpecs ==
  {spec("NodePort", m, Unset, Unset, Unset, 0, p) : m \in {Unset, "false", "maybe"}, p \in PortLists}
  \cup
  {spec("LoadBalancer", Unset, t[1], t[2], i, h, p) :
     t \in {<<Unset, Unset>>, <<"REGIONAL", Unset>>, <<"GLOBAL", Unset>>, <<Unset, "INTERNAL">>},
     i \in {Unset, "lb1", "lb2"}, h \in {0, 32000}, p \in PortLists}

\* Each of these next to one that may change what it opens.
Partners ==
  {spec("NodePort", m, Unset, Unset, Unset, 0, <<port("TCP", 80, 30081)>>) : m \in {Unset, "false"}}
  \cup
  {spec("LoadBalancer", Unset, t, Unset, i, h, <<port("TCP", 80, 30081)>>) :
     t \in {Unset, "GLOBAL"}, i \in {Unset, "lb2"}, h \in {0, 32000}}

Pairs == {[n \in {"a", "b"} |-> IF n = "a" THEN s ELSE t] : s \in FirewallSpecs, t \in Partners \cup {Absent}}

\* Three Services: a NodePort that may be unmanaged, and two load balancers one of
\* which may have an error.
Triples ==
  {[n \in {"a", "b", "c"} |->
      CASE n = "a" -> spec("NodePort", m, Unset, Unset, Unset, 0, <<port("TCP", 80, 30081)>>)
        [] n = "b" -> spec("LoadBalancer", Unset, t, Unset, "lb1", 0, p)
        [] OTHER   -> spec("LoadBalancer", Unset, Unset, Unset, i, 0, q)] :
     m \in {Unset, "false"}, t \in {Unset, "GLOBAL"}, i \in {Unset, "lb1"}, p \in PortLists, q \in PortLists}

\* A load balancer for the web: TCP 80 and 443 next to UDP 443.
web ==
  <<port("UDP", 443, 30444), port("TCP", 80, 30080), port("TCP", 443, 30443)>>

lb(lbType, ports) == spec("LoadBalancer", Unset, lbType, Unset, Unset, 0, ports)

wide == 2 * Int32Half + 443   \* 443 after the conversion to int32

\* Everything that has a say in the forwarding rules; a certificate has an ID or
\* a name here, and both after an edit.
ForwardingSpecs ==
  {[lb("REGIONAL", web) EXCEPT !.protocol = p, !.httpPorts = h, !.tlsPorts = s, !.http2Ports = h2,
      !.http3Port = h3, !.tlsPassThrough = t, !.certificateID = c[1], !.certificateName = c[2]] :
     p \in {Unset, "http", "https", "http3"}, h \in {<<>>, <<80>>, <<443>>},
     s \in {<<>>, <<443>>, <<wide>>}, h2 \in {<<>>, <<443, 80>>}, h3 \in {<<>>, <<443>>},
     t \in {Unset, "true"}, c \in {<<Unset, Unset>>, <<"id", Unset>>, <<Unset, "name">>}}

\* Everything that has a say in the health check but its numbers.
HealthSpecs ==
  {[lb(t, ports) EXCEPT !.overrideHealthCheck = o, !.healthCheckPort = p,
      !.healthCheckProtocol = q, !.hcNodePort = h, !.local = h # 0] :
     t \in {"REGIONAL", "REGIONAL_NETWORK"}, ports \in {web} \cup PortLists, o \in BOOLEAN,
     p \in {<<>>, <<80>>, <<443>>, <<80, 443>>, BuildError},
     q \in {Unset, "https", "udp"}, h \in {0, 32000}}

\* The other annotations.
OtherSpecs ==
  {[lb(t, web) EXCEPT !.interval = i, !.overrideHealthCheck = o] :
     t \in {"REGIONAL", "REGIONAL_NETWORK"}, i \in {<<5>>, BuildError}, o \in BOOLEAN}
  \cup
  {[lb("REGIONAL", web) EXCEPT !.protocol = p, !.httpPorts = h, !.certificateName = c, !.http3Port = h3] :
     p \in {Unset, "smtp"}, h \in {<<>>, BuildError}, c \in {Unset, "gone"}, h3 \in {<<>>, <<8443>>, <<-1>>, BuildError}}
  \cup
  {[lb(Unset, web) EXCEPT !.stickySessionsType = t, !.cookieName = n, !.cookieTTL = l] :
     t \in {Unset, "cookies"}, n \in {Unset, "n"}, l \in {<<>>, <<30>>, BuildError}}
  \cup
  {[lb(Unset, web) EXCEPT !.sizeSlug = s, !.sizeUnit = u, !.redirect = r] :
     s \in {Unset, "lb-small", "huge"}, u \in {<<>>, <<0>>, <<2>>, <<-1>>, BuildError}, r \in {Unset, "true", "yes"}}
  \cup
  {[lb(Unset, web) EXCEPT !.sourceRanges = g, !.allowRules = a, !.idleTimeout = i, !.algorithm = "random"] :
     g \in {<<>>, <<"10.0.0.0/8">>, BuildError}, a \in {<<>>, <<"ip:1.2.3.4">>}, i \in {<<>>, <<60>>, BuildError}}
  \cup
  {[lb(t, web) EXCEPT !.network = n, !.networkStack = s, !.lbID = i, !.deleted = d] :
     t \in {Unset, "REGIONAL", "GLOBAL"}, n \in {Unset, "INTERNAL", "VPN"},
     s \in {Unset, "IPV4", "DUALSTACK", "IPV6"}, i \in {Unset, "lb1"}, d \in BOOLEAN}

MCInitialServices ==
  Pairs \cup Triples \cup {[n \in {"a"} |-> s] : s \in ForwardingSpecs \cup HealthSpecs \cup OtherSpecs}

MCValues ==
  [type |-> {"LoadBalancer", "ClusterIP"}, lbType |-> {"REGIONAL"}, hostname |-> {"h"},
   certificateID |-> {"id"}, tlsPorts |-> {<<443>>}, sizeUnit |-> {<<>>}, deleted |-> {TRUE}]
==============================================================================
