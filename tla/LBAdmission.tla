----------------------------- MODULE LBAdmission -----------------------------
(***************************************************************************)
(* The Services of a cluster as users and the load balancer controller     *)
(* change them, with the admission webhook in between, and the two         *)
(* configurations the cloud gets from them: a request for each load        *)
(* balancer, and the rules of the public access firewall.                  *)
(***************************************************************************)
EXTENDS LBRequest

CONSTANTS InitialServices,  \* functions from names to Services or Absent
          Values,           \* field of a Service -> values a user may give it
          CertificateNames, \* names of certificates an annotation may hold
          MaxEdits          \* bound: how often Services are changed

ServiceFields ==
  DOMAIN NoAnnotations \cup
  {"type", "managed", "lbType", "network", "lbID", "local", "hcNodePort", "ports"}

\* Ports as the API server lets them pass, IDs as the DigitalOcean API makes
\* them (never one of the marks of FirewallRules), and names of certificates.
MaxPort == 65535

Ports == [protocol : STRING, port : 1..MaxPort, nodePort : 0..MaxPort]

isID(id)            == id \notin {Everywhere, NilSources}
isCertificate(name) == name \in CertificateNames \cup {Unset}

wellFormed(svc) ==
  /\ DOMAIN svc = ServiceFields
  /\ isID(svc.lbID) /\ isCertificate(svc.certificateName) /\ svc.ports \in Seq(Ports)

ASSUME AdmissionAssumption ==
  /\ \A list \in InitialServices : \A n \in names(list) : wellFormed(list[n])
  /\ \A field \in DOMAIN Values :
       /\ field \in ServiceFields
       /\ field = "lbID" => \A v \in Values[field] : isID(v)
       /\ field = "certificateName" => \A v \in Values[field] : isCertificate(v)
       /\ field = "ports" => Values[field] \subseteq Seq(Ports)

VARIABLES
  services,  \* the Services as stored by the API server
  api,       \* what becomes of calls to the DigitalOcean API
  edits      \* how many changes there were

vars == <<services, api, edits>>

\* Answers to a dry run, and to a lookup of a certificate by name; the name
\* "gone" is that of no certificate.
answers(state) ==
  CASE state = "up"          -> {"accepted", "rejected"}
    [] state = "failing"     -> {"failed"}
    [] state = "unreachable" -> {"none"}

certificates(state) ==
  [name \in CertificateNames |-> IF state = "up" /\ name # "gone" THEN name ELSE BuildError]

Edited(svc) == UNION {{[svc EXCEPT ![field] = v] : v \in Values[field]} : field \in DOMAIN Values}

Admitted(n, new) ==
  \E answer \in answers(api) : handle(services[n], new, certificates(api), answer) = "allowed"

Init ==
  /\ services \in InitialServices
  /\ api = "up"
  /\ edits = 0

Store(n, new) ==
  /\ services' = [services EXCEPT ![n] = new]
  /\ UNCHANGED api

UserWrites(n, new) ==
  /\ edits < MaxEdits
  /\ new # services[n]
  /\ Admitted(n, new)
  /\ edits' = edits + 1
  /\ Store(n, new)

\* The webhook's failure policy is Ignore: a change is stored when the webhook
\* cannot be reached.
WebhookSkipped(n, new) ==
  /\ edits < MaxEdits
  /\ new # services[n]
  /\ edits' = edits + 1
  /\ Store(n, new)

\* What EnsureLoadBalancer records after it has created a load balancer.
annotated(svc, id) == [svc EXCEPT !.lbID = id, !.lbType = getType(svc)]

\* The controller could build a request, given suitable nodes.
buildable(svc) ==
  \E nodeState \in {"dual", "mixed"} : ~requestFails(svc, certificates("up"), nodeState)

RecordID(n) ==
  /\ services[n].type = "LoadBalancer" /\ ~services[n].deleted /\ services[n].lbID = Unset
  /\ buildable(services[n])
  /\ Admitted(n, annotated(services[n], "lb1"))
  /\ Store(n, annotated(services[n], "lb1"))
  /\ UNCHANGED edits

RemoveFinalizer(n) ==
  /\ services[n].deleted
  /\ Admitted(n, services[n])
  /\ Store(n, Absent)
  /\ UNCHANGED edits

ApiChanges(state) ==
  /\ state # api
  /\ api' = state
  /\ UNCHANGED <<services, edits>>

Next ==
  \/ \E n \in names(services) :
       \/ \E new \in Edited(services[n]) : UserWrites(n, new) \/ WebhookSkipped(n, new)
       \/ RecordID(n)
       \/ RemoveFinalizer(n)
  \/ \E state \in {"up", "failing", "unreachable"} : ApiChanges(state)

Spec == Init /\ [][Next]_vars

------------------------------------------------------------------------------
(***************************************************************************)
(* Properties of the firewall's rules.                                     *)
(***************************************************************************)
firewall == createReconciledFirewallRequest(services)

public == {[protocol |-> r.protocol, port |-> r.port] : r \in {q \in DOMAIN firewall : q.sources = Everywhere}}

\* A health check port is open to everyone only while the load balancer that
\* needs it has no ID yet, or if a Service exposes that port itself.
HealthPortRestricted ==
  firewall # BuildError =>
    \A n \in networkLoadBalancers(services) :
      [protocol |-> "TCP", port |-> healthCheckPathAndPort(services[n])] \in public =>
        \/ \E m \in networkLoadBalancers(services) :
             /\ services[m].lbID = Unset
             /\ healthCheckPathAndPort(services[m]) = healthCheckPathAndPort(services[n])
        \/ \E m \in names(services) :
             \E q \in portsOf(services[m]) : healthCheckPathAndPort(services[n]) \in {q.port, q.nodePort}

(***************************************************************************)
(* Properties of the load balancers' requests.                             *)
(***************************************************************************)
request(n) == requestOf(services[n], certificates("up"))

\* The load balancers a request can be built for.
requested == {n \in loadBalancerServices(services) : ~requestFails(services[n], certificates("up"), "nil")}

rulesOf(n) == values(request(n).forwardingRules)

\* The ports of a Service that its annotations say are encrypted.
encryptedPorts(svc) ==
  values(svc.tlsPorts) \cup values(svc.http2Ports) \cup
  (IF svc.tlsPorts = <<>> /\ (svc.certificateID # Unset \/ svc.certificateName # Unset \/ passThrough(svc))
   THEN {defaultSecurePort} ELSE {})

\* Encrypted traffic that is decrypted with the certificate or passed through.
secured(r) ==
  r.entryProtocol \in {"https", "http2", "http3"} /\ (r.certificateID # Unset) # r.tlsPassThrough

\* The default protocol http3, which buildForwardingRule takes as it is.
plainHTTP3(svc, r) ==
  getProtocol(svc) = "http3" /\ r.entryProtocol = "http3" /\ r.targetProtocol = "http3"

\* A TCP port that the annotations of a terminating load balancer name as
\* encrypted, or 443 when there is a certificate and no port is named, is never
\* served in plain text, whatever the other port lists and the default protocol
\* say; encrypted traffic is decrypted with the one certificate or passed
\* through, never both and, with one exception, never neither
\* (buildForwardingRules).  The exception is the default protocol http3: its
\* rules have neither (loadbalancers.go:1437), where annotations.md:24 says that
\* one of them must be specified.
TLSAsConfigured ==
  \A n \in requested \ {m \in requested : isNetwork(services[m])} :
    \A r \in rulesOf(n) :
      /\ r.entryPort \in encryptedPorts(services[n]) /\ r.entryProtocol # "udp" => secured(r)
      /\ r.entryProtocol \in {"https", "http2", "http3"} => secured(r) \/ plainHTTP3(services[n], r)
      /\ r.tlsPassThrough => r.targetProtocol = r.entryProtocol
      /\ r.certificateID # Unset => r.targetProtocol = "http"

\* What the firewall lets through to the droplets from load balancer id.
opened(id) ==
  {<<r.protocol, r.port>> : r \in {q \in DOMAIN firewall : q.sources \in {Everywhere, id}}}

protocolOf(r) == IF r.targetProtocol = "udp" THEN "UDP" ELSE "TCP"

passThroughLBs == {n \in requested : isNetwork(services[n]) /\ ~isInternal(services[n])}

\* The traffic an external pass-through load balancer sends to the droplets, and
\* its health checks unless they are overridden, pass the public access firewall:
\* createReconciledFirewallRequest computes its ports apart from
\* buildRegionalNetworkForwardingRule and buildHealthCheck.
BackendsReachable ==
  firewall # BuildError =>
    \A n \in passThroughLBs :
      /\ \A r \in rulesOf(n) : <<protocolOf(r), r.targetPort>> \in opened(services[n].lbID)
      /\ ~services[n].overrideHealthCheck =>
           <<"TCP", request(n).healthCheck.port>> \in opened(services[n].lbID)

(***************************************************************************)
(* Properties of the webhook.                                              *)
(***************************************************************************)
sameButStack(r, s) == [r EXCEPT !.networkStack = Unset] = [s EXCEPT !.networkStack = Unset]

\* The webhook, which has no nodes, and the controller, which has, agree on a
\* Service: they build the same request but for the network stack, and the
\* controller fails on what the webhook lets pass only for want of nodes or of
\* nodes with IPv6 for a load balancer that insists on it.
WebhookAgrees ==
  \A n \in loadBalancerServices(services) :
    \A nodeState \in {"none", "dual", "mixed"} :
      IF requestFails(services[n], certificates("up"), nodeState)
      THEN \/ nodeState = "none"
           \/ nodeState = "mixed" /\ services[n].networkStack = "DUALSTACK"
           \/ n \notin requested
      ELSE /\ n \in requested
           /\ sameButStack(buildLoadBalancerRequest(services[n], certificates("up"), nodeState), request(n))

\* Whatever state the API is in, the webhook stands in the way of none of the
\* controller's own writes: recording the ID of a load balancer it could create,
\* and removing the finalizer.  The exception is a certificate given by name,
\* which the webhook must look up.
OwnWritesAdmitted ==
  \A n \in loadBalancerServices(services) :
    \E svc \in {services[n]} :
      \A answer \in answers(api) :
        /\ svc.deleted => handle(svc, svc, certificates(api), answer) = "allowed"
        /\ /\ buildable(svc)
           /\ svc.certificateName = Unset \/ svc.certificateID # Unset \/ isNetwork(svc)
           => handle(svc, annotated(svc, "lb1"), certificates(api), answer) = "allowed"

\* A Service that is stored although no request can be built of it can be
\* repaired: the webhook judges the new version alone
\* (lb_service_admission_handler.go:107, "it is allowed to be wrong").  An API
\* that fails does not block the repair.
RepairAdmitted ==
  [][\A n \in names(services) :
       services'[n] # Absent /\ services'[n] # services[n] /\ ~requestFails(services'[n], certificates(api), "nil")
       => \A answer \in answers(api) \ {"rejected", "none"} :
            handle(services[n], services'[n], certificates(api), answer) = "allowed"]_services
==============================================================================
