---------------------------- MODULE LBCertificates ----------------------------
(***************************************************************************)
(* The certificate of a load balancer.  The Service gives it by ID or by   *)
(* name; the load balancer service renews Let's Encrypt certificates, that *)
(* of this load balancer and those of others, under a new ID and the old   *)
(* name; and a pass of the service controller writes the load balancer     *)
(* from its copy of the Service, after recordUpdatedLetsEncryptCert had a  *)
(* chance to correct the annotation.  Every API call of the pass is a      *)
(* step.  The load balancer exists and its forwarding rules are encrypted  *)
(* when there is a certificate; creating and deleting it, and a second     *)
(* worker, are the subject of LBService.                                   *)
(***************************************************************************)
EXTENDS Integers, FiniteSets, Sequences

CONSTANTS CertNames,       \* names of certificates
          LetsEncrypt,     \* the names whose certificates are of type lets_encrypt
          MaxIDs,          \* bound: how many certificates there ever are
          Scenarios,       \* what may happen: sets of kinds, see Disturb
          MaxDisturbances  \* bound: how often

NoID   == 0
NoName == "none"
IDs    == 1..MaxIDs

\* One certificate of each name.
Namings ==
  {f \in [IDs -> CertNames \cup {NoName}] :
     \A n \in CertNames : Cardinality({i \in IDs : f[i] = n}) = 1}

ASSUME CertificatesAssumption ==
  /\ NoName \notin CertNames /\ Namings # {}
  /\ LetsEncrypt \subseteq CertNames
  /\ MaxIDs \in Nat /\ MaxDisturbances \in Nat

VARIABLES
  svc,       \* the Service's annotations [id, name] in the Kubernetes API
  news,      \* later versions of them on their way to the informer
  lister,    \* the informer's copy
  nameOf,    \* the name of each certificate there is or was, NoName if none yet
  alive,     \* the IDs of the certificates in the account
  lb,        \* the certificate of the load balancer's rules, NoID if none
  due,       \* a pass is queued
  w,         \* the worker's [pc, base, obj, lbCert, cert, req, failed]
  disturbed  \* what may happen in this behaviour and how often it did: [by, times]

vars  == <<svc, news, lister, nameOf, alive, lb, due, w, disturbed>>
cloud == <<nameOf, alive, lb>>

Annotations == [id : IDs \cup {NoID}, name : CertNames \cup {NoName}]

Idle == [pc |-> "idle", base |-> [id |-> NoID, name |-> NoName], obj |-> [id |-> NoID, name |-> NoName],
         lbCert |-> NoID, cert |-> NoID, req |-> NoID, failed |-> FALSE]

Disturb(kind) ==
  /\ kind \in disturbed.by
  /\ disturbed.times < MaxDisturbances
  /\ disturbed' = [disturbed EXCEPT !.times = disturbed.times + 1]

(***************************************************************************)
(* The certificates API.                                                   *)
(***************************************************************************)
letsEncrypt(id) == nameOf[id] \in LetsEncrypt

\* ListByName with one result per page: any of those that share the name.
listByName(name) == {i \in alive : nameOf[i] = name}

\* Mutant: a name takes precedence over an ID.
findCertificateIDByName(ann) ==
  CASE ann.name # NoName -> listByName(ann.name)
    [] ann.name = NoName /\ ann.id # NoID -> {ann.id}
    [] OTHER -> {NoID}

\* What findCertificateID may return; nothing when the lookup by name fails.
findCertificateID(ann) ==
  CASE ann.id # NoID -> {ann.id}
    [] ann.id = NoID /\ ann.name # NoName -> listByName(ann.name)
    [] OTHER -> {NoID}

(***************************************************************************)
(* A pass.                                                                 *)
(***************************************************************************)
At(pc) == w.pc = pc

Goto(pc) == w' = [w EXCEPT !.pc = pc]

\* Mutant: the error of a lookup is dropped.
FailGoesOn == w' = [w EXCEPT !.pc = "update", !.failed = TRUE]

\* An error ends the pass; the deferred Patch still runs.
Fail == w' = [w EXCEPT !.pc = "patch", !.failed = TRUE]

Dequeue ==
  /\ At("idle") /\ due
  /\ due' = FALSE
  /\ w' = [Idle EXCEPT !.pc = "retrieve", !.base = lister, !.obj = lister]
  /\ UNCHANGED <<svc, news, lister, cloud, disturbed>>

\* getCertificateIDFromLB on the load balancer just read.
Retrieve ==
  /\ At("retrieve")
  /\ w' = [w EXCEPT !.pc = "find", !.lbCert = lb]
  /\ UNCHANGED <<svc, news, lister, cloud, due, disturbed>>

\* The Service's certificate, as it is compared with the load balancer's.  The
\* first build of the request fails exactly when this lookup does, and is part
\* of it.
Find ==
  /\ At("find")
  /\ \/ \E c \in findCertificateID(w.obj) : w' = [w EXCEPT !.pc = "lbCert", !.cert = c]
     \/ findCertificateID(w.obj) = {} /\ Fail
  /\ UNCHANGED <<svc, news, lister, cloud, due, disturbed>>

\* Mutant: a certificate that has not changed is recorded as well.
mayBeRenewalEqual(lbCert, cert) ==
  NoID \notin {lbCert, cert} /\ lbCert \in alive /\ letsEncrypt(lbCert)

\* recordUpdatedLetsEncryptCert up to its first call: the load balancer has
\* another certificate than the Service, of Let's Encrypt.
mayBeRenewal(lbCert, cert) ==
  /\ NoID \notin {lbCert, cert}
  /\ lbCert # cert
  /\ lbCert \in alive /\ letsEncrypt(lbCert)

GetLBCert ==
  /\ At("lbCert")
  /\ Goto(IF mayBeRenewal(w.lbCert, w.cert) THEN "annCert" ELSE "build")
  /\ UNCHANGED <<svc, news, lister, cloud, due, disturbed>>

\* Mutants: the names are not compared; an annotated ID that is gone is left.
renewedAny(id, lbCert)   == TRUE
renewedAlive(id, lbCert) == id \in alive /\ nameOf[id] = nameOf[lbCert]

\* Does the load balancer's certificate replace the annotated one?
renewed(id, lbCert) == id \notin alive \/ nameOf[id] = nameOf[lbCert]

GetAnnCert ==
  /\ At("annCert")
  /\ w' = [w EXCEPT !.pc = "build",
                    !.obj.id = IF renewed(w.cert, w.lbCert) THEN w.lbCert ELSE w.obj.id]
  /\ UNCHANGED <<svc, news, lister, cloud, due, disturbed>>

\* The request is built from the corrected copy.
Build ==
  /\ At("build")
  /\ \/ \E c \in findCertificateID(w.obj) : w' = [w EXCEPT !.pc = "update", !.req = c]
     \/ findCertificateID(w.obj) = {} /\ Fail
  /\ UNCHANGED <<svc, news, lister, cloud, due, disturbed>>

\* The API refuses a certificate that does not exist.
Update ==
  /\ At("update")
  /\ \/ /\ w.req \in alive \cup {NoID}
        /\ lb' = w.req
        /\ Goto("patch")
     \/ /\ w.req \notin alive \cup {NoID}
        /\ Fail
        /\ UNCHANGED lb
  /\ UNCHANGED <<svc, news, lister, nameOf, alive, due, disturbed>>

\* A merge patch with the ID if the pass has changed it.
Patch ==
  /\ At("patch")
  /\ svc' = IF w.obj # w.base THEN [svc EXCEPT !.id = w.obj.id] ELSE svc
  /\ news' = IF w.obj # w.base THEN Append(news, svc') ELSE news
  /\ due' = (due \/ w.failed)
  /\ w' = Idle
  /\ UNCHANGED <<lister, cloud, disturbed>>

\* Any of the calls fails; where the code makes none, the next one does.  A
\* patch that failed leaves the Service as it is.
CallFails ==
  /\ Disturb("error")
  /\ \/ /\ w.pc \in {"retrieve", "find", "lbCert", "annCert", "build", "update"}
        /\ Fail
        /\ UNCHANGED due
     \/ /\ At("patch") /\ w.obj # w.base
        /\ due' = TRUE
        /\ w' = Idle
  /\ UNCHANGED <<svc, news, lister, cloud>>

(***************************************************************************)
(* The rest of the world.                                                  *)
(***************************************************************************)

\* Versions arrive one by one and in order; needsUpdate compares the annotations.
Informer ==
  /\ news # <<>>
  /\ lister' = Head(news)
  /\ news' = Tail(news)
  /\ due' = (due \/ lister' # lister)
  /\ UNCHANGED <<svc, cloud, w, disturbed>>

\* Something else about the Service or the nodes changes.
OtherEvent ==
  /\ Disturb("event")
  /\ due' = TRUE
  /\ UNCHANGED <<svc, news, lister, cloud, w>>

UserEdits(ann) ==
  /\ Disturb("edit")
  /\ ann # svc
  /\ ann.id \in alive \cup {NoID}
  /\ ann.id = NoID => ann.name = NoName \/ listByName(ann.name) # {}
  /\ svc' = ann
  /\ news' = Append(news, ann)
  /\ UNCHANGED <<lister, cloud, due, w>>

unused == {i \in IDs : nameOf[i] = NoName}

\* Renewal of any certificate, this load balancer's or not, which every load
\* balancer that has the old one gets; the old one is deleted with it, or kept.
Renew(old, id, kept) ==
  /\ Disturb(IF kept THEN "renewKept" ELSE "renew")
  /\ old \in alive /\ letsEncrypt(old)
  /\ id \in unused /\ \A i \in unused : id <= i
  /\ nameOf' = [nameOf EXCEPT ![id] = nameOf[old]]
  /\ alive' = (IF kept THEN alive ELSE alive \ {old}) \cup {id}
  /\ lb' = IF lb = old THEN id ELSE lb
  /\ UNCHANGED <<svc, news, lister, due, w>>

\* A certificate is deleted that another of its name has replaced.
DeleteReplaced(id) ==
  /\ "renewKept" \in disturbed.by
  /\ id \in alive \ {lb} /\ Cardinality(listByName(nameOf[id])) > 1
  /\ alive' = alive \ {id}
  /\ UNCHANGED <<svc, news, lister, nameOf, lb, due, w, disturbed>>

Steps == Dequeue \/ Retrieve \/ Find \/ GetLBCert \/ GetAnnCert \/ Build \/ Update \/ Patch

\* Which ID the certificate of a name has makes no difference.
Init ==
  /\ nameOf = CHOOSE f \in Namings : TRUE
  /\ alive = {i \in IDs : nameOf[i] # NoName}
  /\ svc \in {a \in Annotations : a.id \in alive \cup {NoID} /\ (a.id = NoID \/ a.name = NoName)}
  /\ news = <<>>
  /\ lister = svc
  /\ lb \in findCertificateID(svc)
  /\ due = FALSE
  /\ w = Idle
  /\ disturbed \in [by : Scenarios, times : {0}]

Next ==
  \/ Steps
  \/ CallFails
  \/ Informer
  \/ OtherEvent
  \/ \E ann \in Annotations : UserEdits(ann)
  \/ \E old, id \in IDs, kept \in BOOLEAN : Renew(old, id, kept)
  \/ \E id \in IDs : DeleteReplaced(id)

\* The worker and the informer run; the queue hands out what is due.
Fairness == WF_vars(Steps) /\ WF_vars(Informer)

Spec     == Init /\ [][Next]_vars
FairSpec == Spec /\ Fairness

-------------------------------------------------------------------------------
(***************************************************************************)
(* Properties.                                                             *)
(***************************************************************************)

\* The type invariant.  A pass that has failed only patches the Service.
TypeOK ==
  /\ svc \in Annotations /\ news \in Seq(Annotations) /\ lister \in Annotations
  /\ nameOf \in [IDs -> CertNames \cup {NoName}]
  /\ alive \subseteq IDs \ unused
  /\ lb \in alive \cup {NoID}
  /\ due \in BOOLEAN
  /\ w \in [pc : {"idle", "retrieve", "find", "lbCert", "annCert", "build", "update", "patch"},
            base : Annotations, obj : Annotations, lbCert : IDs \cup {NoID},
            cert : IDs \cup {NoID}, req : IDs \cup {NoID}, failed : BOOLEAN]
  /\ w.failed => At("patch")

\* The pass ends, and the Service is as it found it.
undisturbed == At("patch") /\ w' = Idle /\ svc = w.base

\* The certificate a user has chosen by ID is replaced in the annotation only by
\* a certificate of the same name, that is, by its renewal, unless it is gone or
\* the user changed the Service during the pass (recordUpdatedLetsEncryptCert
\* tells a renewal from "manually changing the certificate", loadbalancers.go:358).
ChoiceKept ==
  [][/\ undisturbed /\ svc.id \in alive
     => nameOf[svc'.id] = nameOf[svc.id]]_svc

\* The certificate the Service was found to ask for, another than the load
\* balancer's, has disappeared during the pass.
lost == w.cert \notin alive \cup {NoID, w.lbCert}

\* A Service that gives its certificate by name goes on doing so as long as names
\* are unique: no renewal of the load balancer's own certificate makes a pass add
\* an ID, which would take precedence over the name from then on
\* (annotations.md:127 suggests the name for Let's Encrypt certificates).  The
\* one exception is a Service changed to another name whose certificate is renewed
\* for someone else between the lookup of the name (loadbalancers.go:392) and
\* its comparison: the "not found" is taken for a renewal and the old certificate's
\* ID recorded (loadbalancers.go:360-365).
NameStaysInCharge ==
  [][/\ undisturbed /\ svc.id = NoID /\ "renewKept" \notin disturbed.by
     => svc'.id = NoID \/ (lost /\ svc'.id = w.lbCert)]_svc

\* The names of what annotations ask for, and the names of certificates.
wanted(ann) ==
  CASE ann.id # NoID -> {nameOf[ann.id]}
    [] ann.id = NoID /\ ann.name # NoName -> {ann.name}
    [] OTHER -> {}

named(ids) == {nameOf[i] : i \in ids \ {NoID}}

\* An update gives the load balancer a certificate of the name that the Service
\* asked for when the pass copied it, none if it asked for none, whatever was
\* renewed between the lookups of the pass.  If the certificate asked for has
\* disappeared, by ID or after its lookup by name, it may instead be one of the
\* name the load balancer has already.  Where renewals leave several certificates
\* of a name this is about certificates given by ID (loadbalancers.go:383-405: the
\* annotation is corrected before the request is built from it again).
UpdateAsAsked ==
  [][/\ At("update") /\ ~w'.failed
     /\ w.base.id = NoID => "renewKept" \notin disturbed.by
     => named({lb'}) = wanted(w.base) \/ (lost /\ named({lb'}) = named({lb}))]_w

\* The annotated certificate is gone and the load balancer's is no renewal.
Blocked == svc.id # NoID /\ svc.id \notin alive /\ (lb = NoID \/ ~letsEncrypt(lb))

\* After edits of the annotations, renewals and failing calls, the load balancer
\* has a certificate of the name the Service asks for, none if it asks for none,
\* and no pass is left failing (a dead ID in the annotation is healed).
CertificatesConverge ==
  <>[](Blocked \/ (At("idle") /\ ~due /\ named({lb}) = wanted(svc)))
===============================================================================
