-------------------------- MODULE CertificateProofs --------------------------
(***************************************************************************)
(* Proofs about LBCertificates for every set of names, number of           *)
(* certificates and disturbances: a certificate chosen by ID gives way     *)
(* only to its renewal; one given by name becomes one given by ID only if  *)
(* it was lost during the pass; and an update writes the certificate the   *)
(* Service asked for, or one like that of the load balancer if it is lost. *)
(***************************************************************************)
EXTENDS LBCertificates, FiniteSetTheorems, TLAPS

\* The IDs of certificates that are or were there.
used == {i \in IDs : nameOf[i] # NoName}

PCs == {"idle", "retrieve", "find", "lbCert", "annCert", "build", "update", "patch"}

Pass == [pc : PCs, base : Annotations, obj : Annotations, lbCert : IDs \cup {NoID},
         cert : IDs \cup {NoID}, req : IDs \cup {NoID}, failed : BOOLEAN]

\* Nothing refers to a certificate that never was there.
Used ==
  /\ svc.id \in used \cup {NoID} /\ lister.id \in used \cup {NoID}
  /\ \A i \in DOMAIN news : news[i].id \in used \cup {NoID}
  /\ w.base.id \in used \cup {NoID} /\ w.lbCert \in used \cup {NoID} /\ w.cert \in used \cup {NoID}

\* A copy o made of annotation b keeps the choice b makes by ID.
Keeps(b, o) ==
  b.id # NoID => /\ o.id # NoID
                 /\ b.id \notin alive \/ nameOf[o.id] = nameOf[b.id]

\* How far the pass has come with a certificate chosen by ID: it is compared with
\* the load balancer's, and replaced by it if that is of the same name.
Progress ==
  /\ w.pc \in {"retrieve", "find", "lbCert", "annCert"} => w.obj = w.base
  /\ w.pc \in {"lbCert", "annCert", "build", "update"} /\ w.base.id # NoID => w.cert = w.base.id
  /\ w.pc = "annCert" => w.lbCert # NoID
  /\ Keeps(w.base, w.obj) /\ w.obj.id \in used \cup {NoID}

IndInv == TypeOK /\ Used /\ Progress

------------------------------------------------------------------------------
\* The pass that has not begun keeps every choice.
LEMMA IdleFacts ==
  /\ Idle \in Pass /\ Idle.pc = "idle" /\ Idle.failed = FALSE
  /\ Idle.base = Idle.obj /\ Idle.base.id = NoID /\ Idle.lbCert = NoID /\ Idle.cert = NoID
BY DEF Idle, Pass, PCs, Annotations

\* The invariant holds in the states the model starts from.
LEMMA IndInit == Init => IndInv
<1> SUFFICES ASSUME Init PROVE IndInv
  OBVIOUS
<1>1. nameOf \in Namings
  BY CertificatesAssumption DEF Init
<1>2. nameOf \in [IDs -> CertNames \cup {NoName}]
  BY <1>1 DEF Namings
<1>3. alive = used /\ alive \subseteq IDs \ unused
  BY DEF Init, used, unused
<1>4. svc \in Annotations /\ lister = svc /\ news = <<>> /\ svc.id \in alive \cup {NoID}
  BY DEF Init
<1>5. lb \in alive \cup {NoID}
  BY <1>4 DEF Init, findCertificateID, listByName
<1>6. w = Idle /\ due = FALSE
  BY DEF Init
<1>7. TypeOK
  <2>1. news \in Seq(Annotations)
    BY <1>4
  <2>2. QED
    BY Zenon, <1>2, <1>3, <1>4, <1>5, <1>6, <2>1, IdleFacts DEF TypeOK, Pass, PCs, At
<1>8. Used
  BY <1>3, <1>4, <1>6, IdleFacts DEF Used
<1>9. Progress
  BY <1>6, IdleFacts DEF Progress, Keeps
<1>10. QED
  BY <1>7, <1>8, <1>9 DEF IndInv

\* What the lookup of a certificate returns.
LEMMA Found ==
  ASSUME TypeOK, NEW ann \in Annotations, ann.id \in used \cup {NoID}, NEW c \in findCertificateID(ann)
  PROVE  c \in used \cup {NoID} /\ c \in IDs \cup {NoID} /\ (ann.id # NoID => c = ann.id)
BY DEF findCertificateID, listByName, Annotations, TypeOK, used, unused

------------------------------------------------------------------------------
\* Steps that leave the cloud and the annotations alone.
Quiet == UNCHANGED <<svc, news, lister, nameOf, alive>>

\* The invariant after such a step, from what it says of the pass.
LEMMA QuietStep ==
  ASSUME IndInv, Quiet, lb' \in alive \cup {NoID}, due' \in BOOLEAN, w' \in Pass,
         w'.failed => w'.pc = "patch",
         w'.base.id \in used \cup {NoID}, w'.lbCert \in used \cup {NoID}, w'.cert \in used \cup {NoID},
         w'.obj.id \in used \cup {NoID}, Keeps(w'.base, w'.obj),
         w'.pc \in {"retrieve", "find", "lbCert", "annCert"} => w'.obj = w'.base,
         w'.pc \in {"lbCert", "annCert", "build", "update"} /\ w'.base.id # NoID => w'.cert = w'.base.id,
         w'.pc = "annCert" => w'.lbCert # NoID
  PROVE  IndInv'
<1>1. used' = used /\ unused' = unused
  BY DEF Quiet, used, unused
<1>2. TypeOK'
  BY <1>1 DEF IndInv, TypeOK, Quiet, Pass, PCs, At
<1>3. Used'
  BY <1>1 DEF IndInv, Used, Quiet
<1>4. Progress'
  BY <1>1 DEF Progress, Keeps, Quiet
<1>5. QED
  BY <1>2, <1>3, <1>4 DEF IndInv

\* What is known of a pass under way.
LEMMA PassFacts ==
  ASSUME IndInv
  PROVE  /\ w \in Pass /\ w.obj \in Annotations /\ w.base \in Annotations
         /\ w.base.id \in used \cup {NoID} /\ w.lbCert \in used \cup {NoID} /\ w.cert \in used \cup {NoID}
         /\ w.obj.id \in used \cup {NoID} /\ Keeps(w.base, w.obj)
         /\ lb \in alive \cup {NoID} /\ alive \subseteq used /\ used \subseteq IDs
BY DEF IndInv, TypeOK, Used, Progress, Pass, PCs, used, unused

\* A pass that fails goes to its deferred patch.
LEMMA FailStep ==
  ASSUME IndInv, Fail, Quiet, UNCHANGED <<lb, due>>
  PROVE  IndInv'
<1>1. /\ w' \in Pass /\ w'.pc = "patch" /\ w'.base = w.base /\ w'.obj = w.obj
      /\ w'.lbCert = w.lbCert /\ w'.cert = w.cert
  BY Zenon, PassFacts DEF Fail, Pass, PCs
<1>2. QED
  BY <1>1, PassFacts, QuietStep DEF IndInv, TypeOK

\* A pass that ends.
LEMMA EndStep ==
  ASSUME IndInv, w' = Idle, UNCHANGED <<svc, news, lister, nameOf, alive, lb>>, due' \in BOOLEAN
  PROVE  IndInv'
BY PassFacts, IdleFacts, QuietStep DEF Quiet, Keeps

\* The steps of a pass before its patch.
LEMMA PassStep ==
  ASSUME IndInv, Dequeue \/ Retrieve \/ Find \/ GetLBCert \/ GetAnnCert \/ Build \/ Update
  PROVE  IndInv'
<1>1. CASE Dequeue
  <2>1. /\ w' \in Pass /\ w'.pc = "retrieve" /\ w'.base = lister /\ w'.obj = lister
        /\ w'.failed = FALSE /\ w'.lbCert = NoID /\ w'.cert = NoID
    BY Zenon, <1>1, IdleFacts DEF Dequeue, Pass, PCs, IndInv, TypeOK
  <2>2. Keeps(w'.base, w'.obj)
    BY <2>1 DEF Keeps
  <2>3. QED
    BY Zenon, <1>1, <2>1, <2>2, QuietStep DEF Dequeue, Quiet, cloud, IndInv, TypeOK, Used
<1>2. CASE Retrieve
  <2>1. /\ w' \in Pass /\ w'.pc = "find" /\ w'.base = w.base /\ w'.obj = w.obj
        /\ w'.failed = w.failed /\ w'.lbCert = lb /\ w'.cert = w.cert
    BY ZenonT(30), <1>2, PassFacts DEF Retrieve, Pass, PCs
  <2>2. w.obj = w.base /\ w.failed = FALSE
    BY <1>2 DEF Retrieve, IndInv, Progress, TypeOK, At
  <2>3. QED
    BY <1>2, <2>1, <2>2, PassFacts, QuietStep DEF Retrieve, Quiet, cloud, IndInv, TypeOK
<1>3. CASE Find
  <2>1. ASSUME NEW c \in findCertificateID(w.obj), w' = [w EXCEPT !.pc = "lbCert", !.cert = c]
        PROVE  IndInv'
    <3>1. c \in IDs \cup {NoID} /\ c \in used \cup {NoID} /\ (w.obj.id # NoID => c = w.obj.id)
      BY PassFacts, Found DEF IndInv
    <3>2. /\ w' \in Pass /\ w'.pc = "lbCert" /\ w'.base = w.base /\ w'.obj = w.obj
          /\ w'.failed = w.failed /\ w'.lbCert = w.lbCert /\ w'.cert = c
      BY Zenon, <2>1, <3>1, PassFacts DEF Pass, PCs
    <3>3. w.obj = w.base /\ w.failed = FALSE
      BY Zenon, <1>3 DEF Find, IndInv, Progress, TypeOK, At
    <3>4. QED
      BY ZenonT(60), <1>3, <3>1, <3>2, <3>3, PassFacts, QuietStep DEF Find, Quiet, cloud, IndInv, TypeOK
  <2>2. QED
    BY Zenon, <1>3, <2>1, FailStep DEF Find, Quiet, cloud
<1>4. CASE GetLBCert
  <2>1. /\ w' \in Pass /\ w'.base = w.base /\ w'.obj = w.obj
        /\ w'.failed = w.failed /\ w'.lbCert = w.lbCert /\ w'.cert = w.cert
        /\ w'.pc \in {"annCert", "build"}
        /\ w'.pc = "annCert" => w.lbCert # NoID
    BY <1>4, PassFacts DEF GetLBCert, Goto, mayBeRenewal, Pass, PCs
  <2>2. /\ w.obj = w.base /\ w.failed = FALSE
        /\ w.base.id # NoID => w.cert = w.base.id
    BY Zenon, <1>4 DEF GetLBCert, IndInv, Progress, TypeOK, At
  <2>3. QED
    BY <1>4, <2>1, <2>2, PassFacts, QuietStep DEF GetLBCert, Quiet, cloud, IndInv, TypeOK
<1>5. CASE GetAnnCert
  <2>1. /\ w.obj = w.base /\ w.failed = FALSE /\ w.lbCert # NoID
        /\ w.base.id # NoID => w.cert = w.base.id
    BY <1>5 DEF GetAnnCert, IndInv, Progress, TypeOK, At
  <2>2. w.lbCert \in used
    BY <2>1, PassFacts
  <2>3. PICK id \in {w.lbCert, w.obj.id} :
          /\ w' = [w EXCEPT !.pc = "build", !.obj.id = id]
          /\ id = w.obj.id \/ renewed(w.cert, w.lbCert)
    BY Zenon, <1>5 DEF GetAnnCert
  <2>4. id \in used \cup {NoID}
    BY <2>2, <2>3, PassFacts
  <2>5. /\ w' \in Pass /\ w'.pc = "build" /\ w'.base = w.base /\ w'.obj.id = id
        /\ w'.failed = w.failed /\ w'.lbCert = w.lbCert /\ w'.cert = w.cert
    BY ZenonT(30), <2>3, <2>4, PassFacts DEF Pass, PCs, Annotations
  <2>6. Keeps(w'.base, w'.obj)
    <3>1. CASE id = w.obj.id
      BY <2>1, <2>5, <3>1 DEF Keeps
    <3>2. CASE id = w.lbCert /\ renewed(w.cert, w.lbCert)
      BY <2>1, <2>5, <3>2 DEF Keeps, renewed
    <3>3. QED
      BY <2>3, <3>1, <3>2
  <2>7. QED
    BY <1>5, <2>1, <2>4, <2>5, <2>6, PassFacts, QuietStep
    DEF GetAnnCert, Quiet, cloud, IndInv, TypeOK
<1>6. CASE Build
  <2>1. ASSUME NEW c \in findCertificateID(w.obj), w' = [w EXCEPT !.pc = "update", !.req = c]
        PROVE  IndInv'
    <3>1. c \in IDs \cup {NoID}
      BY PassFacts, Found DEF IndInv
    <3>2. /\ w' \in Pass /\ w'.pc = "update" /\ w'.base = w.base /\ w'.obj = w.obj
          /\ w'.failed = w.failed /\ w'.lbCert = w.lbCert /\ w'.cert = w.cert
      BY Zenon, <2>1, <3>1, PassFacts DEF Pass, PCs
    <3>3. w.failed = FALSE /\ (w.base.id # NoID => w.cert = w.base.id)
      BY Zenon, <1>6 DEF Build, IndInv, Progress, TypeOK, At
    <3>4. QED
      BY Zenon, <1>6, <3>2, <3>3, PassFacts, QuietStep DEF Build, Quiet, cloud, IndInv, TypeOK
  <2>2. QED
    BY ZenonT(30), <1>6, <2>1, FailStep DEF Build, Quiet, cloud
<1>7. CASE Update
  <2>1. CASE lb' = w.req /\ w.req \in alive \cup {NoID} /\ Goto("patch")
    <3>1. /\ w' \in Pass /\ w'.pc = "patch" /\ w'.base = w.base /\ w'.obj = w.obj
          /\ w'.lbCert = w.lbCert /\ w'.cert = w.cert
      BY <2>1, PassFacts DEF Goto, Pass, PCs
    <3>2. QED
      BY <1>7, <2>1, <3>1, PassFacts, QuietStep DEF Update, Quiet, IndInv, TypeOK
  <2>2. CASE Fail /\ UNCHANGED lb
    BY <1>7, <2>2, FailStep DEF Update, Quiet
  <2>3. QED
    BY <1>7, <2>1, <2>2 DEF Update
<1>8. QED
  BY <1>1, <1>2, <1>3, <1>4, <1>5, <1>6, <1>7

\* Versions of the Service are sent and arrive.
News(versions) ==
  versions \in Seq(Annotations) /\ \A i \in DOMAIN versions : versions[i].id \in used \cup {NoID}

LEMMA NewsSent ==
  ASSUME NEW versions, News(versions), NEW ann \in Annotations, ann.id \in used \cup {NoID}
  PROVE  News(Append(versions, ann))
BY DEF News

LEMMA NewsArrives ==
  ASSUME NEW versions, News(versions), versions # <<>>
  PROVE  /\ News(Tail(versions))
         /\ Head(versions) \in Annotations /\ Head(versions).id \in used \cup {NoID}
BY DEF News

\* The deferred patch writes an ID that is or was a certificate's.
LEMMA PatchStep == ASSUME IndInv, Patch PROVE IndInv'
<1>1. /\ svc' \in Annotations /\ svc'.id \in used \cup {NoID}
  <2>1. svc \in Annotations /\ svc.id \in used \cup {NoID} /\ w.obj.id \in used \cup {NoID}
    BY PassFacts DEF IndInv, TypeOK, Used
  <2>2. svc' \in {svc, [svc EXCEPT !.id = w.obj.id]} /\ used \subseteq IDs
    BY PassFacts DEF Patch
  <2>3. QED
    BY <2>1, <2>2 DEF Annotations
<1>2. used' = used /\ unused' = unused /\ w' = Idle
  BY DEF Patch, cloud, used, unused
<1>3. News(news')
  BY <1>1, NewsSent DEF Patch, News, IndInv, TypeOK, Used
<1>4. TypeOK'
  BY <1>1, <1>2, <1>3, IdleFacts DEF IndInv, TypeOK, Patch, cloud, Pass, PCs, At, News
<1>5. Used' /\ Progress'
  BY <1>1, <1>2, <1>3, IdleFacts DEF IndInv, Used, Progress, Keeps, Patch, News
<1>6. QED
  BY <1>4, <1>5 DEF IndInv

\* What the users and the informer write was read from the cloud or the Service.
LEMMA EditStep ==
  ASSUME IndInv, svc' \in Annotations, lister' \in Annotations, News(news'), due' \in BOOLEAN,
         svc'.id \in used \cup {NoID}, lister'.id \in used \cup {NoID},
         UNCHANGED <<cloud, w>>
  PROVE  IndInv'
<1>1. used' = used /\ unused' = unused
  BY DEF cloud, used, unused
<1>2. TypeOK'
  BY <1>1 DEF IndInv, TypeOK, cloud, At, News
<1>3. Used' /\ Progress'
  BY <1>1 DEF IndInv, Used, Progress, Keeps, cloud, News
<1>4. QED
  BY <1>2, <1>3 DEF IndInv

\* Certificates that are there keep their names, and none that was deleted returns.
LEMMA CloudStep ==
  ASSUME IndInv, UNCHANGED <<svc, news, lister, due, w>>,
         nameOf' \in [IDs -> CertNames \cup {NoName}],
         \A i \in used : nameOf'[i] = nameOf[i] /\ (i \in alive' => i \in alive),
         alive' \subseteq used', lb' \in alive' \cup {NoID}
  PROVE  IndInv'
<1>1. used \subseteq used'
  BY DEF used
<1>2. alive' \subseteq IDs \ unused'
  BY DEF used, unused
<1>3. TypeOK'
  BY <1>2 DEF IndInv, TypeOK, At
<1>4. Used'
  BY <1>1 DEF IndInv, Used
<1>5. Keeps(w.base, w.obj)'
  BY PassFacts DEF Keeps
<1>6. Progress'
  BY <1>1, <1>5 DEF IndInv, Progress
<1>7. QED
  BY <1>3, <1>4, <1>6 DEF IndInv

\* What a renewal does to the certificates: it names an ID that was not used
\* before after the old certificate.
LEMMA RenewFacts ==
  ASSUME IndInv, NEW old \in IDs, NEW id \in IDs, NEW kept \in BOOLEAN, Renew(old, id, kept)
  PROVE  /\ old \in alive /\ id \notin used /\ nameOf' \in [IDs -> CertNames \cup {NoName}]
         /\ nameOf'[id] = nameOf[old] /\ \A i \in used : nameOf'[i] = nameOf[i]
         /\ used \cup {id} \subseteq used' /\ \A i \in used : i \in alive' => i \in alive
<1>1. old \in used /\ id \notin used /\ nameOf[old] \in CertNames /\ old \in alive
  BY CertificatesAssumption, PassFacts DEF Renew, letsEncrypt, unused, used
<1>2. /\ nameOf' \in [IDs -> CertNames \cup {NoName}]
      /\ \A i \in used : nameOf'[i] = nameOf[i]
      /\ nameOf'[id] = nameOf[old] /\ nameOf'[id] # NoName
  BY <1>1, CertificatesAssumption DEF Renew, IndInv, TypeOK, used
<1>3. used \cup {id} \subseteq used'
  BY <1>2 DEF used
<1>4. \A i \in used : i \in alive' => i \in alive
  BY <1>1 DEF Renew
<1>5. QED
  BY <1>1, <1>2, <1>3, <1>4

LEMMA RenewStep ==
  ASSUME IndInv, NEW old \in IDs, NEW id \in IDs, NEW kept \in BOOLEAN, Renew(old, id, kept)
  PROVE  IndInv'
<1>1. alive' \subseteq alive \cup {id} /\ lb' \in alive' \cup {NoID}
  BY PassFacts DEF Renew
<1>2. alive' \subseteq used'
  BY <1>1, RenewFacts, PassFacts
<1>3. UNCHANGED <<svc, news, lister, due, w>>
  BY DEF Renew
<1>4. QED
  BY <1>1, <1>2, <1>3, RenewFacts, CloudStep

\* Every step preserves the invariant.
LEMMA IndStep == IndInv /\ [Next]_vars => IndInv'
<1> SUFFICES ASSUME IndInv, [Next]_vars PROVE IndInv'
  OBVIOUS
<1>1. CASE Steps
  BY <1>1, PassStep, PatchStep DEF Steps
<1>2. CASE CallFails
  <2>1. CASE Fail /\ UNCHANGED due
    BY <1>2, <2>1, FailStep DEF CallFails, Quiet, cloud
  <2>2. CASE due' = TRUE /\ w' = Idle
    BY <1>2, <2>2, EndStep DEF CallFails, cloud
  <2>3. QED
    BY Zenon, <1>2, <2>1, <2>2 DEF CallFails
<1>0. News(news)
  BY DEF News, IndInv, TypeOK, Used
<1>3. CASE Informer
  <2>1. News(news') /\ lister' \in Annotations /\ lister'.id \in used \cup {NoID}
    BY <1>0, <1>3, NewsArrives DEF Informer
  <2>2. QED
    BY <1>3, <2>1, EditStep DEF Informer, IndInv, TypeOK, Used
<1>4. CASE OtherEvent
  BY Zenon, <1>0, <1>4, EditStep DEF OtherEvent, IndInv, TypeOK, Used
<1>5. ASSUME NEW ann \in Annotations, UserEdits(ann) PROVE IndInv'
  <2>1. ann.id \in used \cup {NoID}
    BY <1>5, PassFacts DEF UserEdits
  <2>2. News(news')
    BY <1>0, <1>5, <2>1, NewsSent DEF UserEdits
  <2>3. QED
    BY <1>5, <2>1, <2>2, EditStep DEF UserEdits, IndInv, TypeOK, Used
<1>6. ASSUME NEW old \in IDs, NEW id \in IDs, NEW kept \in BOOLEAN, Renew(old, id, kept) PROVE IndInv'
  BY ZenonT(30), <1>6, RenewStep
<1>7. ASSUME NEW id \in IDs, DeleteReplaced(id) PROVE IndInv'
  <2>1. used' = used /\ alive' \subseteq alive /\ lb' \in alive' \cup {NoID}
    BY <1>7, PassFacts DEF DeleteReplaced, used
  <2>2. QED
    BY <1>7, <2>1, PassFacts, CloudStep DEF DeleteReplaced, IndInv, TypeOK
<1>8. CASE UNCHANGED vars
  BY <1>0, <1>8, EditStep DEF vars, cloud, IndInv, TypeOK, Used
<1>9. QED
  BY <1>1, <1>2, <1>3, <1>4, <1>5, <1>6, <1>7, <1>8 DEF Next

\* The invariant holds throughout.
LEMMA Invariance == Spec => []IndInv
BY IndInit, IndStep, PTL DEF Spec

\* For all names, numbers of certificates and disturbances the state is well
\* typed, the load balancer never has a certificate that is gone, and a pass that
\* has failed only patches the Service (loadbalancers.go:254-299).
THEOREM TypeCorrect == Spec => []TypeOK
<1>1. IndInv => TypeOK
  BY DEF IndInv
<1>2. QED
  BY <1>1, Invariance, PTL

\* A pass that finds the Service as it was ends with its patch.
LEMMA PassEnds ==
  ASSUME [Next]_vars, undisturbed
  PROVE  Patch \/ UNCHANGED svc
<1>1. w # Idle /\ w' = Idle
  BY IdleFacts DEF undisturbed, At
<1>2. CallFails \/ Informer \/ OtherEvent => UNCHANGED svc \/ UNCHANGED w
  BY DEF CallFails, Informer, OtherEvent
<1>3. \A ann \in Annotations : ~UserEdits(ann)
  BY <1>1 DEF UserEdits
<1>4. \A id \in IDs : ~DeleteReplaced(id) /\ \A old \in IDs, kept \in BOOLEAN : ~Renew(old, id, kept)
  BY <1>1 DEF DeleteReplaced, Renew
<1>5. Steps => Patch \/ UNCHANGED svc
  BY Zenon DEF Steps, Dequeue, Retrieve, Find, GetLBCert, GetAnnCert, Build, Update
<1>6. QED
  BY <1>1, <1>2, <1>3, <1>4, <1>5 DEF Next, vars

\* For all names, numbers of certificates and disturbances, a pass replaces the
\* certificate a user has chosen by ID only by one of the same name
\* (recordUpdatedLetsEncryptCert, loadbalancers.go:336-378, and the deferred patch).
THEOREM ChoiceSafe == Spec => ChoiceKept
<1>1. ASSUME IndInv, [Next]_vars, undisturbed, svc.id \in alive, svc' # svc
      PROVE  nameOf[svc'.id] = nameOf[svc.id]
  <2>1. Keeps(w.base, w.obj) /\ svc = w.base /\ svc.id # NoID /\ svc \in Annotations
    BY <1>1 DEF undisturbed, IndInv, Progress, TypeOK, IDs, NoID
  <2>2. Patch
    BY <1>1, PassEnds
  <2>3. svc'.id = w.obj.id
    BY <1>1, <2>1, <2>2 DEF Patch, Annotations
  <2>4. QED
    BY <1>1, <2>1, <2>3 DEF Keeps
<1>2. IndInv /\ [Next]_vars
      => [/\ undisturbed /\ svc.id \in alive => nameOf[svc'.id] = nameOf[svc.id]]_svc
  BY <1>1
<1>3. QED
  BY <1>2, Invariance, PTL DEF Spec, ChoiceKept

------------------------------------------------------------------------------
(***************************************************************************)
(* A certificate given by name.                                            *)
(***************************************************************************)

\* No two certificates share a name.
Unique == \A i, j \in alive : nameOf[i] = nameOf[j] => i = j

\* How a pass over a Service that gives a name comes through renewals: when it
\* compares two certificates that are there they differ in name, and it takes over
\* the load balancer's only if the one found by name has disappeared since.
ByName ==
  w.base.id = NoID =>
    /\ w.obj.id = NoID \/ (lost /\ w.obj.id = w.lbCert)
    /\ w.pc = "annCert" => /\ w.cert \notin {NoID, w.lbCert}
                           /\ w.cert \in alive => nameOf[w.cert] # nameOf[w.lbCert]

Disturbed == disturbed \in [by : Scenarios, times : Nat]

NameInv == Disturbed /\ ("renewKept" \notin disturbed.by => Unique /\ ByName)

\* A disturbance is counted.
LEMMA DisturbStep ==
  ASSUME Disturbed, \/ UNCHANGED disturbed
                    \/ \E kind : Disturb(kind)
  PROVE  Disturbed' /\ disturbed'.by = disturbed.by
<1>1. CASE UNCHANGED disturbed
  BY <1>1 DEF Disturbed
<1>2. CASE disturbed' = [disturbed EXCEPT !.times = disturbed.times + 1]
  BY <1>2 DEF Disturbed
<1>3. QED
  BY <1>1, <1>2 DEF Disturb

\* Every step counts at most one.
LEMMA DisturbedStep ==
  ASSUME Disturbed, [Next]_vars
  PROVE  Disturbed' /\ disturbed'.by = disturbed.by
<1>1. Steps \/ Informer \/ (\E id \in IDs : DeleteReplaced(id)) \/ UNCHANGED vars => UNCHANGED disturbed
  BY Zenon DEF Steps, Dequeue, Retrieve, Find, GetLBCert, GetAnnCert, Build, Update, Patch, Informer,
         DeleteReplaced, vars
<1>2. /\ CallFails => Disturb("error")
      /\ OtherEvent => Disturb("event")
      /\ \A ann \in Annotations : UserEdits(ann) => Disturb("edit")
      /\ \A old, id \in IDs, kept \in BOOLEAN : Renew(old, id, kept) => Disturb(IF kept THEN "renewKept" ELSE "renew")
  BY DEF CallFails, OtherEvent, UserEdits, Renew
<1>3. UNCHANGED disturbed \/ \E kind : Disturb(kind)
  BY <1>1, <1>2 DEF Next
<1>4. QED
  BY <1>3, DisturbStep

\* At first there is one certificate of each name.
LEMMA NameInit == Init => NameInv
<1> SUFFICES ASSUME Init PROVE NameInv
  OBVIOUS
<1>1. nameOf \in Namings
  BY CertificatesAssumption DEF Init
<1>2. ASSUME NEW i \in alive, NEW j \in alive, nameOf[i] = nameOf[j]
      PROVE  i = j
  <2> DEFINE n == nameOf[i]
             same == {k \in IDs : nameOf[k] = n}
  <2>1. n \in CertNames /\ i \in same /\ j \in same
    BY <1>1, <1>2 DEF Init, Namings
  <2>2. Cardinality(same) = 1
    BY <1>1, <2>1 DEF Namings
  <2>3. IsFiniteSet(same)
    <3>1. IsFiniteSet(IDs)
      BY FS_Interval, CertificatesAssumption DEF IDs
    <3>2. QED
      BY <3>1, FS_Subset
  <2> HIDE DEF same
  <2>4. PICK k : same = {k}
    BY Zenon, <2>2, <2>3, FS_Singleton
  <2>5. QED
    BY <2>1, <2>4
<1>3. Unique
  BY <1>2 DEF Unique
<1>4. ByName
  BY IdleFacts DEF Init, ByName
<1>5. Disturbed
  BY DEF Init, Disturbed
<1>6. QED
  BY <1>3, <1>4, <1>5 DEF NameInv

\* A pass that has not changed its copy, and one that goes on with what it has.
LEMMA FreshByName ==
  ASSUME w'.obj = w'.base, w'.pc # "annCert"
  PROVE  ByName'
BY DEF ByName

LEMMA EndsByName ==
  ASSUME ByName, w'.base = w.base, w'.obj = w.obj, w'.lbCert = w.lbCert, w'.cert = w.cert,
         w'.pc # "annCert", UNCHANGED alive
  PROVE  ByName'
BY DEF ByName, lost

\* The steps of a pass.
LEMMA StepsByName ==
  ASSUME IndInv, Unique, ByName, Steps
  PROVE  ByName'
<1>1. CASE Dequeue
  <2>1. w'.pc = "retrieve" /\ w'.base = w'.obj
    BY <1>1, IdleFacts DEF Dequeue, Pass
  <2>2. QED
    BY <2>1, FreshByName
<1>2. CASE Retrieve
  <2>1. w'.pc = "find" /\ w'.base = w.base /\ w'.obj = w.obj /\ w.obj = w.base
    BY <1>2, PassFacts DEF Retrieve, Pass, IndInv, Progress, At
  <2>2. QED
    BY <2>1, FreshByName
<1>3. CASE Find
  <2>1. w'.pc \in {"lbCert", "patch"} /\ w'.base = w.base /\ w'.obj = w.obj
    BY ZenonT(30), <1>3, PassFacts DEF Find, Fail, Pass
  <2>2. w.obj = w.base
    BY Zenon, <1>3 DEF Find, IndInv, Progress, At
  <2>3. QED
    BY <2>1, <2>2, FreshByName
<1>4. CASE GetLBCert
  <2>1. /\ w'.base = w.base /\ w'.obj = w.obj /\ w'.lbCert = w.lbCert /\ w'.cert = w.cert
        /\ w'.pc = IF mayBeRenewal(w.lbCert, w.cert) THEN "annCert" ELSE "build"
        /\ UNCHANGED <<alive, nameOf>>
    BY Zenon, <1>4, PassFacts DEF GetLBCert, Goto, Pass, cloud
  <2>2. CASE ~mayBeRenewal(w.lbCert, w.cert)
    BY <2>1, <2>2, EndsByName
  <2>3. CASE mayBeRenewal(w.lbCert, w.cert)
    <3>1. NoID \notin {w.cert, w.lbCert} /\ w.lbCert # w.cert /\ w.lbCert \in alive
      BY <2>3 DEF mayBeRenewal
    <3>2. w.cert \in alive => nameOf[w.cert] # nameOf[w.lbCert]
      BY <3>1 DEF Unique
    <3>3. QED
      BY <2>1, <3>1, <3>2 DEF ByName, lost
  <2>4. QED
    BY <2>2, <2>3
<1>5. CASE GetAnnCert
  <2>1. w.pc = "annCert" /\ w.obj = w.base /\ UNCHANGED alive
    BY Zenon, <1>5 DEF GetAnnCert, At, IndInv, Progress, cloud
  <2>2. /\ w'.base = w.base /\ w'.pc = "build" /\ w'.lbCert = w.lbCert /\ w'.cert = w.cert
        /\ w'.obj.id = IF renewed(w.cert, w.lbCert) THEN w.lbCert ELSE w.obj.id
    BY Zenon, <1>5, PassFacts DEF GetAnnCert, Pass, Annotations
  <2>3. w.base.id = NoID /\ renewed(w.cert, w.lbCert) => w.cert \notin alive \cup {NoID, w.lbCert}
    BY <2>1 DEF ByName, renewed
  <2>4. QED
    BY <2>1, <2>2, <2>3 DEF ByName, lost
<1>6. CASE Build
  <2>1. /\ w'.base = w.base /\ w'.obj = w.obj /\ w'.lbCert = w.lbCert /\ w'.cert = w.cert
        /\ w'.pc \in {"update", "patch"} /\ UNCHANGED alive
    BY Zenon, <1>6, PassFacts DEF Build, Fail, Pass, cloud
  <2>2. QED
    BY <2>1, EndsByName
<1>7. CASE Update
  <2>1. /\ w'.base = w.base /\ w'.obj = w.obj /\ w'.lbCert = w.lbCert /\ w'.cert = w.cert
        /\ w'.pc = "patch" /\ UNCHANGED alive
    BY Zenon, <1>7, PassFacts DEF Update, Fail, Goto, Pass
  <2>2. QED
    BY <2>1, EndsByName
<1>8. CASE Patch
  BY <1>8, IdleFacts, FreshByName DEF Patch
<1>9. QED
  BY <1>1, <1>2, <1>3, <1>4, <1>5, <1>6, <1>7, <1>8 DEF Steps

\* A renewal that deletes the old certificate, of this load balancer or another.
LEMMA RenewByName ==
  ASSUME IndInv, Unique, ByName, NEW old \in IDs, NEW id \in IDs, Renew(old, id, FALSE)
  PROVE  Unique' /\ ByName'
<1>1. alive' = (alive \ {old}) \cup {id} /\ w' = w
  BY DEF Renew
<1>2. /\ old \in alive /\ id \notin used /\ nameOf'[id] = nameOf[old]
      /\ \A i \in used : nameOf'[i] = nameOf[i] /\ (i \in alive' => i \in alive)
  BY Zenon, RenewFacts
<1>3. alive \subseteq used /\ NoID \notin used
  BY PassFacts DEF IDs, NoID
<1>4. Unique'
  BY <1>1, <1>2, <1>3 DEF Unique
<1>5. w.cert \in used \cup {NoID} /\ w.lbCert \in used \cup {NoID} /\ (w.pc = "annCert" => w.lbCert # NoID)
  BY PassFacts DEF IndInv, Progress
<1>6. ByName'
  BY <1>1, <1>2, <1>3, <1>5 DEF ByName, lost
<1>7. QED
  BY <1>4, <1>6

\* Every step preserves NameInv.
LEMMA NameStep == IndInv /\ NameInv /\ [Next]_vars => NameInv'
<1> SUFFICES ASSUME IndInv, NameInv, [Next]_vars, "renewKept" \notin disturbed.by
             PROVE  Unique' /\ ByName'
  BY DisturbedStep DEF NameInv
<1>0. Unique /\ ByName
  BY DEF NameInv
<1>1. CASE Steps
  <2>1. UNCHANGED <<nameOf, alive>>
    BY Zenon, <1>1 DEF Steps, Dequeue, Retrieve, Find, GetLBCert, GetAnnCert, Build, Update, Patch, cloud
  <2>2. QED
    BY <1>0, <1>1, <2>1, StepsByName DEF Unique
<1>2. CASE CallFails
  <2>1. UNCHANGED <<nameOf, alive>>
    BY Zenon, <1>2 DEF CallFails, cloud
  <2>2. CASE Fail
    <3>1. /\ w'.base = w.base /\ w'.obj = w.obj /\ w'.lbCert = w.lbCert /\ w'.cert = w.cert
          /\ w'.pc = "patch"
      BY Zenon, <2>2, PassFacts DEF Fail, Pass
    <3>2. QED
      BY <1>0, <2>1, <3>1, EndsByName DEF Unique
  <2>3. CASE w' = Idle
    BY <1>0, <2>1, <2>3, IdleFacts, FreshByName DEF Unique
  <2>4. QED
    BY <1>2, <2>2, <2>3 DEF CallFails
<1>3. CASE Informer \/ OtherEvent \/ (\E ann \in Annotations : UserEdits(ann)) \/ UNCHANGED vars
  <2>1. UNCHANGED <<nameOf, alive, lb, w>>
    BY <1>3 DEF Informer, OtherEvent, UserEdits, cloud, vars
  <2>2. QED
    BY <1>0, <2>1 DEF Unique, ByName, lost
<1>4. ASSUME NEW old \in IDs, NEW id \in IDs, NEW kept \in BOOLEAN, Renew(old, id, kept)
      PROVE  Unique' /\ ByName'
  <2>1. kept = FALSE
    BY <1>4 DEF Renew, Disturb
  <2>2. QED
    BY Zenon, <1>0, <1>4, <2>1, RenewByName
<1>5. \A id \in IDs : ~DeleteReplaced(id)
  BY DEF DeleteReplaced
<1>6. QED
  BY Zenon, <1>1, <1>2, <1>3, <1>4, <1>5 DEF Next

\* The invariants hold together.
LEMMA NameInvariance == Spec => [](IndInv /\ NameInv)
BY IndInit, IndStep, NameInit, NameStep, PTL DEF Spec

\* For all names, numbers of certificates and disturbances other than a renewal
\* that keeps the old certificate, a pass adds an ID to a Service that gives its
\* certificate by name only if the certificate of that name was lost during the
\* pass, and then the load balancer's, wherever in the pass renewals happen
\* (recordUpdatedLetsEncryptCert and the deferred patch).
THEOREM NameSafe == Spec => NameStaysInCharge
<1>1. ASSUME IndInv, NameInv, [Next]_vars, undisturbed, svc.id = NoID, "renewKept" \notin disturbed.by
      PROVE  svc'.id = NoID \/ (lost /\ svc'.id = w.lbCert)
  <2>1. w.base.id = NoID /\ (w.obj.id = NoID \/ (lost /\ w.obj.id = w.lbCert)) /\ svc \in Annotations
    BY <1>1 DEF undisturbed, NameInv, ByName, IndInv, TypeOK
  <2>2. Patch \/ UNCHANGED svc
    BY <1>1, PassEnds
  <2>3. svc'.id \in {svc.id, w.obj.id}
    BY <2>1, <2>2 DEF Patch, Annotations
  <2>4. QED
    BY <1>1, <2>1, <2>3
<1>2. IndInv /\ NameInv /\ [Next]_vars
      => [/\ undisturbed /\ svc.id = NoID /\ "renewKept" \notin disturbed.by
          => svc'.id = NoID \/ (lost /\ svc'.id = w.lbCert)]_svc
  BY <1>1
<1>3. QED
  BY <1>2, NameInvariance, PTL DEF Spec, NameStaysInCharge

------------------------------------------------------------------------------
(***************************************************************************)
(* What an update writes.                                                  *)
(***************************************************************************)

\* Between the read of the load balancer and its update.
Under == {"find", "lbCert", "annCert", "build", "update"}

\* What a pass knows when it updates.  The certificate it read and the one in use
\* now have one name, however often that was renewed; its copy of the Service
\* differs from the Service it began with at most by the ID of the certificate it
\* read; and the certificate of the request is the one its copy gives.
SameName ==
  w.pc \in Under => \/ w.lbCert = NoID /\ lb = NoID
                    \/ w.lbCert # NoID /\ lb # NoID /\ nameOf[w.lbCert] = nameOf[lb]

Copied == w.obj.name = w.base.name /\ w.obj.id \in {w.base.id, w.lbCert}

Given(ann, c) ==
  /\ ann.id # NoID => c = ann.id
  /\ ann.id = NoID /\ ann.name # NoName => c \in used /\ nameOf[c] = ann.name
  /\ ann.id = NoID /\ ann.name = NoName => c = NoID

Requested == w.pc = "update" => Given(w.obj, w.req)

AskInv == SameName /\ Copied /\ Requested

\* The lookup of a certificate returns one that the annotations give.
LEMMA FoundGiven ==
  ASSUME IndInv, NEW ann, NEW c \in findCertificateID(ann)
  PROVE  Given(ann, c)
BY PassFacts DEF findCertificateID, listByName, Given

\* A pass that keeps its copy and is not between the read and the update.
LEMMA AskEnds ==
  ASSUME Copied', w'.pc \notin Under
  PROVE  AskInv'
BY DEF AskInv, SameName, Requested, Under

\* A step of a pass that keeps what the pass knows of the load balancer.
LEMMA AskGoesOn ==
  ASSUME AskInv, w.pc \in Under, UNCHANGED <<lb, nameOf>>, w'.lbCert = w.lbCert, Copied', Requested'
  PROVE  AskInv'
BY DEF AskInv, SameName

\* The steps of a pass.
LEMMA AskSteps ==
  ASSUME IndInv, AskInv, Steps
  PROVE  AskInv'
<1>1. CASE Dequeue
  <2>1. w'.pc = "retrieve" /\ w'.base = w'.obj
    BY <1>1, IdleFacts DEF Dequeue, Pass
  <2>2. QED
    BY <2>1, AskEnds DEF Copied, Under
<1>2. CASE Retrieve
  <2>1. /\ w'.pc = "find" /\ w'.base = w.base /\ w'.obj = w.obj /\ w'.lbCert = lb
        /\ UNCHANGED <<lb, nameOf>>
    BY Zenon, <1>2, PassFacts DEF Retrieve, Pass, cloud
  <2>2. w.obj = w.base
    BY <1>2 DEF Retrieve, At, IndInv, Progress
  <2>3. QED
    BY <2>1, <2>2 DEF AskInv, SameName, Copied, Requested
<1>3. CASE Find
  <2>1. w.pc = "find" /\ UNCHANGED <<lb, nameOf>>
    BY Zenon, <1>3 DEF Find, At, cloud
  <2>2. /\ w'.base = w.base /\ w'.obj = w.obj /\ w'.lbCert = w.lbCert
        /\ w'.pc \in {"lbCert", "patch"}
    BY Zenon, <1>3, PassFacts DEF Find, Fail, Pass
  <2>3. QED
    BY <2>1, <2>2, AskGoesOn DEF AskInv, Copied, Requested, Under
<1>4. CASE GetLBCert
  <2>1. w.pc = "lbCert" /\ UNCHANGED <<lb, nameOf>>
    BY Zenon, <1>4 DEF GetLBCert, At, cloud
  <2>2. /\ w'.base = w.base /\ w'.obj = w.obj /\ w'.lbCert = w.lbCert
        /\ w'.pc \in {"annCert", "build"}
    BY <1>4, PassFacts DEF GetLBCert, Goto, Pass
  <2>3. QED
    BY <2>1, <2>2, AskGoesOn DEF AskInv, Copied, Requested, Under
<1>5. CASE GetAnnCert
  <2>1. w.pc = "annCert" /\ UNCHANGED <<lb, nameOf>> /\ w.obj = w.base
    BY Zenon, <1>5 DEF GetAnnCert, At, cloud, IndInv, Progress
  <2>2. /\ w'.base = w.base /\ w'.lbCert = w.lbCert /\ w'.pc = "build"
        /\ w'.obj.name = w.obj.name /\ w'.obj.id \in {w.obj.id, w.lbCert}
    BY <1>5, PassFacts DEF GetAnnCert, Pass, Annotations
  <2>3. QED
    BY <2>1, <2>2, AskGoesOn DEF Copied, Requested, Under
<1>6. CASE Build
  <2>1. w.pc = "build" /\ UNCHANGED <<lb, nameOf>> /\ used' = used
    BY Zenon, <1>6 DEF Build, At, cloud, used
  <2>2. /\ w'.base = w.base /\ w'.obj = w.obj /\ w'.lbCert = w.lbCert
        /\ w'.pc = "patch" \/ (w'.pc = "update" /\ w'.req \in findCertificateID(w.obj))
    BY Zenon, <1>6, PassFacts DEF Build, Fail, Pass
  <2>3. Requested'
    BY <2>1, <2>2, FoundGiven DEF Requested, Given
  <2>4. QED
    BY <2>1, <2>2, <2>3, AskGoesOn DEF AskInv, Copied, Under
<1>7. CASE Update
  <2>1. w'.base = w.base /\ w'.obj = w.obj /\ w'.lbCert = w.lbCert /\ w'.pc = "patch"
    BY Zenon, <1>7, PassFacts DEF Update, Fail, Goto, Pass
  <2>2. QED
    BY <2>1, AskEnds DEF AskInv, Copied, Under
<1>8. CASE Patch
  BY <1>8, IdleFacts, AskEnds DEF Patch, Copied, Under
<1>9. QED
  BY <1>1, <1>2, <1>3, <1>4, <1>5, <1>6, <1>7, <1>8 DEF Steps

\* A renewal gives a load balancer a new certificate of the old name.
LEMMA AskRenews ==
  ASSUME IndInv, AskInv, NEW old \in IDs, NEW id \in IDs, NEW kept \in BOOLEAN, Renew(old, id, kept)
  PROVE  AskInv'
<1>1. w' = w /\ lb' = IF lb = old THEN id ELSE lb
  BY DEF Renew
<1>2. lb \in used \cup {NoID} /\ w.lbCert \in used \cup {NoID} /\ NoID \notin IDs
  BY PassFacts DEF IDs, NoID
<1>3. /\ old \in alive /\ nameOf'[id] = nameOf[old] /\ used \subseteq used'
      /\ \A i \in used : nameOf'[i] = nameOf[i]
  BY RenewFacts
<1>4. SameName'
  BY <1>1, <1>2, <1>3 DEF AskInv, SameName
<1>5. Copied' /\ Requested'
  BY <1>1, <1>3 DEF AskInv, Copied, Requested, Given
<1>6. QED
  BY <1>4, <1>5 DEF AskInv

\* Every step preserves what a pass knows.
LEMMA AskStep == IndInv /\ AskInv /\ [Next]_vars => AskInv'
<1> SUFFICES ASSUME IndInv, AskInv, [Next]_vars PROVE AskInv'
  OBVIOUS
<1>1. CASE CallFails
  <2>1. CASE Fail
    <3>1. w'.base = w.base /\ w'.obj = w.obj /\ w'.lbCert = w.lbCert /\ w'.pc = "patch"
      BY Zenon, <2>1, PassFacts DEF Fail, Pass
    <3>2. QED
      BY <3>1, AskEnds DEF AskInv, Copied, Under
  <2>2. CASE w' = Idle
    BY <2>2, IdleFacts, AskEnds DEF Copied, Under
  <2>3. QED
    BY Zenon, <1>1, <2>1, <2>2 DEF CallFails
<1>2. CASE \/ Informer \/ OtherEvent \/ UNCHANGED vars
           \/ \E ann \in Annotations : UserEdits(ann)
           \/ \E id \in IDs : DeleteReplaced(id)
  <2>1. UNCHANGED <<nameOf, lb, w>>
    BY Zenon, <1>2 DEF Informer, OtherEvent, UserEdits, DeleteReplaced, cloud, vars
  <2>2. QED
    BY Zenon, <2>1 DEF AskInv, SameName, Copied, Requested, Given, used
<1>3. QED
  BY Zenon, <1>1, <1>2, AskSteps, AskRenews DEF Next

\* The three invariants hold together.
LEMMA AskInvariance == Spec => [](IndInv /\ NameInv /\ AskInv)
<1>1. Init => AskInv
  BY IdleFacts, AskEnds DEF Init, AskInv, SameName, Copied, Requested, Under
<1>2. QED
  BY <1>1, AskStep, NameInvariance, PTL DEF Spec

\* For all names, numbers of certificates and disturbances, an update gives the
\* load balancer what the Service asked for when the pass copied it; one of the
\* name it has only if what was asked for is lost (updateLoadBalancer and
\* recordUpdatedLetsEncryptCert, loadbalancers.go:340-419).
THEOREM UpdateSafe == Spec => UpdateAsAsked
<1>1. ASSUME IndInv, NameInv, AskInv, [Next]_vars, At("update"), w' # w, ~w'.failed,
             w.base.id = NoID => "renewKept" \notin disturbed.by
      PROVE  named({lb'}) = wanted(w.base) \/ (lost /\ named({lb'}) = named({lb}))
  <2>1. lb' = w.req /\ w.req \in alive \cup {NoID} /\ UNCHANGED nameOf
    <3>1. ~Fail
      BY Zenon, <1>1, PassFacts DEF Fail, Pass
    <3>2. Update
      BY Zenon, <1>1, <3>1 DEF Next, vars, Steps, At, Dequeue, Retrieve, Find, GetLBCert, GetAnnCert, Build,
         Patch, CallFails, Informer, OtherEvent, UserEdits, Renew, DeleteReplaced
    <3>3. QED
      BY Zenon, <3>1, <3>2 DEF Update
  <2>2. /\ SameName /\ Copied /\ Given(w.obj, w.req) /\ Keeps(w.base, w.obj)
        /\ w.pc \in Under /\ NoID \notin used /\ alive \subseteq used
    BY <1>1, PassFacts DEF AskInv, Requested, At, Under, IDs, NoID
  <2>3. w.base.id # NoID => w.cert = w.base.id
    BY <1>1 DEF At, IndInv, Progress
  <2>4. ASSUME w.obj.id = w.lbCert, w.obj.id # NoID
        PROVE  named({lb'}) = named({lb})
    <3>1. w.req = w.lbCert /\ w.lbCert # NoID
      BY <2>2, <2>4 DEF Given
    <3>2. lb # NoID /\ nameOf[w.req] = nameOf[lb]
      BY <2>2, <3>1 DEF SameName
    <3>3. QED
      BY <2>1, <3>1, <3>2 DEF named
  <2>5. CASE w.base.id = NoID /\ w.obj.id = NoID
    <3>1. w.obj.name = w.base.name
      BY <2>2 DEF Copied
    <3>2. QED
      BY <2>1, <2>2, <2>5, <3>1 DEF Given, named, wanted
  <2>6. CASE w.base.id = NoID /\ w.obj.id # NoID
    <3>1. lost /\ w.obj.id = w.lbCert
      BY <1>1, <2>6 DEF NameInv, ByName
    <3>2. QED
      BY <2>4, <2>6, <3>1
  <2>7. CASE w.base.id # NoID /\ w.base.id \in alive
    <3>1. w.req # NoID /\ nameOf[w.req] = nameOf[w.base.id]
      BY <2>2, <2>7 DEF Given, Keeps
    <3>2. QED
      BY <2>1, <2>7, <3>1 DEF named, wanted
  <2>8. CASE w.base.id \notin alive \cup {NoID}
    <3>1. w.obj.id = w.lbCert /\ w.obj.id # NoID /\ w.lbCert \in alive
      BY <2>1, <2>2, <2>8 DEF Given, Keeps, Copied
    <3>2. lost
      BY <2>3, <2>8, <3>1 DEF lost
    <3>3. QED
      BY <2>4, <3>1, <3>2
  <2>9. QED
    BY <2>5, <2>6, <2>7, <2>8
<1>2. IndInv /\ NameInv /\ AskInv /\ [Next]_vars
      => [/\ At("update") /\ ~w'.failed
          /\ w.base.id = NoID => "renewKept" \notin disturbed.by
          => named({lb'}) = wanted(w.base) \/ (lost /\ named({lb'}) = named({lb}))]_w
  BY <1>1
<1>3. QED
  BY <1>2, AskInvariance, PTL DEF Spec, UpdateAsAsked
==============================================================================
