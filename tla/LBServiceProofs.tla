--------------------------- MODULE LBServiceProofs ---------------------------
(***************************************************************************)
(* Proofs about LBService for every set of nodes, names, configurations    *)
(* and scenarios and any number of disturbances: the Service never has two *)
(* load balancers, never loses its finalizer while it has one, and the two *)
(* workers implement LBPromise.                                            *)
(***************************************************************************)
EXTENDS LBServiceSteps, LBServicePromise

\* Forgetting a Service that is gone keeps the invariant.
LEMMA UncacheStep ==
  ASSUME IndInv, Uncache PROVE IndInv'
<1> USE DEF Workers
<1>1. UNCHANGED <<svc, lister, nodes, lbs, nextID>> /\ Counters' /\ aliased' = FALSE
  BY CountersStay DEF Uncache, cloud
<1>2. /\ obj' \in [Workers -> Service \cup {Nil}] /\ obj'["svc"] = Nil /\ obj'["node"] = obj["node"]
  BY DEF Uncache, IndInv, TypeOK
<1>3. /\ w' \in [Workers -> Worker] /\ w'["node"] = w["node"] /\ w'["svc"].lb = w["svc"].lb
      /\ w'["svc"].pc = "finish"
  BY GotoWithFacts DEF Uncache, IndInv, SvcPCs
<1>4. BaseOK'
  BY <1>2, <1>3 DEF BaseOK, IndInv, WorkersOK
<1>5. WorkersOK' /\ HasLB'
  BY ZenonT(30), <1>1, <1>2, <1>3, <1>4, SvcMoves, WorkerFacts DEF SvcPCs
<1>6. Position'
  BY ZenonT(60), <1>3 DEF Position, At, EnsurePCs, CleanupPCs
<1>7. TypeOK'
  BY Zenon, <1>1, <1>2, <1>5 DEF IndInv, TypeOK, Counters, HasLB
<1>8. OneID' /\ NamesAgree'
  BY <1>1, <1>2 DEF IndInv, OneID, NamesAgree, Named
<1>9. Wanted' /\ Finalizers'
  BY <1>1, <1>2 DEF IndInv, Wanted, Finalizers, FinalizerGuards
<1>10. QED
  BY <1>5, <1>6, <1>7, <1>8, <1>9 DEF IndInv

\* The node worker takes the object the service worker has cached.
LEMMA NodeSyncStep ==
  ASSUME IndInv, NodeSync PROVE IndInv'
<1> USE DEF Workers
<1>1. UNCHANGED <<svc, lister, nodes, lbs, nextID>> /\ Counters'
  BY Zenon DEF NodeSync, cloud, IndInv, TypeOK, Counters
<1>2. CASE UNCHANGED <<obj, aliased, w>>
  <2>1. WorkersOK' /\ HasLB' /\ Position'
    BY Zenon, <1>1, <1>2, BaseKept, WorkersStay, PositionStays, WorkerFacts
  <2>2. QED
    BY <1>1, <1>2, <2>1, QuietStep
<1>3. CASE /\ obj["svc"] # Nil
           /\ obj' = [obj EXCEPT !["node"] = obj["svc"]]
           /\ aliased' = TRUE
           /\ w' = [w EXCEPT !["node"] = [Idle EXCEPT !.pc = "retrieve", !.base = obj["svc"].id,
                                                      !.list = listed]]
  <2>1. /\ obj' \in [Workers -> Service \cup {Nil}] /\ obj'["svc"] = obj["svc"]
        /\ obj'["node"] = obj["svc"] /\ obj["svc"] \in Service
    BY <1>3 DEF IndInv, TypeOK
  <2> DEFINE r == [Idle EXCEPT !.pc = "retrieve", !.base = obj["svc"].id, !.list = listed]
  <2>2. r \in Worker /\ r.pc = "retrieve" /\ r.lb = Nil /\ r.base = obj["svc"].id
    <3>1. listed \in NodeLists /\ obj["svc"].id \in IDs \cup {NoID}
      BY <2>1, Lists DEF IndInv, Service
    <3>2. QED
      BY Zenon, <3>1, IdleFacts DEF Worker, NodePCs
  <2> HIDE DEF r
  <2>3. w' \in [Workers -> Worker] /\ w'["svc"] = w["svc"] /\ w'["node"] = r
    BY Zenon, <1>3, <2>2 DEF IndInv, WorkersOK, r
  <2>4. BaseOK'
    BY <2>1, <2>2, <2>3 DEF BaseOK, IndInv, WorkersOK
  <2>5. WorkersOK' /\ HasLB'
    BY ZenonT(60), <1>3, <2>1, <2>2, <2>3, <2>4, NodeMoves DEF NodePCs
  <2>6. Position'
    BY Zenon, <1>1, <2>1, <2>3, PositionStays
  <2>7. TypeOK'
    BY Zenon, <1>1, <1>3, <2>1, <2>5 DEF IndInv, TypeOK, Counters, HasLB
  <2>8. OneID' /\ NamesAgree'
    BY Zenon, <1>1, <2>1 DEF IndInv, OneID, NamesAgree, Named
  <2>9. Wanted' /\ Finalizers'
    BY Zenon, <1>1, <2>1 DEF IndInv, Wanted, Finalizers, FinalizerGuards
  <2>10. QED
    BY <2>5, <2>6, <2>7, <2>8, <2>9 DEF IndInv
<1>4. QED
  BY Zenon, <1>2, <1>3 DEF NodeSync

\* The end of a node sync keeps the invariant.
LEMMA NodeDoneStep ==
  ASSUME IndInv, NodeDone PROVE IndInv'
<1> USE DEF Workers
<1>1. UNCHANGED <<svc, lister, nodes, lbs, nextID>> /\ Counters' /\ aliased' = FALSE
  BY ZenonT(30) DEF NodeDone, cloud, IndInv, TypeOK, Counters
<1>2. /\ obj' \in [Workers -> Service \cup {Nil}] /\ obj'["node"] = Nil /\ obj'["svc"] = obj["svc"]
  BY DEF NodeDone, IndInv, TypeOK
<1>3. w' \in [Workers -> Worker] /\ w'["svc"] = w["svc"] /\ w'["node"] = Idle
  BY Zenon, IdleFacts DEF NodeDone, IndInv, WorkersOK
<1>4. BaseOK'
  BY <1>2, <1>3 DEF BaseOK, IndInv, WorkersOK
<1>5. WorkersOK' /\ HasLB'
  BY ZenonT(60), <1>1, <1>2, <1>3, <1>4, IdleFacts, NodeMoves DEF NodePCs
<1>6. Position'
  BY Zenon, <1>1, <1>2, <1>3, PositionStays
<1>7. TypeOK'
  BY Zenon, <1>1, <1>2, <1>5 DEF IndInv, TypeOK, Counters, HasLB
<1>8. OneID' /\ NamesAgree'
  BY Zenon, <1>1, <1>2 DEF IndInv, OneID, NamesAgree, Named
<1>9. Wanted' /\ Finalizers'
  BY Zenon, <1>1, <1>2 DEF IndInv, Wanted, Finalizers, FinalizerGuards
<1>10. QED
  BY <1>5, <1>6, <1>7, <1>8, <1>9 DEF IndInv

\* The informer catches up.
LEMMA InformerStep ==
  ASSUME IndInv, Informer PROVE IndInv'
<1> USE DEF Workers
<1>1. UNCHANGED <<svc, nodes, lbs, nextID, obj, aliased, w>> /\ Counters' /\ lister' = svc
  BY ZenonT(30) DEF Informer, cloud, IndInv, TypeOK, Counters
<1>2. ~ensurable(lister) => ~ensurable(svc)
  BY DEF IndInv, Wanted
<1>3. WorkersOK' /\ HasLB'
  BY Zenon, <1>1, BaseKept, WorkersStay, WorkerFacts
<1>4. Position'
  BY Zenon, <1>1, <1>2, PositionStays
<1>5. TypeOK'
  BY Zenon, <1>1, <1>3 DEF IndInv, TypeOK, Counters, HasLB
<1>6. OneID' /\ NamesAgree'
  BY <1>1 DEF IndInv, OneID, NamesAgree, Named
<1>7. Wanted' /\ Finalizers'
  BY Zenon, <1>1, <1>2 DEF IndInv, Wanted, Finalizers, FinalizerGuards
<1>8. QED
  BY <1>3, <1>4, <1>5, <1>6, <1>7 DEF IndInv

\* A new process has forgotten everything.
LEMMA RestartStep ==
  ASSUME IndInv, Restart PROVE IndInv'
<1> USE DEF Workers
<1>1. UNCHANGED <<svc, nodes, lbs, nextID>> /\ lister' = svc /\ aliased' = FALSE
  BY DEF Restart, cloud
<1>2. obj' = [p \in Workers |-> Nil] /\ w' = [p \in Workers |-> Idle]
  BY DEF Restart
<1>3. svc \in Service
  BY DEF IndInv, TypeOK
<1>4. Counters'
  BY <1>3, Disturbs DEF Restart, IndInv, Counters, wantsLoadBalancer, needsCleanup, Service
<1>5. WorkersOK' /\ HasLB'
  BY ZenonT(30), <1>1, <1>2, IdleFacts DEF WorkersOK, HasLB, BaseOK, SvcPCs, NodePCs, At
<1>6. Position'
  BY Zenon, <1>2, IdleFacts DEF Position, At, EnsurePCs, CleanupPCs
<1>7. TypeOK'
  BY Zenon, <1>1, <1>2, <1>4, <1>5 DEF IndInv, TypeOK, Counters, HasLB
<1>8. OneID' /\ NamesAgree'
  BY Zenon, <1>1, <1>2 DEF IndInv, OneID, NamesAgree, Named
<1>9. Wanted' /\ Finalizers'
  BY <1>1, <1>2 DEF IndInv, Wanted, Finalizers, FinalizerGuards
<1>10. QED
  BY <1>5, <1>6, <1>7, <1>8, <1>9 DEF IndInv

\* A node comes, goes or changes.
LEMMA NodeChangeStep ==
  ASSUME IndInv, NEW n \in Names, NEW spec \in NodeSpecs \cup {Absent}, NodeChange(n, spec)
  PROVE  IndInv'
<1> USE DEF Workers
<1>1. UNCHANGED <<svc, lister, lbs, nextID, obj, aliased, w, queue>>
  BY Zenon DEF NodeChange, cloud
<1>2. /\ nodes' \in [Names -> NodeSpecs \cup {Absent}] /\ nodeDirty' \in BOOLEAN
      /\ disturbed' \in [by : Scenarios, times : 0..MaxDisturbances]
  BY Zenon, Disturbs DEF NodeChange, IndInv, TypeOK, shouldSync
<1>3. WorkersOK' /\ HasLB' /\ Position'
  BY Zenon, <1>1, BaseKept, WorkersStay, PositionStays, WorkerFacts
<1>4. TypeOK'
  BY Zenon, <1>1, <1>2, <1>3 DEF IndInv, TypeOK, HasLB
<1>5. Relabelled
  BY <1>1 DEF Relabelled
<1>6. QED
  BY Zenon, <1>1, <1>3, <1>4, <1>5, RelabelStep DEF IndInv

------------------------------------------------------------------------------
(***************************************************************************)
(* The theorems.                                                           *)
(***************************************************************************)
\* The invariant holds for a Service that has just been created.
LEMMA IndInit == Init => IndInv
<1> USE DEF Workers
<1> SUFFICES ASSUME Init PROVE IndInv
  OBVIOUS
<1>1. PICK n \in LBNames :
        svc = [phase |-> "live", lb |-> TRUE, finalizer |-> FALSE, name |-> n, id |-> NoID,
               disown |-> FALSE, config |-> CHOOSE v \in Versions : TRUE, status |-> NoID]
  BY ZenonT(30) DEF Init
<1>2. svc \in Service /\ lister = svc /\ svc.id = NoID /\ svc.phase = "live" /\ svc.lb
      /\ ~svc.disown /\ ~svc.finalizer
  <2>1. (CHOOSE v \in Versions : TRUE) \in Versions
    BY ServiceAssumption
  <2>2. QED
    BY Zenon, <1>1, <2>1 DEF Service, Init
<1>3. obj = [p \in Workers |-> Nil] /\ w = [p \in Workers |-> Idle] /\ ~aliased /\ aliased \in BOOLEAN
  BY ZenonT(60) DEF Init
<1>4. nodes \in [Names -> NodeSpecs \cup {Absent}]
  BY ServiceAssumption DEF Init
<1>5. Counters
  <2>1. /\ queue = [dirty |-> TRUE, processing |-> FALSE, waiting |-> FALSE] /\ nodeDirty = FALSE
        /\ disturbed \in [by : Scenarios, times : {0}]
    BY Zenon DEF Init
  <2>2. 0 \in 0..MaxDisturbances
    BY ServiceAssumption
  <2>3. disturbed \in [by : Scenarios, times : 0..MaxDisturbances]
    BY <2>1, <2>2
  <2>4. QED
    BY Zenon, <2>1, <2>3 DEF Counters
<1>6. lbs = {} /\ nextID = 1 /\ nextID \in 1..(MaxLBs + 1)
  <2>1. lbs = {} /\ nextID = 1
    BY Zenon DEF Init
  <2>2. 1 \in 1..(MaxLBs + 1)
    BY ServiceAssumption
  <2>3. QED
    BY Zenon, <2>1, <2>2
<1>7. TypeOK /\ WorkersOK
  BY Zenon, <1>2, <1>3, <1>4, <1>5, <1>6, IdleFacts
  DEF TypeOK, WorkersOK, BaseOK, Counters, At, SvcPCs, NodePCs
<1>8. OneID /\ NamesAgree
  BY <1>2, <1>3, <1>6 DEF OneID, NamesAgree, Named
<1>9. Wanted /\ Finalizers
  BY <1>2, <1>3, <1>6 DEF Wanted, Finalizers, FinalizerGuards, ensurable
<1>10. Position
  BY <1>3, IdleFacts DEF Position, At, EnsurePCs, CleanupPCs
<1>11. QED
  BY <1>7, <1>8, <1>9, <1>10 DEF IndInv

\* Every step keeps it.
LEMMA IndStep == IndInv /\ [Next]_vars => IndInv'
<1> SUFFICES ASSUME IndInv, [Next]_vars PROVE IndInv'
  OBVIOUS
<1>0. "svc" \in Workers /\ "node" \in Workers
  BY DEF Workers
<1>1. CASE ServiceWorker
  BY ZenonT(60), <1>0, <1>1, DequeueStep, AddFinalizerStep, EnsureStep, RetrieveStep, UpdateLBStep, CreateStep,
     PatchStep, StatusStep, GetLBStep, DeleteRetrieveStep, DeleteLBStep, RemoveFinalizerStep,
     UncacheStep, FinishStep, CallFailsStep, Zenon DEF ServiceWorker
<1>2. CASE NodeWorker
  BY Zenon, <1>0, <1>2, NodeSyncStep, RetrieveStep, UpdateLBStep, PatchStep, NodeCheckStep,
     NodeCheckPatchStep, NodeDoneStep, CallFailsStep DEF NodeWorker
<1>3. CASE Environment
  BY <1>3, UserEditsStep, RestartStep, CloudStep, NodeChangeStep DEF Environment
<1>4. CASE \E l \in lbs : Activate(l)
  BY <1>4, CloudStep
<1>5. CASE UNCHANGED vars
  <2>1. UNCHANGED <<svc, lister, nodes, lbs, nextID, obj, aliased, w>> /\ Counters'
    BY Zenon, <1>5, CountersStay DEF vars
  <2>2. WorkersOK' /\ HasLB' /\ Position'
    BY <2>1, BaseKept, WorkersStay, PositionStays, WorkerFacts DEF Workers
  <2>3. QED
    BY <2>1, <2>2, QuietStep
<1>6. QED
  BY Zenon, <1>1, <1>2, <1>3, <1>4, <1>5, RetryDueStep, InformerStep DEF Next

\* The invariant holds throughout.
LEMMA Inductive == Spec => []IndInv
BY IndInit, IndStep, PTL DEF Spec

\* Every variable keeps its type: in particular neither worker of the service
\* controller ever addresses a load balancer without having one in hand.
THEOREM TypeCorrect == Spec => []TypeOK
<1>1. IndInv => TypeOK
  BY DEF IndInv
<1>2. QED
  BY <1>1, Inductive, PTL

\* EnsureLoadBalancer never leaves a Service with two load balancers: whatever
\* calls fail, whichever answers are lost, whenever the process dies and however
\* stale the copies of the Service are that the two workers hold.
THEOREM NeverTwo == Spec => []OneLoadBalancer
<1>1. IndInv => OneLoadBalancer
  BY DEF IndInv, OneID, OneLoadBalancer
<1>2. QED
  BY <1>1, Inductive, PTL

\* A Service with a load balancer that it has not disowned has the finalizer, so
\* Kubernetes cannot remove it before syncService has cleaned up.
THEOREM NeverUnguarded == Spec => []FinalizerGuards
<1>1. IndInv => FinalizerGuards
  BY DEF IndInv, Finalizers
<1>2. QED
  BY <1>1, Inductive, PTL

\* There is never a second create call that succeeds: not even after the load
\* balancer has been deleted does a stale copy of the Service bring it back.
THEOREM NeverRecreated == Spec => []CreatedOnce
<1>1. IndInv => CreatedOnce
  BY DEF IndInv, OneID, CreatedOnce
<1>2. QED
  BY <1>1, Inductive, PTL

(***************************************************************************)
(* LBService implements LBPromise.  Two more invariants are needed: what   *)
(* the disown annotation allows, and that IDs come from load balancers.    *)
(***************************************************************************)
\* Where a worker is about to touch the load balancer, or has decided to.
Touching == {"retrieve", "update", "create", "deleteLB", "deleteCachedLB"}

\* It does so for a copy of the Service that does not disown it.
Permitted == \A p \in Workers : w[p].pc \in Touching => ~obj[p].disown

\* Before there is a load balancer nothing refers to one.
Referred ==
  nextID = 1 => /\ svc.id = NoID /\ lister.id = NoID
                /\ \A p \in Workers : w[p].lb = Nil /\ (obj[p] # Nil => obj[p].id = NoID)

\* A step that leaves what the copies say of disowning alone, and sends no
\* worker to the load balancer for a copy that disowns it.
LEMMA PermittedStays ==
  ASSUME IndInv, Permitted, Relabelled,
         \A q \in Workers : w'[q].pc \in Touching => w[q].pc \in Touching \/ ~obj[q].disown
  PROVE  Permitted'
<1> SUFFICES ASSUME NEW q \in Workers, w'[q].pc \in Touching PROVE ~obj'[q].disown
  BY Zenon DEF Permitted
<1>1. ~obj[q].disown
  BY Zenon DEF Permitted
<1>2. CASE obj[q] # Nil
  BY Zenon, <1>1, <1>2 DEF Relabelled
<1>3. CASE obj[q] = Nil
  BY Zenon, <1>1, <1>3 DEF Relabelled
<1>4. QED
  BY <1>2, <1>3

\* Steps that change no more than where a worker is.
LEMMA MovesPermitted ==
  ASSUME IndInv, Permitted, NEW p \in Workers, UNCHANGED obj,
         \A q \in Workers \ {p} : w'[q] = w[q],
         w'[p].pc \in Touching => w[p].pc \in Touching \/ ~obj[p].disown
  PROVE  Permitted'
<1>1. Relabelled
  BY Zenon DEF Relabelled
<1>2. \A q \in Workers : w'[q].pc \in Touching => w[q].pc \in Touching \/ ~obj[q].disown
  BY Zenon
<1>3. QED
  BY Zenon, <1>1, <1>2, PermittedStays

\* The steps after which a worker does not touch the load balancer.
LEMMA QuietPermitted ==
  ASSUME IndInv, Permitted,
         \/ AddFinalizer \/ Status \/ GetPatch \/ RemoveFinalizer \/ ClearStatus \/ Finish
         \/ DeleteLB \/ CreateLost \/ NodeCheckPatch
         \/ \E p \in Workers : Patch(p) \/ UpdateLB(p) \/ CallFails(p)
  PROVE  Permitted'
<1>0. w \in [Workers -> Worker]
  BY DEF IndInv, WorkersOK
<1>1. ASSUME NEW p \in Workers, NEW c, c \notin Touching, UNCHANGED obj,
             \/ Goto(p, c) \/ \E r : GotoWith(p, c, r)
      PROVE  Permitted'
  <2>1. w'[p].pc = c /\ \A q \in Workers \ {p} : w'[q] = w[q]
    BY <1>0, <1>1 DEF Goto, GotoWith, Worker
  <2>2. QED
    BY Zenon, <1>1, <2>1, MovesPermitted
<1>w. "svc" \in Workers /\ "node" \in Workers
  BY DEF Workers
<1>2. CASE AddFinalizer \/ Status \/ GetPatch \/ RemoveFinalizer \/ ClearStatus \/ DeleteLB \/ CreateLost
  <2>1. UNCHANGED obj /\ \E c \in {"ensure", "finish", "delete", "clearStatus", "uncache", "removeFinalizer", "patch"} :
                            Goto("svc", c) \/ \E r : GotoWith("svc", c, r)
    BY <1>2 DEF AddFinalizer, Status, GetPatch, RemoveFinalizer, ClearStatus, DeleteLB, CreateLost
  <2>2. \A c \in {"ensure", "finish", "delete", "clearStatus", "uncache", "removeFinalizer", "patch"} : c \notin Touching
    BY DEF Touching
  <2>3. QED
    BY Zenon, <1>1, <1>w, <2>1, <2>2
<1>3. CASE Finish
  <2>1. w'["svc"] = Idle /\ w'["node"] = w["node"] /\ UNCHANGED obj
    BY <1>0, <1>3 DEF Finish, Workers
  <2>2. Idle.pc \notin Touching
    BY IdleFacts DEF Touching
  <2>3. QED
    BY <1>w, <2>1, <2>2, MovesPermitted DEF Workers
<1>4. CASE NodeCheckPatch
  BY <1>1, <1>4, <1>w DEF NodeCheckPatch, Touching
<1>5. ASSUME NEW p \in Workers, Patch(p) PROVE Permitted'
  <2>1. UNCHANGED obj /\ \A q \in Workers \ {p} : w'[q] = w[q]
    BY <1>5 DEF Patch
  <2>2. w'[p].pc \in {"status", "finish", "done", "check"}
    BY <1>0, <1>5 DEF Patch, afterPatch, Workers, Worker
  <2>3. QED
    BY <2>1, <2>2, MovesPermitted DEF Touching
<1>6. ASSUME NEW p \in Workers, UpdateLB(p) PROVE Permitted'
  <2>1. UNCHANGED obj /\ \E r : GotoWith(p, "patch", r)
    BY Zenon, <1>6 DEF UpdateLB
  <2>2. "patch" \notin Touching
    BY DEF Touching
  <2>3. QED
    BY Zenon, <1>1, <2>1, <2>2
<1>7. ASSUME NEW p \in Workers, CallFails(p) PROVE Permitted'
  <2>1. UNCHANGED obj /\ GotoWith(p, afterFailure(p), "fail")
    BY <1>7 DEF CallFails
  <2>2. afterFailure(p) \in {"patch", "check", "done", "finish"}
    BY DEF afterFailure
  <2>3. afterFailure(p) \notin Touching
    BY <2>2 DEF Touching
  <2>4. QED
    BY Zenon, <1>1, <2>1, <2>3
<1>8. QED
  BY Zenon, <1>2, <1>3, <1>4, <1>5, <1>6, <1>7

\* The lookups, and the decisions taken on the disown annotation.
LEMMA LookupPermitted ==
  ASSUME IndInv, Permitted,
         \/ Ensure \/ CreateLB \/ GetLB \/ DeleteRetrieve("delete") \/ DeleteRetrieve("deleteCached")
         \/ NodeCheck \/ \E p \in Workers : Retrieve(p)
  PROVE  Permitted'
<1>0. w \in [Workers -> Worker] /\ "svc" \in Workers /\ "node" \in Workers
  BY DEF IndInv, WorkersOK, Workers
<1>1. ASSUME NEW p \in Workers, NEW l \in retrieveLoadBalancer(obj[p]), obj[p] # Nil,
             updateServiceAnnotation(p, l.id)
      PROVE  Relabelled
  BY <1>1, RetrievesIt, Annotates
<1>2. CASE Ensure
  <2>1. UNCHANGED obj /\ w'["node"] = w["node"]
    BY <1>0, <1>2 DEF Ensure
  <2>2. w'["svc"].pc = "retrieve" => ~obj["svc"].disown
    BY <1>0, <1>2 DEF Ensure, Worker
  <2>3. w'["svc"].pc \in {"finish", "retrieve"}
    BY <1>0, <1>2 DEF Ensure, Worker
  <2>4. QED
    BY <1>0, <2>1, <2>2, <2>3, MovesPermitted DEF Touching, Workers
<1>3. CASE CreateLB
  <2>1. obj["svc"] # Nil /\ nextID = 1 /\ 1 \in IDs
    BY <1>0, <1>3, WorkerFacts, ServiceAssumption DEF CreateLB, At, IndInv, Position, IDs
  <2>2. Relabelled
    BY Zenon, <1>0, <1>3, <2>1, Annotates DEF CreateLB
  <2>3. w'["svc"].pc = "patch" /\ w'["node"] = w["node"]
    BY <1>0, <1>3 DEF CreateLB, GotoWith, Worker
  <2>4. QED
    BY Zenon, <2>2, <2>3, PermittedStays DEF Touching, Workers
<1>4. CASE GetLB
  <2>1. obj["svc"] # Nil
    BY <1>0, <1>4, WorkerFacts DEF GetLB, At
  <2>2. Relabelled
    <3>1. CASE UNCHANGED obj
      BY Zenon, <3>1 DEF Relabelled
    <3>2. CASE ~UNCHANGED obj
      BY Zenon, <1>0, <1>1, <1>4, <2>1, <3>2 DEF GetLB
    <3>3. QED
      BY <3>1, <3>2
  <2>3. w'["svc"].pc \in {"getPatch", "removeFinalizer"} /\ w'["node"] = w["node"]
    BY <1>0, <1>4 DEF GetLB, Goto, Worker
  <2>4. QED
    BY <2>2, <2>3, PermittedStays DEF Touching, Workers
<1>5. CASE NodeCheck
  <2>1. obj["node"] # Nil
    BY <1>0, <1>5, WorkerFacts DEF NodeCheck, At
  <2>2. Relabelled
    <3>1. CASE UNCHANGED obj
      BY Zenon, <3>1 DEF Relabelled
    <3>2. CASE ~UNCHANGED obj
      BY Zenon, <1>0, <1>1, <1>5, <2>1, <3>2 DEF NodeCheck
    <3>3. QED
      BY <3>1, <3>2
  <2>3. w'["node"].pc \in {"checkPatch", "done"} /\ w'["svc"] = w["svc"]
    BY <1>0, <1>5 DEF NodeCheck, GotoWith, Worker
  <2>4. QED
    BY <2>2, <2>3, PermittedStays DEF Touching, Workers
<1>6. ASSUME NEW p \in Workers, Retrieve(p) PROVE Permitted'
  <2>1. obj[p] # Nil /\ w[p].pc \in Touching
    BY <1>6, WorkerFacts DEF Retrieve, At, Touching
  <2>2. Relabelled
    <3>1. CASE UNCHANGED obj
      BY Zenon, <3>1 DEF Relabelled
    <3>2. CASE ~UNCHANGED obj
      BY Zenon, <1>1, <1>6, <2>1, <3>2 DEF Retrieve
    <3>3. QED
      BY <3>1, <3>2
  <2>3. \A q \in Workers \ {p} : w'[q] = w[q]
    BY <1>0, <1>6 DEF Retrieve
  <2>4. QED
    BY Zenon, <2>1, <2>2, <2>3, PermittedStays
<1>7. ASSUME NEW pc \in {"delete", "deleteCached"}, DeleteRetrieve(pc) PROVE Permitted'
  <2>1. UNCHANGED obj /\ w'["node"] = w["node"]
    BY Zenon, <1>0, <1>7 DEF DeleteRetrieve, Goto
  <2>2. CASE obj["svc"].disown
    <3>1. w'["svc"].pc \in {"removeFinalizer", "uncache"}
      BY <1>0, <1>7, <2>2 DEF DeleteRetrieve, Goto, afterDelete, Worker
    <3>2. QED
      BY <1>0, <2>1, <3>1, MovesPermitted DEF Touching, Workers
  <2>3. CASE ~obj["svc"].disown
    BY <1>0, <2>1, <2>3, MovesPermitted DEF Workers
  <2>4. QED
    BY <2>2, <2>3
<1>8. QED
  BY Zenon, <1>2, <1>3, <1>4, <1>5, <1>6, <1>7

\* Taking and letting go of copies: UpdateLoadBalancer leaves a disowned load
\* balancer alone.
LEMMA CopyPermitted ==
  ASSUME IndInv, Permitted, Dequeue \/ Uncache \/ NodeSync \/ NodeDone \/ Restart
  PROVE  Permitted'
<1>0. /\ w \in [Workers -> Worker] /\ obj \in [Workers -> Service \cup {Nil}]
      /\ Idle.pc \notin Touching
  BY IdleFacts DEF IndInv, WorkersOK, TypeOK, Touching
<1>1. ASSUME NEW p \in Workers, w'[p].pc \notin Touching,
             \A q \in Workers \ {p} : w'[q] = w[q] /\ obj'[q] = obj[q]
      PROVE  Permitted'
  BY Zenon, <1>1 DEF Permitted
<1>2. CASE Dequeue
  <2>1. w'["node"] = w["node"] /\ obj'["node"] = obj["node"]
    BY Zenon, <1>0, <1>2 DEF Dequeue, Goto, Workers
  <2>2. w'["svc"].pc \in {"deleteCached", "uncache", "getLB", "addFinalizer"}
    BY Zenon, <1>2, DequeueMoves
  <2>3. QED
    BY <1>1, <2>1, <2>2 DEF Touching, Workers
<1>3. CASE Uncache
  <2>1. w'["node"] = w["node"] /\ obj'["node"] = obj["node"] /\ w'["svc"].pc = "finish"
    BY <1>0, <1>3 DEF Uncache, GotoWith, Workers, Worker
  <2>2. QED
    BY <1>1, <2>1 DEF Touching, Workers
<1>4. CASE NodeSync
  <2>1. CASE UNCHANGED <<obj, w>>
    BY Zenon, <2>1 DEF Permitted
  <2>2. CASE ~UNCHANGED <<obj, w>>
    <3>1. ~obj["svc"].disown /\ obj' = [obj EXCEPT !["node"] = obj["svc"]] /\ w'["svc"] = w["svc"]
      BY <1>0, <1>4, <2>2 DEF NodeSync, Workers
    <3>2. ~obj'["node"].disown /\ obj'["svc"] = obj["svc"]
      BY <1>0, <3>1 DEF Workers
    <3>3. QED
      BY Zenon, <3>1, <3>2 DEF Permitted, Workers
  <2>3. QED
    BY <2>1, <2>2
<1>5. CASE NodeDone
  <2>1. w'["node"] = Idle /\ w'["svc"] = w["svc"] /\ obj'["svc"] = obj["svc"]
    BY <1>0, <1>5 DEF NodeDone, Workers
  <2>2. QED
    BY <1>0, <1>1, <2>1 DEF Workers
<1>6. CASE Restart
  BY Zenon, <1>0, <1>6 DEF Restart, Permitted
<1>7. QED
  BY Zenon, <1>2, <1>3, <1>4, <1>5, <1>6

\* Everything else leaves the workers and their copies alone.
LEMMA OthersStay ==
  ASSUME \/ RetryDue \/ Informer \/ UserEdits \/ UNCHANGED vars
         \/ \E l \in lbs : Activate(l) \/ \E v \in Versions : Drift(l, v)
         \/ \E n \in Names, spec \in NodeSpecs \cup {Absent} : NodeChange(n, spec)
  PROVE  UNCHANGED <<obj, w>>
BY DEF RetryDue, Informer, UserEdits, EditService, vars, process, Activate, Drift, NodeChange

\* Neither worker touches the load balancer for a copy that disowns it.
LEMMA PermittedStep == IndInv /\ Permitted /\ [Next]_vars => Permitted'
<1> SUFFICES ASSUME IndInv, Permitted, [Next]_vars PROVE Permitted'
  OBVIOUS
<1>0. "svc" \in Workers /\ "node" \in Workers
  BY DEF Workers
<1>1. UNCHANGED <<obj, w>> => Permitted'
  BY Zenon DEF Permitted
<1>2. CASE ServiceWorker
  BY ZenonT(60), <1>0, <1>2, QuietPermitted, LookupPermitted, CopyPermitted DEF ServiceWorker
<1>3. CASE NodeWorker
  BY ZenonT(60), <1>0, <1>3, QuietPermitted, LookupPermitted, CopyPermitted DEF NodeWorker
<1>4. CASE ~ServiceWorker /\ ~NodeWorker
  BY ZenonT(60), <1>1, <1>4, CopyPermitted, OthersStay DEF Next, Environment
<1>5. QED
  BY <1>2, <1>3, <1>4

(***************************************************************************)
(* Before the create call nothing refers to a load balancer.               *)
(***************************************************************************)
LEMMA ReferredFrom ==
  ASSUME Referred, nextID' = 1 => nextID = 1, lister' \in {lister, svc},
         nextID = 1 => svc'.id = NoID,
         nextID = 1 => \A p \in Workers :
           /\ w'[p].lb = Nil
           /\ obj'[p] = Nil \/ obj'[p] = lister \/ \E q \in Workers : obj'[p] = obj[q]
  PROVE  Referred'
BY Zenon DEF Referred

\* A worker that only moves.
LEMMA ReferredMoves ==
  ASSUME IndInv, Referred, NEW p \in Workers, NEW c,
         Goto(p, c) \/ \E r : GotoWith(p, c, r),
         UNCHANGED <<lister, obj, nextID>>, nextID = 1 => svc'.id = NoID
  PROVE  Referred'
<1>1. w \in [Workers -> Worker]
  BY DEF IndInv, WorkersOK
<1>2. \A q \in Workers : w'[q].lb = w[q].lb
  BY <1>1 DEF Goto, GotoWith, Worker
<1>3. QED
  BY Zenon, <1>2, ReferredFrom DEF Referred

\* Writing an annotation writes the copy's ID.
LEMMA ReferredPatch ==
  ASSUME IndInv, Referred, nextID = 1, NEW p \in Workers, obj[p] # Nil, patchAnnotation(p)
  PROVE  svc'.id = NoID
<1>1. svc \in Service /\ svc.id = NoID /\ obj[p].id = NoID
  BY DEF IndInv, TypeOK, Referred
<1>2. QED
  BY Zenon, <1>1 DEF patchAnnotation, Service

LEMMA ReferredWorker ==
  ASSUME IndInv, Referred,
         \/ AddFinalizer \/ Status \/ GetPatch \/ RemoveFinalizer \/ ClearStatus \/ DeleteLB
         \/ NodeCheckPatch \/ \E p \in Workers : Patch(p) \/ UpdateLB(p) \/ CallFails(p)
  PROVE  Referred'
<1>0. /\ w \in [Workers -> Worker] /\ "svc" \in Workers /\ "node" \in Workers
      /\ svc \in Service /\ (nextID = 1 => svc.id = NoID)
  BY DEF IndInv, WorkersOK, TypeOK, Workers, Referred
<1>1. CASE AddFinalizer \/ Status \/ RemoveFinalizer \/ ClearStatus \/ DeleteLB
  <2>1. UNCHANGED <<lister, obj, nextID>> /\ \E c : Goto("svc", c) \/ \E r : GotoWith("svc", c, r)
    BY Zenon, <1>1 DEF AddFinalizer, Status, RemoveFinalizer, ClearStatus, DeleteLB, cloud
  <2>2. svc'.id = svc.id
    BY Zenon, <1>0, <1>1 DEF AddFinalizer, Status, RemoveFinalizer, ClearStatus, DeleteLB,
       withoutFinalizer, Service
  <2>3. QED
    BY Zenon, <1>0, <2>1, <2>2, ReferredMoves
<1>2. CASE GetPatch
  <2>1. obj["svc"] # Nil
    BY <1>0, <1>2, WorkerFacts DEF GetPatch, At
  <2>2. UNCHANGED <<lister, obj, nextID>> /\ patchAnnotation("svc")
        /\ \E c : Goto("svc", c) \/ \E r : GotoWith("svc", c, r)
    BY Zenon, <1>2 DEF GetPatch, cloud
  <2>3. QED
    BY Zenon, <1>0, <2>1, <2>2, ReferredPatch, ReferredMoves
<1>3. CASE NodeCheckPatch
  <2>1. obj["node"] # Nil
    BY <1>0, <1>3, WorkerFacts DEF NodeCheckPatch, At
  <2>2. UNCHANGED <<lister, obj, nextID>> /\ patchAnnotation("node") /\ Goto("node", "done")
    BY Zenon, <1>3 DEF NodeCheckPatch, cloud
  <2>3. QED
    BY Zenon, <1>0, <2>1, <2>2, ReferredPatch, ReferredMoves
<1>4. ASSUME NEW p \in Workers, Patch(p) PROVE Referred'
  <2>1. obj[p] # Nil
    BY <1>4, WorkerFacts DEF Patch, At
  <2>2. UNCHANGED <<lister, obj, nextID>> /\ patchAnnotation(p)
    BY Zenon, <1>4 DEF Patch, cloud
  <2>3. \A q \in Workers : w'[q].lb = w[q].lb
    BY <1>0, <1>4 DEF Patch, afterPatch, Workers, Worker
  <2>4. QED
    BY Zenon, <2>1, <2>2, <2>3, ReferredPatch, ReferredFrom DEF Referred
<1>5. ASSUME NEW p \in Workers, UpdateLB(p) PROVE Referred'
  <2>1. UNCHANGED <<svc, lister, obj, nextID>> /\ \E r : GotoWith(p, "patch", r)
    BY Zenon, <1>5 DEF UpdateLB
  <2>2. QED
    BY Zenon, <1>0, <2>1, ReferredMoves
<1>6. ASSUME NEW p \in Workers, CallFails(p) PROVE Referred'
  <2>1. UNCHANGED <<svc, lister, obj, nextID>> /\ GotoWith(p, afterFailure(p), "fail")
    BY Zenon, <1>6 DEF CallFails, cloud
  <2>2. QED
    BY Zenon, <1>0, <2>1, ReferredMoves
<1>7. QED
  BY Zenon, <1>1, <1>2, <1>3, <1>4, <1>5, <1>6

\* A lookup finds nothing then.
LEMMA ReferredLookup ==
  ASSUME IndInv, Referred,
         \/ Ensure \/ CreateLB \/ CreateLost \/ GetLB \/ DeleteRetrieve("delete")
         \/ DeleteRetrieve("deleteCached") \/ NodeCheck \/ \E p \in Workers : Retrieve(p)
  PROVE  Referred'
<1>0. /\ w \in [Workers -> Worker] /\ "svc" \in Workers /\ "node" \in Workers
      /\ nextID = 1 => /\ svc.id = NoID /\ \A p \in Workers : w[p].lb = Nil
                       /\ \A s : retrieveLoadBalancer(s) = {}
  BY DEF IndInv, WorkersOK, OneID, Workers, Referred, retrieveLoadBalancer
<1>1. CASE CreateLB \/ CreateLost
  <2>1. nextID = 1 /\ nextID' = nextID + 1
    BY Zenon, <1>1 DEF CreateLB, CreateLost, At, IndInv, Position
  <2>2. QED
    BY <2>1 DEF Referred
<1>2. ASSUME nextID = 1, Ensure \/ GetLB \/ DeleteRetrieve("delete") \/ DeleteRetrieve("deleteCached")
             \/ NodeCheck
      PROVE  UNCHANGED obj /\ \A p \in Workers : w'[p].lb = Nil
  <2>1. CASE Ensure
    BY Zenon, <1>0, <1>2, <2>1 DEF Ensure, Worker, Workers
  <2>2. CASE GetLB \/ NodeCheck
    BY Zenon, <1>0, <1>2, <2>2 DEF GetLB, NodeCheck, Goto, GotoWith, Worker, Workers
  <2>3. CASE DeleteRetrieve("delete") \/ DeleteRetrieve("deleteCached")
    BY <1>0, <1>2, <2>3 DEF DeleteRetrieve, Goto, Worker, Workers
  <2>4. QED
    BY <1>2, <2>1, <2>2, <2>3
<1>3. CASE Ensure \/ GetLB \/ DeleteRetrieve("delete") \/ DeleteRetrieve("deleteCached") \/ NodeCheck
  <2>1. UNCHANGED <<svc, lister, nextID>>
    BY Zenon, <1>3 DEF Ensure, GetLB, DeleteRetrieve, NodeCheck, cloud
  <2>2. QED
    BY Zenon, <1>0, <1>2, <1>3, <2>1, ReferredFrom
<1>4. ASSUME NEW p \in Workers, Retrieve(p) PROVE Referred'
  <2>1. UNCHANGED <<svc, lister, nextID>>
    BY Zenon, <1>4 DEF Retrieve, cloud
  <2>2. ASSUME nextID = 1 PROVE UNCHANGED obj /\ \A q \in Workers : w'[q].lb = Nil
    <3>1. UNCHANGED obj /\ w' = [w EXCEPT ![p] = afterRetrieve(p, Nil)]
      BY Zenon, <1>0, <1>4, <2>2 DEF Retrieve
    <3>2. QED
      BY Zenon, <1>0, <2>2, <3>1, AfterRetrieve
  <2>3. QED
    BY Zenon, <1>0, <2>1, <2>2, ReferredFrom
<1>5. QED
  BY Zenon, <1>1, <1>3, <1>4

\* A copy that is taken has no ID either.
LEMMA ReferredCopy ==
  ASSUME IndInv, Referred, Dequeue \/ Uncache \/ NodeSync \/ NodeDone \/ Restart \/ Finish
  PROVE  Referred'
<1>0. /\ w \in [Workers -> Worker] /\ obj \in [Workers -> Service \cup {Nil}] /\ Idle.lb = Nil
      /\ nextID = 1 => svc.id = NoID /\ \A p \in Workers : w[p].lb = Nil
  BY Zenon, IdleFacts DEF IndInv, WorkersOK, TypeOK, Referred
<1>1. UNCHANGED <<svc, nextID>> /\ lister' \in {lister, svc}
  BY DEF Dequeue, Uncache, NodeSync, NodeDone, Restart, Finish, cloud
<1>2. nextID = 1 => \A p \in Workers : w'[p].lb = Nil
  <2>1. CASE Dequeue
    BY Zenon, <1>0, <2>1, DequeueMoves DEF Workers
  <2>2. CASE Uncache
    BY <1>0, <2>2 DEF Uncache, GotoWith, Worker, Workers
  <2>3. CASE NodeSync
    BY Zenon, <1>0, <2>3 DEF NodeSync, Idle, Workers
  <2>4. CASE NodeDone \/ Restart \/ Finish
    BY <1>0, <2>4 DEF NodeDone, Restart, Finish, Workers
  <2>5. QED
    BY Zenon, <2>1, <2>2, <2>3, <2>4
<1>3. \A p \in Workers : obj'[p] = Nil \/ obj'[p] = lister \/ \E q \in Workers : obj'[p] = obj[q]
  <2>1. CASE Dequeue \/ Uncache \/ Finish
    BY Zenon, <1>0, <2>1 DEF Dequeue, Uncache, Finish, Workers
  <2>2. CASE NodeSync \/ NodeDone \/ Restart
    BY Zenon, <1>0, <2>2 DEF NodeSync, NodeDone, Restart, Workers
  <2>3. QED
    BY Zenon, <2>1, <2>2
<1>4. QED
  BY Zenon, <1>0, <1>1, <1>2, <1>3, ReferredFrom

\* The ID of a load balancer is known only once it has been created.
LEMMA ReferredStep == IndInv /\ Referred /\ [Next]_vars => Referred'
<1> SUFFICES ASSUME IndInv, Referred, [Next]_vars PROVE Referred'
  OBVIOUS
<1>0. "svc" \in Workers /\ "node" \in Workers
  BY DEF Workers
<1>1. CASE ServiceWorker
  BY ZenonT(60), <1>0, <1>1, ReferredWorker, ReferredLookup, ReferredCopy DEF ServiceWorker
<1>2. CASE NodeWorker
  BY ZenonT(60), <1>0, <1>2, ReferredWorker, ReferredLookup, ReferredCopy DEF NodeWorker
<1>3. ASSUME \/ RetryDue \/ Informer \/ UserEdits \/ UNCHANGED vars
             \/ \E l \in lbs : Activate(l) \/ \E v \in Versions : Drift(l, v)
             \/ \E n \in Names, spec \in NodeSpecs \cup {Absent} : NodeChange(n, spec)
      PROVE  Referred'
  <2>1. UNCHANGED <<obj, w>>
    BY Zenon, <1>3, OthersStay
  <2>2. UNCHANGED nextID /\ lister' \in {lister, svc}
    BY <1>3 DEF RetryDue, Informer, UserEdits, EditService, vars, cloud, process, Activate, Drift,
       NodeChange
  <2>3. svc'.id = svc.id
    <3>1. svc \in Service
      BY DEF IndInv, TypeOK
    <3>2. CASE UserEdits
      BY Zenon, <3>1, <3>2 DEF UserEdits, EditService, Service
    <3>3. CASE ~UserEdits
      BY <1>3, <3>3 DEF RetryDue, Informer, vars, Activate, Drift, NodeChange
    <3>4. QED
      BY Zenon, <3>2, <3>3
  <2>4. QED
    BY Zenon, <2>1, <2>2, <2>3, ReferredFrom DEF Referred
<1>4. CASE ~ServiceWorker /\ ~NodeWorker
  BY ZenonT(60), <1>3, <1>4, ReferredCopy DEF Next, Environment
<1>5. QED
  BY <1>1, <1>2, <1>4

(***************************************************************************)
(* The steps of LBPromise.                                                 *)
(***************************************************************************)
\* What is not seen, or is a failed call or a change of the nodes.
LEMMA Unseen ==
  ASSUME UNCHANGED <<svc, lister, Copies, lbs, nextID>>
  PROVE  [Promise!Next]_(Promise!vars)
<1>1. CASE disturbed'.times = disturbed.times
  BY <1>1 DEF Promise!vars
<1>2. CASE disturbed'.times # disturbed.times
  <2>1. Promise!Edit
    BY <1>2 DEF Promise!Edit
  <2>2. QED
    BY <2>1 DEF Promise!Next
<1>3. QED
  BY <1>1, <1>2

\* The copies ask for the same as long as the objects do not change, and writing
\* an ID into them is not seen.
LEMMA CopiesStay ==
  /\ UNCHANGED obj => UNCHANGED Copies
  /\ TypeOK => \A p \in Workers, id \in IDs :
                 obj[p] # Nil /\ updateServiceAnnotation(p, id) => UNCHANGED Copies
<1>1. UNCHANGED obj => UNCHANGED Copies
  BY DEF Copies
<1>2. ASSUME TypeOK, NEW p \in Workers, NEW id \in IDs, obj[p] # Nil, updateServiceAnnotation(p, id)
      PROVE  UNCHANGED Copies
  <2> SUFFICES ASSUME NEW q \in Workers PROVE Copies'[q] = Copies[q]
    BY Zenon DEF Copies
  <2>1. obj'[q] = IF q = p \/ aliased THEN [obj[q] EXCEPT !.id = id] ELSE obj[q]
    BY <1>2 DEF updateServiceAnnotation
  <2>2. CASE q = p \/ aliased
    <3>1. obj[q] \in Service /\ obj[q] # Nil
      BY <1>2, <2>2 DEF TypeOK, Workers
    <3>2. /\ obj'[q] \in Service /\ obj'[q].name = obj[q].name
          /\ obj'[q].config = obj[q].config /\ obj'[q].disown = obj[q].disown
      BY Zenon, <2>1, <2>2, <3>1 DEF Service
    <3>3. obj'[q] # Nil
      BY <3>2, ServiceAssumption
    <3>4. QED
      BY Zenon, <3>1, <3>2, <3>3 DEF Copies
  <2>3. CASE ~(q = p \/ aliased)
    BY Zenon, <2>1, <2>3 DEF Copies
  <2>4. QED
    BY <2>2, <2>3
<1>3. QED
  BY Zenon, <1>1, <1>2

\* Lookups, decisions and failures are not seen.
LEMMA HiddenSteps ==
  ASSUME IndInv,
         \/ Ensure \/ GetLB \/ DeleteRetrieve("delete") \/ DeleteRetrieve("deleteCached") \/ Finish
         \/ NodeCheck \/ RetryDue \/ UNCHANGED vars \/ \E p \in Workers : Retrieve(p) \/ CallFails(p)
         \/ \E n \in Names, spec \in NodeSpecs \cup {Absent} : NodeChange(n, spec)
  PROVE  [Promise!Next]_(Promise!vars)
<1>0. "svc" \in Workers /\ "node" \in Workers /\ TypeOK
  BY DEF Workers, IndInv
<1>1. ASSUME NEW p \in Workers, obj[p] # Nil,
             \E l \in retrieveLoadBalancer(obj[p]) : updateServiceAnnotation(p, l.id)
      PROVE  UNCHANGED Copies
  <2>1. PICK l \in retrieveLoadBalancer(obj[p]) : updateServiceAnnotation(p, l.id)
    BY <1>1
  <2>2. l.id \in IDs
    BY Zenon, RetrievesIt
  <2>3. QED
    BY Zenon, <1>0, <1>1, <2>1, <2>2, CopiesStay
<1>2. UNCHANGED <<svc, lister, lbs, nextID>>
  BY ZenonT(60) DEF Ensure, GetLB, DeleteRetrieve, Finish, NodeCheck, RetryDue, vars, Retrieve,
     CallFails, NodeChange, cloud
<1>3. UNCHANGED obj \/ \E p \in Workers :
        /\ w[p].pc \in {"retrieve", "getLB", "check"}
        /\ \E l \in retrieveLoadBalancer(obj[p]) : updateServiceAnnotation(p, l.id)
  BY ZenonT(60), <1>0 DEF Ensure, GetLB, DeleteRetrieve, Finish, NodeCheck, RetryDue, vars, Retrieve,
     CallFails, NodeChange, At
<1>4. UNCHANGED Copies
  BY <1>1, <1>3, CopiesStay, WorkerFacts
<1>5. QED
  BY Zenon, <1>2, <1>4, Unseen

\* Copies are taken from the informer or from the other worker, or dropped.
LEMMA CopySteps ==
  ASSUME IndInv, Dequeue \/ Uncache \/ NodeSync \/ NodeDone \/ Restart \/ Informer
  PROVE  [Promise!Next]_(Promise!vars)
<1>0. /\ obj \in [Workers -> Service \cup {Nil}] /\ lister \in Service /\ lister # Nil
      /\ DOMAIN Copies = Workers /\ "svc" \in Workers /\ "node" \in Workers
  BY ServiceAssumption DEF IndInv, TypeOK, Copies, Workers
<1>1. ASSUME NEW p \in Workers, NEW a \in {{Promise!Asks(lister)}, {}} \cup {Copies[q] : q \in Workers},
             Copies' = [Copies EXCEPT ![p] = a], UNCHANGED <<svc, lister, lbs, nextID, disturbed>>
      PROVE  Promise!Next
  <2>1. Promise!Hold(p)
    BY Zenon, <1>0, <1>1 DEF Promise!Hold
  <2>2. QED
    BY Zenon, <1>0, <2>1 DEF Promise!Next
<1>2. ASSUME NEW p \in Workers, NEW s, obj' = [obj EXCEPT ![p] = s]
      PROVE  Copies' = [Copies EXCEPT ![p] = IF s = Nil THEN {} ELSE {Promise!Asks(s)}]
  BY ZenonT(60), <1>0, <1>2 DEF Copies, Promise!Asks
<1>3. CASE Dequeue
  <2>1. UNCHANGED <<svc, lister, lbs, nextID, disturbed>>
    BY Zenon, <1>3 DEF Dequeue, cloud
  <2>2. CASE UNCHANGED obj
    BY Zenon, <2>1, <2>2, CopiesStay, Unseen
  <2>3. CASE ~UNCHANGED obj
    <3>1. obj' = [obj EXCEPT !["svc"] = lister]
      BY Zenon, <1>3, <2>3 DEF Dequeue
    <3>2. Copies' = [Copies EXCEPT !["svc"] = {Promise!Asks(lister)}]
      BY Zenon, <1>0, <1>2, <3>1
    <3>3. QED
      BY Zenon, <1>0, <1>1, <2>1, <3>2
  <2>4. QED
    BY <2>2, <2>3
<1>4. ASSUME NEW p \in Workers, obj' = [obj EXCEPT ![p] = Nil],
             UNCHANGED <<svc, lister, lbs, nextID, disturbed>>
      PROVE  Promise!Next
  <2>1. Copies' = [Copies EXCEPT ![p] = {}]
    BY Zenon, <1>2, <1>4
  <2>2. QED
    BY Zenon, <1>1, <1>4, <2>1
<1>5. CASE Uncache \/ NodeDone
  BY Zenon, <1>0, <1>4, <1>5 DEF Uncache, NodeDone, cloud
<1>6. CASE NodeSync
  <2>1. UNCHANGED <<svc, lister, lbs, nextID, disturbed>>
    BY Zenon, <1>6 DEF NodeSync, cloud
  <2>2. CASE UNCHANGED obj
    BY Zenon, <2>1, <2>2, CopiesStay, Unseen
  <2>3. CASE ~UNCHANGED obj
    <3>1. obj' = [obj EXCEPT !["node"] = obj["svc"]] /\ obj["svc"] # Nil
      BY Zenon, <1>6, <2>3 DEF NodeSync
    <3>2. Copies' = [Copies EXCEPT !["node"] = {Promise!Asks(obj["svc"])}]
      BY Zenon, <1>0, <1>2, <3>1
    <3>3. Copies["svc"] = {Promise!Asks(obj["svc"])}
      BY Zenon, <1>0, <3>1 DEF Copies, Promise!Asks
    <3>4. QED
      BY Zenon, <1>0, <1>1, <2>1, <3>2, <3>3
  <2>4. QED
    BY <2>2, <2>3
<1>7. CASE Restart
  <2>1. Copies' = [p \in Workers |-> {}]
    BY Zenon, <1>7 DEF Restart, Copies
  <2>2. Promise!Crash
    BY <1>0, <1>7, <2>1 DEF Restart, Promise!Crash, cloud
  <2>3. QED
    BY Zenon, <2>2 DEF Promise!Next
<1>8. CASE Informer
  <2>1. Promise!Learn
    BY Zenon, <1>8, CopiesStay DEF Informer, Promise!Learn, cloud
  <2>2. QED
    BY Zenon, <2>1 DEF Promise!Next
<1>9. QED
  BY Zenon, <1>3, <1>5, <1>6, <1>7, <1>8

\* What is written to the Service.
LEMMA ServiceSteps ==
  ASSUME IndInv, Referred,
         \/ AddFinalizer \/ Status \/ GetPatch \/ RemoveFinalizer \/ ClearStatus \/ NodeCheckPatch
         \/ UserEdits \/ \E p \in Workers : Patch(p)
  PROVE  [Promise!Next]_(Promise!vars)
<1>0. /\ svc \in Service /\ "svc" \in Workers /\ "node" \in Workers /\ nextID \in {1, 2}
      /\ ~ensurable(lister) => ~Promise!Wants(svc)
  BY DEF IndInv, TypeOK, Workers, OneID, Wanted, ensurable, Promise!Wants
<1>1. UNCHANGED <<lister, Copies, lbs, nextID>>
  <2>1. UNCHANGED <<lister, obj, lbs, nextID>>
    BY ZenonT(60) DEF AddFinalizer, Status, GetPatch, RemoveFinalizer, ClearStatus, NodeCheckPatch,
       UserEdits, EditService, Patch, cloud, process
  <2>2. QED
    BY Zenon, <2>1, CopiesStay
<1>2. UNCHANGED svc => [Promise!Next]_(Promise!vars)
  BY Zenon, <1>1, Unseen
<1>3. ASSUME UNCHANGED disturbed, NEW id, id = 1, nextID = 2,
             svc' \in {[svc EXCEPT !.id = id], [svc EXCEPT !.status = id]}
      PROVE  Promise!Next
  <2>1. id \in 1..(nextID - 1)
    BY <1>3
  <2>2. Promise!Refer
    BY Zenon, <1>1, <1>3, <2>1 DEF Promise!Refer
  <2>3. QED
    BY Zenon, <2>2 DEF Promise!Next
<1>4. ASSUME NEW p \in Workers, obj[p] # Nil, patchAnnotation(p), UNCHANGED disturbed
      PROVE  [Promise!Next]_(Promise!vars)
  <2>1. CASE UNCHANGED svc
    BY Zenon, <1>2, <2>1
  <2>2. CASE ~UNCHANGED svc
    <3>1. svc' = [svc EXCEPT !.id = obj[p].id] /\ obj[p].id # w[p].base
      BY Zenon, <1>4, <2>2 DEF patchAnnotation
    <3>2. obj[p].id = 1
      BY Zenon, <1>4, <3>1 DEF IndInv, OneID, WorkersOK, BaseOK
    <3>3. nextID = 2
      BY <1>0, <1>4, <3>2 DEF Referred, NoID
    <3>4. QED
      BY Zenon, <1>3, <1>4, <3>1, <3>2, <3>3
  <2>3. QED
    BY <2>1, <2>2
<1>5. ASSUME \/ GetPatch \/ NodeCheckPatch \/ \E p \in Workers : Patch(p)
      PROVE  [Promise!Next]_(Promise!vars)
  <2>1. PICK p \in Workers : /\ w[p].pc \in {"patch", "getPatch", "checkPatch"} /\ patchAnnotation(p)
                             /\ UNCHANGED disturbed
    BY ZenonT(60), <1>0, <1>5 DEF GetPatch, NodeCheckPatch, Patch, At
  <2>2. obj[p] # Nil
    BY <2>1, WorkerFacts
  <2>3. QED
    BY Zenon, <1>4, <2>1, <2>2
<1>6. CASE AddFinalizer
  <2>1. CASE UNCHANGED svc
    BY Zenon, <1>2, <2>1
  <2>2. CASE ~UNCHANGED svc
    <3>1. Promise!Guard
      BY Zenon, <1>1, <1>6, <2>2 DEF AddFinalizer, Promise!Guard
    <3>2. QED
      BY Zenon, <3>1 DEF Promise!Next
  <2>3. QED
    BY <2>1, <2>2
<1>7. CASE Status
  <2>1. w["svc"].lb # Nil /\ w["svc"].lb.id = 1
    BY Zenon, <1>0, <1>7 DEF Status, At, IndInv, TypeOK, WorkersOK
  <2>2. nextID = 2
    BY <1>0, <2>1 DEF Referred
  <2>3. UNCHANGED svc \/ svc' = [svc EXCEPT !.status = 1]
    BY Zenon, <1>7, <2>1 DEF Status
  <2>4. QED
    BY Zenon, <1>2, <1>3, <1>7, <2>2, <2>3 DEF Status
<1>8. CASE RemoveFinalizer
  <2>1. ~Promise!Wants(svc) /\ (lbs = {} \/ svc.disown)
    BY Zenon, <1>0, <1>8 DEF RemoveFinalizer, IndInv, Position, CleanupPCs, At
  <2>2. CASE UNCHANGED svc
    BY Zenon, <1>2, <2>2
  <2>3. CASE ~UNCHANGED svc
    <3>1. svc' = withoutFinalizer(svc) /\ UNCHANGED disturbed
      BY Zenon, <1>8, <2>3 DEF RemoveFinalizer
    <3>2. Promise!Release
      BY Zenon, <1>1, <2>1, <3>1 DEF withoutFinalizer, Promise!Release
    <3>3. QED
      BY Zenon, <3>2 DEF Promise!Next
  <2>4. QED
    BY <2>2, <2>3
<1>9. CASE ClearStatus
  <2>1. ~Promise!Wants(svc)
    BY <1>0, <1>9 DEF ClearStatus, IndInv, Position, CleanupPCs, At
  <2>2. CASE UNCHANGED svc
    BY Zenon, <1>2, <2>2
  <2>3. CASE ~UNCHANGED svc
    <3>1. svc' = [svc EXCEPT !.status = 0] /\ UNCHANGED disturbed
      BY Zenon, <1>9, <2>3 DEF ClearStatus, NoID
    <3>2. Promise!Unpublish
      BY Zenon, <1>1, <2>1, <3>1 DEF Promise!Unpublish
    <3>3. QED
      BY Zenon, <3>2 DEF Promise!Next
  <2>4. QED
    BY <2>2, <2>3
<1>10. CASE UserEdits
  <2>1. disturbed'.times # disturbed.times
    BY <1>10 DEF UserEdits, EditService, Disturb, IndInv, TypeOK
  <2>2. svc'.finalizer = svc.finalizer /\ svc'.id = svc.id /\ svc'.status = svc.status
    BY <1>0, <1>10 DEF UserEdits, EditService, Service
  <2>3. Promise!Edit
    BY Zenon, <1>1, <2>1, <2>2 DEF Promise!Edit
  <2>4. QED
    BY Zenon, <2>3 DEF Promise!Next
<1>11. QED
  BY Zenon, <1>5, <1>6, <1>7, <1>8, <1>9, <1>10

\* What is written to the load balancer.
LEMMA CloudSteps ==
  ASSUME IndInv, Permitted,
         \/ CreateLB \/ CreateLost \/ DeleteLB \/ \E p \in Workers : UpdateLB(p)
         \/ \E l \in lbs : Activate(l) \/ \E v \in Versions : Drift(l, v)
  PROVE  [Promise!Next]_(Promise!vars)
<1>0. /\ "svc" \in Workers /\ "node" \in Workers /\ lbs \subseteq LB /\ DOMAIN Copies = Workers
      /\ \A l \in lbs : l.id = 1 /\ lbs = {l}
      /\ ~ensurable(lister) => ~Promise!Wants(svc)
  BY DEF IndInv, TypeOK, Workers, OneID, Copies, Wanted, ensurable, Promise!Wants
<1>1. ASSUME NEW p \in Workers, w[p].pc \in Touching
      PROVE  /\ obj[p] # Nil /\ obj[p] \in Service
             /\ Promise!Asks(obj[p]) \in Promise!Permits(p)
  <2>1. obj[p] # Nil /\ obj[p] \in Service /\ ~obj[p].disown
    BY <1>1, WorkerFacts DEF Permitted, Touching
  <2>2. Copies[p] = {Promise!Asks(obj[p])}
    BY Zenon, <2>1 DEF Copies, Promise!Asks
  <2>3. ~Promise!Asks(obj[p]).disown
    BY <2>1 DEF Promise!Asks
  <2>4. QED
    BY Zenon, <2>1, <2>2, <2>3 DEF Promise!Permits
<1>2. CASE CreateLB \/ CreateLost
  <2> DEFINE a == Promise!Asks(obj["svc"])
             l == newLB(obj["svc"], request("svc", Nil).droplets)
  <2>1. At("svc", "create") /\ nextID = 1 /\ lbs = {} /\ svc.finalizer
    BY Zenon, <1>2 DEF CreateLB, CreateLost, At, IndInv, Position, OneID, EnsurePCs
  <2>2. obj["svc"] # Nil /\ obj["svc"] \in Service /\ a \in Promise!Permits("svc")
    BY Zenon, <1>0, <1>1, <2>1 DEF At, Touching
  <2>3. lbs' = {l} /\ nextID' = 2 /\ UNCHANGED <<svc, lister>>
    BY <1>2, <2>1 DEF CreateLB, CreateLost
  <2>4. l.name = a.name /\ l.config = a.config
    BY DEF newLB, Promise!Asks
  <2>5. UNCHANGED Copies
    <3>1. CASE CreateLB
      <4>1. 1 \in IDs /\ updateServiceAnnotation("svc", 1)
        BY <2>1, <3>1, ServiceAssumption DEF CreateLB, IDs
      <4>2. QED
        BY Zenon, <1>0, <2>2, <4>1, CopiesStay DEF IndInv
    <3>2. CASE CreateLost
      BY Zenon, <3>2, CopiesStay DEF CreateLost
    <3>3. QED
      BY <1>2, <3>1, <3>2
  <2>6. nextID - 1 = 0 /\ nextID' - 1 = 1
    BY <2>1, <2>3
  <2>7. Promise!Create
    <3>1. l \in lbs'
      BY <2>3
    <3> HIDE DEF a, l
    <3>2. QED
      BY Zenon, <2>1, <2>2, <2>3, <2>4, <2>5, <2>6, <3>1 DEF Promise!Create
  <2>8. QED
    BY Zenon, <2>7 DEF Promise!Next
<1>3. CASE DeleteLB
  <2>1. w["svc"].pc \in Touching /\ w["svc"].pc \in CleanupPCs
    BY Zenon, <1>3 DEF DeleteLB, Touching, CleanupPCs
  <2>2. ~Promise!Wants(svc) /\ Promise!Permits("svc") # {}
    BY Zenon, <1>0, <1>1, <2>1 DEF IndInv, Position
  <2>3. lbs' = {}
    <3>1. w["svc"].lb # Nil /\ w["svc"].lb.id = 1
      BY <1>0, <1>3 DEF DeleteLB, IndInv, TypeOK, WorkersOK
    <3>2. QED
      BY Zenon, <1>0, <1>3, <3>1 DEF DeleteLB
  <2>4. UNCHANGED <<svc, lister, Copies, nextID, disturbed>>
    BY Zenon, <1>3, CopiesStay DEF DeleteLB
  <2>5. Promise!Delete
    BY Zenon, <2>2, <2>3, <2>4 DEF Promise!Delete
  <2>6. QED
    BY Zenon, <2>5 DEF Promise!Next
<1>4. ASSUME NEW p \in Workers, UpdateLB(p) PROVE [Promise!Next]_(Promise!vars)
  <2>1. w[p].pc \in Touching /\ w[p].lb # Nil /\ w[p].lb.id = 1
    BY Zenon, <1>4 DEF UpdateLB, At, Touching, IndInv, TypeOK, WorkersOK
  <2>2. UNCHANGED <<svc, lister, Copies, nextID, disturbed>>
    BY Zenon, <1>4, CopiesStay DEF UpdateLB
  <2>3. CASE lbs = {}
    <3>1. lbs' = lbs
      BY <1>4, <2>3 DEF UpdateLB
    <3>2. QED
      BY Zenon, <2>2, <3>1, Unseen
  <2>4. CASE lbs # {}
    <3>1. PICK l \in lbs : l \in LB /\ l.id = 1 /\ lbs = {l}
      BY Zenon, <1>0, <2>4
    <3> DEFINE m == [l EXCEPT !.name = obj[p].name, !.config = obj[p].config,
                              !.droplets = request(p, w[p].lb).droplets]
               a == Promise!Asks(obj[p])
    <3>2. lbs' = (lbs \ {l}) \cup {m}
      <4>1. {k \in lbs : k.id = w[p].lb.id} = {l}
        BY <2>1, <3>1
      <4>2. QED
        BY Zenon, <1>4, <4>1 DEF UpdateLB
    <3>3. m.id = l.id /\ m.status = l.status /\ m.name = a.name /\ m.config = a.config
      BY <3>1 DEF LB, Promise!Asks
    <3>4. a \in Promise!Permits(p) /\ m \in lbs'
      BY <1>1, <2>1, <3>2
    <3> HIDE DEF a, m
    <3>5. Promise!Configure(p)
      BY Zenon, <2>2, <3>1, <3>2, <3>3, <3>4 DEF Promise!Configure
    <3>6. QED
      BY Zenon, <1>0, <3>5 DEF Promise!Next
  <2>5. QED
    BY Zenon, <2>3, <2>4
<1>5. ASSUME NEW l \in lbs, Activate(l) \/ \E v \in Versions : Drift(l, v)
      PROVE  Promise!Next
  <2>1. UNCHANGED <<svc, lister, Copies, nextID>>
    BY Zenon, <1>5, CopiesStay DEF Activate, Drift, process
  <2>2. \E m \in lbs' : /\ lbs' = (lbs \ {l}) \cup {m} /\ m.id = l.id /\ m.name = l.name
                        /\ disturbed'.times = disturbed.times => m.config = l.config
    <3>0. l \in LB
      BY <1>0
    <3>1. CASE Activate(l)
      <4> DEFINE m == [l EXCEPT !.status = "active"]
      <4>1. m.id = l.id /\ m.name = l.name /\ m.config = l.config
        BY <3>0 DEF LB
      <4>2. lbs' = (lbs \ {l}) \cup {m}
        BY Zenon, <3>1 DEF Activate
      <4> HIDE DEF m
      <4>3. m \in lbs'
        BY Zenon, <4>2
      <4>4. QED
        BY Zenon, <4>1, <4>2, <4>3
    <3>2. ASSUME NEW v \in Versions, Drift(l, v)
          PROVE  /\ disturbed'.times # disturbed.times
                 /\ lbs' = (lbs \ {l}) \cup {[l EXCEPT !.config = v]}
      BY <3>2 DEF Drift, Disturb, IndInv, TypeOK
    <3>3. ASSUME NEW v PROVE [l EXCEPT !.config = v].id = l.id /\ [l EXCEPT !.config = v].name = l.name
      BY <3>0 DEF LB
    <3>4. QED
      BY ZenonT(60), <1>5, <3>1, <3>2, <3>3
  <2>3. Promise!Cloud
    BY Zenon, <2>1, <2>2 DEF Promise!Cloud
  <2>4. QED
    BY Zenon, <2>3 DEF Promise!Next
<1>6. QED
  BY Zenon, <1>2, <1>3, <1>4, <1>5

\* Every step is a step of LBPromise or is not seen there.
LEMMA PromiseStep == IndInv /\ Permitted /\ Referred /\ [Next]_vars => [Promise!Next]_(Promise!vars)
<1> SUFFICES ASSUME IndInv, Permitted, Referred, [Next]_vars PROVE [Promise!Next]_(Promise!vars)
  OBVIOUS
<1>0. "svc" \in Workers /\ "node" \in Workers
  BY DEF Workers
<1>1. CASE ServiceWorker
  BY ZenonT(60), <1>0, <1>1, HiddenSteps, CopySteps, ServiceSteps, CloudSteps DEF ServiceWorker
<1>2. CASE NodeWorker
  BY ZenonT(60), <1>0, <1>2, HiddenSteps, CopySteps, ServiceSteps, CloudSteps DEF NodeWorker
<1>3. CASE ~ServiceWorker /\ ~NodeWorker
  BY ZenonT(60), <1>3, HiddenSteps, CopySteps, ServiceSteps, CloudSteps DEF Next, Environment
<1>4. QED
  BY <1>1, <1>2, <1>3

\* The two workers, however they interleave, share their object, fail and start
\* again, do no more than LBPromise says, for every configuration: one creation,
\* whole writes on behalf of a copy that does not disown the load balancer,
\* deletion only once the Service itself has stopped asking for it.
THEOREM Refinement == Spec => KeepsPromise
<1>1. Init => Promise!Init /\ Permitted /\ Referred
  <2> SUFFICES ASSUME Init PROVE Promise!Init /\ Permitted /\ Referred
    OBVIOUS
  <2>1. /\ obj = [p \in Workers |-> Nil] /\ w = [p \in Workers |-> Idle] /\ lbs = {} /\ nextID = 1
        /\ lister = svc
    BY Zenon DEF Init
  <2>2. svc.id = NoID
    BY DEF Init
  <2>3. Copies = [p \in Workers |-> {}] /\ nextID - 1 = 0
    BY <2>1 DEF Copies
  <2>4. Promise!Init
    BY Zenon, <2>1, <2>3 DEF Promise!Init
  <2>5. Permitted /\ Referred
    BY <2>1, <2>2, IdleFacts DEF Permitted, Referred, Touching
  <2>6. QED
    BY <2>4, <2>5
<1>2. QED
  BY <1>1, Inductive, PermittedStep, ReferredStep, PromiseStep, PTL DEF Spec, KeepsPromise, Promise!Spec
==============================================================================
