--------------------------- MODULE LBServiceSteps ---------------------------
(***************************************************************************)
(* The inductive invariant of LBService, the lemmas about the model's      *)
(* operators, and that the workers' calls keep the invariant.              *)
(***************************************************************************)
EXTENDS LBService, TLAPS

(***************************************************************************)
(* The workers' states.                                                    *)
(***************************************************************************)
\* The pass that ensures the load balancer, once the finalizer is there.
EnsurePCs == {"ensure", "retrieve", "create", "update", "patch", "status"}

CleanupPCs == {"getLB", "getPatch", "delete", "deleteCached", "deleteLB", "deleteCachedLB",
               "removeFinalizer", "clearStatus", "uncache"}

SvcPCs  == EnsurePCs \cup CleanupPCs \cup {"idle", "addFinalizer", "finish"}
NodePCs == {"idle", "retrieve", "update", "patch", "check", "checkPatch", "done"}

NodeLists == UNION {[S -> NodeSpecs] : S \in SUBSET Names}

Worker == [pc : SvcPCs \cup NodePCs, base : IDs \cup {NoID}, lb : LB \cup {Nil},
           list : NodeLists, result : {"ok", "retry", "fail"}]

\* A worker whose object has no ID started without one.
BaseOK == \A p \in Workers : obj[p] # Nil /\ obj[p].id = NoID => w[p].base = NoID

\* Where each worker may be, and that it has the objects it works on.
WorkersOK ==
  /\ w \in [Workers -> Worker] /\ aliased \in BOOLEAN
  /\ w["svc"].pc \in SvcPCs /\ w["node"].pc \in NodePCs
  /\ w["svc"].pc \notin {"idle", "uncache", "finish"} => obj["svc"] # Nil
  /\ w["node"].pc # "idle" => obj["node"] # Nil
  /\ At("svc", "patch") /\ w["svc"].result = "ok" => w["svc"].lb # Nil
  /\ \A p \in Workers : w[p].lb # Nil => w[p].lb.id = 1
  /\ BaseOK

(***************************************************************************)
(* The inductive invariant.                                                *)
(***************************************************************************)
\* There is one ID, and nothing refers to another.
OneID ==
  /\ nextID \in {1, 2}
  /\ svc.id \in {NoID, 1} /\ lister.id \in {NoID, 1}
  /\ \A p \in Workers : obj[p] # Nil => obj[p].id \in {NoID, 1}
  /\ \A l \in lbs : l.id = 1
  /\ \A l, m \in lbs : l = m
  /\ nextID = 1 => lbs = {}

\* A name that comes with no ID is the name that every older copy and the load
\* balancer itself have: renaming waits for the ID.
Named(name) ==
  /\ obj["node"] # Nil => obj["node"].name = name
  /\ \A l \in lbs : l.name = name

NamesAgree ==
  /\ svc.id = NoID => lister.id = NoID /\ lister.name = svc.name
  /\ lister.id = NoID =>
       /\ Named(lister.name)
       /\ obj["svc"] # Nil => obj["svc"].name = lister.name
  /\ obj["svc"] # Nil /\ obj["svc"].id = NoID => Named(obj["svc"].name)

\* The Service still asks for a load balancer.
ensurable(s) == s.phase = "live" /\ s.lb

\* What the copies say holds of the Service as well, and the load balancer has
\* been deleted only once the informer has seen that it is not wanted.
Wanted ==
  /\ ~ensurable(lister) => ~ensurable(svc)
  /\ lister.disown => svc.disown
  /\ obj["svc"] # Nil /\ obj["svc"].disown => svc.disown
  /\ nextID = 2 /\ lbs = {} => ~ensurable(lister)

\* The finalizer goes only with, or after, the load balancer.
Finalizers ==
  /\ svc.phase = "deleting" => svc.finalizer
  /\ lister.phase = "deleting" => lister.finalizer
  /\ ensurable(lister) /\ lister.finalizer => svc.finalizer
  /\ FinalizerGuards

\* What the service worker may rely on where it is.
Position ==
  /\ w["svc"].pc \in CleanupPCs => ~ensurable(lister)
  /\ w["svc"].pc \in {"addFinalizer", "ensure", "retrieve"} => nextID = 1 \/ lbs # {}
  /\ At("svc", "create") => nextID = 1
  /\ At("svc", "addFinalizer") /\ obj["svc"].finalizer => svc.finalizer
  /\ w["svc"].pc \in EnsurePCs => svc.finalizer
  /\ At("svc", "removeFinalizer") => lbs = {} \/ svc.disown

IndInv == TypeOK /\ WorkersOK /\ OneID /\ NamesAgree /\ Wanted /\ Finalizers /\ Position

------------------------------------------------------------------------------
(***************************************************************************)
(* The workers' records.                                                   *)
(***************************************************************************)
LEMMA Lists == <<>> \in NodeLists /\ (TypeOK => listed \in NodeLists)
<1>1. <<>> = [i \in 1..0 |-> i] /\ 1..0 = {}
  OBVIOUS
<1>2. <<>> \in NodeLists
  BY Zenon, <1>1 DEF NodeLists
<1>3. ASSUME TypeOK PROVE listed \in NodeLists
  <2> DEFINE S == {m \in Names : nodes[m] # Absent}
  <2>1. listed \in [S -> NodeSpecs]
    BY <1>3 DEF TypeOK, listed
  <2>2. QED
    BY <2>1 DEF NodeLists
<1>4. QED
  BY <1>2, <1>3

\* A worker that starts.
LEMMA IdleFacts ==
  /\ Idle \in Worker /\ Idle.pc = "idle" /\ Idle.lb = Nil /\ Idle.result = "ok"
  /\ Idle.base = NoID
BY Lists DEF Idle, Worker, SvcPCs

\* A request names nodes of the cluster only.
LEMMA RequestFacts ==
  ASSUME WorkersOK, NEW p \in Workers, NEW lb
  PROVE  /\ request(p, lb).droplets \subseteq Names
         /\ writtenResult(p, lb) \in {"ok", "retry"}
<1>0. w[p].list \in NodeLists
  BY DEF WorkersOK, Worker
<1>1. PICK S \in SUBSET Names : w[p].list \in [S -> NodeSpecs]
  BY Zenon, <1>0 DEF NodeLists
<1>2. DOMAIN w[p].list \subseteq Names
  BY Zenon, <1>1
<1>3. request(p, lb).droplets \subseteq DOMAIN w[p].list
  BY DEF request, buildLoadBalancerRequest, Failed, Outcome, nodesToDropletIDs, admit,
         lbReadyNodes, singleStackV4Nodes, dualStackNodes, ofClass
<1>4. QED
  BY <1>2, <1>3 DEF writtenResult, retryIfNodesPendingInit

\* A worker that moves on with a result changes nothing else it holds.
LEMMA GotoWithFacts ==
  ASSUME WorkersOK, NEW p \in Workers, NEW pc \in SvcPCs \cup NodePCs,
         NEW r \in {"ok", "retry", "fail"}, GotoWith(p, pc, r)
  PROVE  /\ w' \in [Workers -> Worker]
         /\ w'[p].pc = pc /\ w'[p].lb = w[p].lb /\ w'[p].result = r
         /\ \A q \in Workers : w'[q].base = w[q].base
         /\ \A q \in Workers \ {p} : w'[q] = w[q]
BY ZenonT(60) DEF WorkersOK, GotoWith, Worker

\* So does one that keeps its result.
LEMMA GotoFacts ==
  ASSUME WorkersOK, NEW p \in Workers, NEW pc \in SvcPCs \cup NodePCs, Goto(p, pc)
  PROVE  /\ w' \in [Workers -> Worker]
         /\ w'[p].pc = pc /\ w'[p].lb = w[p].lb /\ w'[p].result = w[p].result
         /\ \A q \in Workers : w'[q].base = w[q].base
         /\ \A q \in Workers \ {p} : w'[q] = w[q]
BY DEF WorkersOK, Goto, Worker

------------------------------------------------------------------------------
(***************************************************************************)
(* Steps that change no more than IDs of the workers' objects.             *)
(***************************************************************************)
\* The workers' objects as they are or with the ID filled in.
Relabelled ==
  \A q \in Workers :
    /\ obj[q] = Nil <=> obj'[q] = Nil
    /\ obj[q] # Nil => /\ obj'[q].id \in {obj[q].id, 1}
                       /\ obj'[q].name = obj[q].name /\ obj'[q].disown = obj[q].disown
                       /\ obj'[q].finalizer = obj[q].finalizer

\* updateServiceAnnotation with the ID of the load balancer.
LEMMA Annotates ==
  ASSUME IndInv, NEW p \in Workers, obj[p] # Nil, 1 \in IDs, updateServiceAnnotation(p, 1)
  PROVE  /\ Relabelled /\ obj' \in [Workers -> Service \cup {Nil}]
         /\ aliased => obj'["svc"] = obj'["node"] /\ obj'["svc"] # Nil
<1>1. \A q \in Workers : obj[q] # Nil =>
        /\ [obj[q] EXCEPT !.id = 1] \in Service
        /\ [obj[q] EXCEPT !.id = 1].id = 1
        /\ [obj[q] EXCEPT !.id = 1].name = obj[q].name
        /\ [obj[q] EXCEPT !.id = 1].disown = obj[q].disown
        /\ [obj[q] EXCEPT !.id = 1].finalizer = obj[q].finalizer
  BY DEF IndInv, TypeOK, Service
<1>2. \A q \in Workers : q = p \/ aliased => obj[q] # Nil
  BY DEF IndInv, TypeOK, Workers
<1>3. Nil \notin Service
  BY ServiceAssumption
<1>4. \A q \in Workers : obj'[q] = IF q = p \/ aliased THEN [obj[q] EXCEPT !.id = 1] ELSE obj[q]
  BY DEF updateServiceAnnotation
<1>5. obj' \in [Workers -> Service \cup {Nil}]
  BY <1>1, <1>2 DEF updateServiceAnnotation, IndInv, TypeOK
<1>6. Relabelled
  <2> SUFFICES ASSUME NEW q \in Workers
               PROVE  /\ obj[q] = Nil <=> obj'[q] = Nil
                      /\ obj[q] # Nil => /\ obj'[q].id \in {obj[q].id, 1}
                                         /\ obj'[q].name = obj[q].name
                                         /\ obj'[q].disown = obj[q].disown
                                         /\ obj'[q].finalizer = obj[q].finalizer
    BY DEF Relabelled
  <2>1. CASE q = p \/ aliased
    <3>1. obj'[q] = [obj[q] EXCEPT !.id = 1]
      BY <1>4, <2>1
    <3>2. QED
      BY <1>1, <1>2, <1>3, <2>1, <3>1
  <2>2. CASE ~(q = p \/ aliased)
    BY Zenon, <1>4, <2>2
  <2>3. QED
    BY <2>1, <2>2
<1>7. aliased => obj'["svc"] = obj'["node"] /\ obj'["svc"] # Nil
  BY <1>1, <1>2, <1>3, <1>4 DEF IndInv, TypeOK, Workers
<1>8. QED
  BY <1>5, <1>6, <1>7

\* Such a step leaves what is said of the Service and the load balancer alone.
LEMMA RelabelStep ==
  ASSUME IndInv, Relabelled, UNCHANGED <<svc, lister, lbs, nextID>>
  PROVE  OneID' /\ NamesAgree' /\ Wanted' /\ Finalizers'
<1>0. "svc" \in Workers /\ "node" \in Workers
  BY DEF Workers
<1>1. OneID'
  BY DEF IndInv, OneID, Relabelled
<1>2. NamesAgree'
  BY <1>0 DEF IndInv, OneID, NamesAgree, Named, Relabelled, NoID
<1>3. Wanted'
  BY <1>0 DEF IndInv, Wanted, Relabelled, ensurable
<1>4. Finalizers'
  BY DEF IndInv, Finalizers, FinalizerGuards, ensurable
<1>5. QED
  BY <1>1, <1>2, <1>3, <1>4

\* The service worker's position when it is not its step.
LEMMA PositionStays ==
  ASSUME IndInv, w'["svc"].pc = w["svc"].pc,
         svc.finalizer => svc'.finalizer, svc.disown => svc'.disown,
         ~ensurable(lister) => ~ensurable(lister'), nextID' = nextID, lbs = {} <=> lbs' = {},
         At("svc", "addFinalizer") => obj'["svc"].finalizer = obj["svc"].finalizer
  PROVE  Position'
BY DEF IndInv, Position, At
\* A worker that addresses a load balancer has one.
HasLB ==
  \A p \in Workers : w[p].pc \in {"update", "deleteLB", "deleteCachedLB", "status"} => w[p].lb # Nil

\* A step that gives copies no ID but the load balancer's keeps BaseOK.
LEMMA BaseStays ==
  ASSUME IndInv, Relabelled, \A q \in Workers : w'[q].base \in {w[q].base, NoID}
  PROVE  BaseOK'
BY DEF IndInv, WorkersOK, BaseOK, Relabelled, NoID

\* So does one in which a worker copies the ID of its object.
LEMMA SharedBase ==
  ASSUME IndInv, Relabelled, \A q \in Workers : w'[q].base \in {w[q].base, obj[q].id}
  PROVE  BaseOK'
BY DEF IndInv, WorkersOK, BaseOK, Relabelled, NoID

\* So does one that leaves the copies alone.
LEMMA BaseKept ==
  ASSUME IndInv, UNCHANGED obj, \A q \in Workers : w'[q].base \in {w[q].base, NoID}
  PROVE  BaseOK'
BY BaseStays DEF Relabelled

\* The workers' records after a step of one of them.
LEMMA SvcMoves ==
  ASSUME IndInv, w' \in [Workers -> Worker], w'["node"] = w["node"], w'["svc"].pc \in SvcPCs,
         aliased' \in BOOLEAN, obj["node"] = Nil <=> obj'["node"] = Nil,
         w'["svc"].pc \notin {"idle", "uncache", "finish"} => obj'["svc"] # Nil,
         \/ w'["svc"].pc \in {"update", "deleteLB", "deleteCachedLB", "status"}
         \/ w'["svc"].pc = "patch" /\ w'["svc"].result = "ok"
         => w'["svc"].lb # Nil,
         w'["svc"].lb # Nil => w'["svc"].lb.id = 1, BaseOK'
  PROVE  WorkersOK' /\ HasLB'
BY DEF IndInv, TypeOK, WorkersOK, HasLB, Workers, At

\* The same for the worker of the node sync.
LEMMA NodeMoves ==
  ASSUME IndInv, w' \in [Workers -> Worker], w'["svc"] = w["svc"], w'["node"].pc \in NodePCs,
         aliased' \in BOOLEAN, obj["svc"] = Nil <=> obj'["svc"] = Nil,
         w'["node"].pc # "idle" => obj'["node"] # Nil,
         w'["node"].pc = "update" => w'["node"].lb # Nil,
         w'["node"].lb # Nil => w'["node"].lb.id = 1, BaseOK'
  PROVE  WorkersOK' /\ HasLB'
BY DEF IndInv, TypeOK, WorkersOK, HasLB, Workers, At, NodePCs

\* The same when neither moves.
LEMMA WorkersStay ==
  ASSUME IndInv, UNCHANGED w, aliased' \in BOOLEAN,
         \A p \in Workers : obj[p] = Nil <=> obj'[p] = Nil, BaseOK'
  PROVE  WorkersOK' /\ HasLB'
BY DEF IndInv, TypeOK, WorkersOK, HasLB, Workers, At

\* The other variables.
Counters ==
  /\ queue \in [dirty : BOOLEAN, processing : BOOLEAN, waiting : BOOLEAN]
  /\ nodeDirty \in BOOLEAN /\ disturbed \in [by : Scenarios, times : 0..MaxDisturbances]

\* A step that changes no more than IDs of objects.
LEMMA ObjectStep ==
  ASSUME IndInv, Relabelled, obj' \in [Workers -> Service \cup {Nil}],
         aliased => obj'["svc"] = obj'["node"] /\ obj'["svc"] # Nil,
         UNCHANGED <<svc, lister, nodes, lbs, nextID, aliased>>,
         Counters', WorkersOK', HasLB', Position'
  PROVE  IndInv'
<1>1. TypeOK'
  BY Zenon DEF IndInv, TypeOK, Counters, HasLB
<1>2. QED
  BY <1>1, RelabelStep DEF IndInv

\* A step that changes the workers' records and the counters only.
LEMMA QuietStep ==
  ASSUME IndInv, UNCHANGED <<svc, lister, nodes, lbs, nextID, obj, aliased>>,
         Counters', WorkersOK', HasLB', Position'
  PROVE  IndInv'
<1>1. Relabelled
  BY DEF Relabelled
<1>2. QED
  BY <1>1, ObjectStep DEF IndInv, TypeOK

\* A disturbance is counted.
LEMMA Disturbs ==
  ASSUME TypeOK, NEW kind, Disturb(kind)
  PROVE  disturbed' \in [by : Scenarios, times : 0..MaxDisturbances]
BY ServiceAssumption DEF TypeOK, Disturb

------------------------------------------------------------------------------
(***************************************************************************)
(* Looking up the load balancer.                                           *)
(***************************************************************************)
\* What retrieveLoadBalancer finds is the load balancer.
LEMMA RetrievesIt ==
  ASSUME IndInv, NEW s, NEW l \in retrieveLoadBalancer(s)
  PROVE  l \in LB /\ l \in lbs /\ l # Nil /\ l.id = 1 /\ 1 \in IDs
<1>1. l \in lbs
  BY DEF retrieveLoadBalancer
<1>2. l \in LB /\ l.id = 1
  BY <1>1 DEF IndInv, TypeOK, OneID
<1>3. QED
  BY <1>1, <1>2, ServiceAssumption DEF LB

\* The service worker finds the load balancer if there is one, by its ID or by
\* the name it was created with.
LEMMA RetrievesAny ==
  ASSUME IndInv, obj["svc"] # Nil, retrieveLoadBalancer(obj["svc"]) = {}
  PROVE  lbs = {}
<1>0. "svc" \in Workers
  BY DEF Workers
<1> SUFFICES ASSUME NEW l \in lbs PROVE FALSE
  OBVIOUS
<1>1. l.id = 1
  BY DEF IndInv, OneID
<1>2. CASE obj["svc"].id = NoID
  BY <1>2 DEF IndInv, NamesAgree, Named, retrieveLoadBalancer
<1>3. CASE obj["svc"].id = 1
  BY <1>1, <1>3 DEF retrieveLoadBalancer, NoID
<1>4. QED
  BY <1>0, <1>2, <1>3 DEF IndInv, OneID

\* The record after Retrieve.
LEMMA AfterRetrieve ==
  ASSUME IndInv, NEW p \in Workers, NEW lb \in LB \cup {Nil}, w' = [w EXCEPT ![p] = afterRetrieve(p, lb)]
  PROVE  /\ w' \in [Workers -> Worker] /\ \A q \in Workers \ {p} : w'[q] = w[q]
         /\ \A q \in Workers : w'[q].base = w[q].base
         /\ \/ /\ w'[p].pc = "patch" /\ w'[p].result \in {"retry", "fail"} /\ w'[p].lb = w[p].lb
            \/ /\ w'[p].pc = "create" /\ lb = Nil /\ p = "svc" /\ w'[p].lb = Nil
            \/ /\ w'[p].pc = "update" /\ lb # Nil /\ w'[p].lb = lb
<1> DEFINE r == afterRetrieve(p, lb)
<1>1. w[p] \in Worker
  BY DEF IndInv, WorkersOK
<1>2. \/ r = [w[p] EXCEPT !.pc = "patch", !.result = "fail"]
      \/ r = [w[p] EXCEPT !.pc = "patch", !.result = "retry"]
      \/ lb = Nil /\ p = "svc" /\ r = [w[p] EXCEPT !.pc = "create", !.lb = lb]
      \/ lb # Nil /\ r = [w[p] EXCEPT !.pc = "update", !.lb = lb]
  BY Zenon DEF afterRetrieve, failure, Workers
<1>3. /\ r \in Worker /\ r.base = w[p].base
      /\ \/ r.pc = "patch" /\ r.result \in {"retry", "fail"} /\ r.lb = w[p].lb
         \/ r.pc = "create" /\ lb = Nil /\ p = "svc" /\ r.lb = Nil
         \/ r.pc = "update" /\ lb # Nil /\ r.lb = lb
  BY ZenonT(60), <1>1, <1>2 DEF Worker, SvcPCs, EnsurePCs
<1>4. w'[p] = r /\ \A q \in Workers \ {p} : w'[q] = w[q]
  BY DEF IndInv, WorkersOK
<1>5. w' \in [Workers -> Worker]
  BY <1>3 DEF IndInv, WorkersOK
<1>6. QED
  BY <1>3, <1>4, <1>5

\* The counters of a step that does not touch them.
LEMMA CountersStay ==
  ASSUME IndInv, UNCHANGED <<queue, nodeDirty, disturbed>> PROVE Counters'
BY DEF IndInv, TypeOK, Counters

\* Facts about a worker that is at a call.
LEMMA WorkerFacts ==
  ASSUME IndInv, NEW p \in Workers
  PROVE  /\ w[p] \in Worker /\ (w[p].lb # Nil => w[p].lb.id = 1) /\ aliased \in BOOLEAN
         /\ obj[p] \in Service \cup {Nil}
         /\ w[p].pc \notin {"idle", "uncache", "finish"} => obj[p] # Nil
         /\ p = "svc" => w[p].pc \in SvcPCs
         /\ p = "node" => w[p].pc \in NodePCs
BY DEF IndInv, WorkersOK, TypeOK, Workers

\* retrieveLoadBalancer by name or by ID keeps the invariant.
LEMMA RetrieveStep ==
  ASSUME IndInv, NEW p \in Workers, Retrieve(p)
  PROVE  IndInv'
<1>1. PICK lb \in LB \cup {Nil} :
        /\ w' = [w EXCEPT ![p] = afterRetrieve(p, lb)]
        /\ lb # Nil => lb.id = 1
        /\ lb = Nil => retrieveLoadBalancer(obj[p]) = {}
        /\ Relabelled /\ obj' \in [Workers -> Service \cup {Nil}]
        /\ aliased => obj'["svc"] = obj'["node"] /\ obj'["svc"] # Nil
  <2>0. obj[p] # Nil
    BY WorkerFacts DEF Retrieve, At
  <2>1. CASE \E l \in retrieveLoadBalancer(obj[p]) :
               updateServiceAnnotation(p, l.id) /\ w' = [w EXCEPT ![p] = afterRetrieve(p, l)]
    <3>1. PICK l \in retrieveLoadBalancer(obj[p]) :
            updateServiceAnnotation(p, l.id) /\ w' = [w EXCEPT ![p] = afterRetrieve(p, l)]
      BY Zenon, <2>1
    <3>2. l \in LB /\ l # Nil /\ l.id = 1 /\ 1 \in IDs
      BY RetrievesIt
    <3>3. updateServiceAnnotation(p, 1)
      BY <3>1, <3>2
    <3>4. QED
      BY ZenonT(60), <2>0, <3>1, <3>2, <3>3, Annotates
  <2>2. CASE /\ retrieveLoadBalancer(obj[p]) = {} /\ UNCHANGED obj
             /\ w' = [w EXCEPT ![p] = afterRetrieve(p, Nil)]
    BY Zenon, <2>2 DEF Relabelled, IndInv, TypeOK
  <2>3. QED
    BY <2>1, <2>2 DEF Retrieve
<1>2. /\ w' \in [Workers -> Worker] /\ \A q \in Workers \ {p} : w'[q] = w[q]
      /\ \A q \in Workers : w'[q].base = w[q].base
      /\ \/ w'[p].pc = "patch" /\ w'[p].result \in {"retry", "fail"} /\ w'[p].lb = w[p].lb
         \/ w'[p].pc = "create" /\ lb = Nil /\ p = "svc" /\ w'[p].lb = Nil
         \/ w'[p].pc = "update" /\ lb # Nil /\ w'[p].lb = lb
  BY Zenon, <1>1, AfterRetrieve
<1>3. UNCHANGED <<svc, lister, nodes, lbs, nextID, aliased>> /\ Counters' /\ w[p].pc = "retrieve"
  BY Zenon, CountersStay DEF Retrieve, cloud, At
<1>4. obj[p] # Nil /\ BaseOK' /\ \A q \in Workers : obj[q] = Nil <=> obj'[q] = Nil
  BY <1>1, <1>2, <1>3, WorkerFacts, BaseStays DEF Relabelled
<1>5. CASE p = "svc"
  <2>1. w'["node"] = w["node"]
    BY <1>2, <1>5 DEF Workers
  <2>2. WorkersOK' /\ HasLB'
    BY ZenonT(60), <1>1, <1>2, <1>3, <1>4, <1>5, <2>1, SvcMoves, WorkerFacts DEF Workers, SvcPCs, EnsurePCs
  <2>3. lb = Nil => nextID = 1
    BY Zenon, <1>1, <1>3, <1>4, <1>5, RetrievesAny DEF IndInv, Position
  <2>4. svc.finalizer
    BY <1>3, <1>5 DEF IndInv, Position, EnsurePCs
  <2>5. Position'
    BY Zenon, <1>2, <1>3, <1>5, <2>3, <2>4 DEF Position, At, EnsurePCs, CleanupPCs
  <2>6. QED
    BY Zenon, <1>1, <1>3, <2>2, <2>5, ObjectStep
<1>6. CASE p = "node"
  <2>1. w'["svc"] = w["svc"] /\ "svc" \in Workers
    BY Zenon, <1>2, <1>6 DEF Workers
  <2>2. WorkersOK' /\ HasLB'
    BY Zenon, <1>1, <1>2, <1>3, <1>4, <1>6, <2>1, NodeMoves, WorkerFacts DEF Workers, NodePCs
  <2>3. At("svc", "addFinalizer") => obj'["svc"].finalizer = obj["svc"].finalizer
    BY Zenon, <1>1, <2>1, WorkerFacts DEF Relabelled, At
  <2>4. Position'
    BY <1>3, <2>1, <2>3, PositionStays
  <2>5. QED
    BY <1>1, <1>3, <2>2, <2>4, ObjectStep
<1>7. QED
  BY <1>5, <1>6 DEF Workers

------------------------------------------------------------------------------
(***************************************************************************)
(* Writes of the load balancer.                                            *)
(***************************************************************************)
\* The load balancer stays one and the same, under a name that is still found.
Changed ==
  /\ lbs' \subseteq LB /\ (\A l \in lbs' : l.id = 1) /\ (\A l, m \in lbs' : l = m)
  /\ lbs = {} <=> lbs' = {}
  /\ \A l \in lbs' :
       /\ lister.id = NoID => l.name = lister.name
       /\ obj["svc"] # Nil /\ obj["svc"].id = NoID => l.name = obj["svc"].name

\* A step that changes load balancers without creating one.
LEMMA ChangeStep ==
  ASSUME IndInv, Changed, UNCHANGED <<svc, lister, nodes, nextID, obj, aliased>>,
         Counters', WorkersOK', HasLB', Position'
  PROVE  IndInv'
<1>1. TypeOK'
  BY DEF IndInv, TypeOK, Counters, HasLB, Changed
<1>2. OneID'
  BY DEF IndInv, OneID, Changed
<1>3. NamesAgree'
  BY Zenon DEF IndInv, NamesAgree, Named, Changed
<1>4. Wanted'
  BY DEF IndInv, Wanted, Changed
<1>5. Finalizers'
  BY DEF IndInv, Finalizers, FinalizerGuards, Changed
<1>6. QED
  BY Zenon, <1>1, <1>2, <1>3, <1>4, <1>5 DEF IndInv

\* A load balancer edited by either worker keeps a name that is found: as long as
\* a copy has no ID, its name is the one both workers use.
LEMMA UpdateLBStep ==
  ASSUME IndInv, NEW p \in Workers, UpdateLB(p) PROVE IndInv'
<1>0. w[p] \in Worker /\ w[p].pc = "update" /\ obj[p] # Nil /\ obj[p] \in Service
  BY ZenonT(30), WorkerFacts DEF UpdateLB, At
<1>1. UNCHANGED <<svc, lister, nodes, nextID, obj, aliased>> /\ Counters'
  BY Zenon, CountersStay DEF UpdateLB
<1>2. w[p].lb # Nil /\ w[p].lb.id = 1
  BY <1>0 DEF IndInv, TypeOK, WorkersOK
<1> DEFINE edit(l) == [l EXCEPT !.name = obj[p].name, !.config = obj[p].config,
                                !.droplets = request(p, w[p].lb).droplets]
<1>3. lbs' = {edit(l) : l \in lbs}
  <2>1. {l \in lbs : l.id = w[p].lb.id} = lbs
    BY <1>2 DEF IndInv, OneID
  <2>2. QED
    BY Zenon, <2>1 DEF UpdateLB
<1>4. \A l \in lbs : edit(l) \in LB /\ edit(l).id = 1 /\ edit(l).name = obj[p].name
  <2>1. request(p, w[p].lb).droplets \in SUBSET Names
    BY RequestFacts DEF IndInv
  <2>2. obj[p].name \in LBNames /\ obj[p].config \in Versions
    BY <1>0 DEF Service
  <2>3. \A l \in lbs : l \in LB /\ l.id = 1
    BY DEF IndInv, TypeOK, OneID
  <2>4. QED
    BY Zenon, <2>1, <2>2, <2>3 DEF LB
<1>5. Changed
  <2>1. lister.id = NoID => obj[p].name = lister.name
    BY <1>0 DEF IndInv, NamesAgree, Named, Workers
  <2>2. obj["svc"] # Nil /\ obj["svc"].id = NoID => obj[p].name = obj["svc"].name
    BY <1>0 DEF IndInv, NamesAgree, Named, Workers
  <2>3. \A l, m \in lbs : l = m
    BY DEF IndInv, OneID
  <2> HIDE DEF edit
  <2>4. QED
    BY Zenon, <1>3, <1>4, <2>1, <2>2, <2>3 DEF Changed
<1>6. /\ w' \in [Workers -> Worker] /\ \A q \in Workers \ {p} : w'[q] = w[q]
      /\ w'[p].pc = "patch" /\ w'[p].lb = w[p].lb
      /\ \A q \in Workers : w'[q].base = w[q].base
  <2>1. PICK r \in {"ok", "retry", "fail"} : GotoWith(p, "patch", r)
    BY Zenon, RequestFacts DEF UpdateLB, IndInv
  <2>2. QED
    BY <2>1, GotoWithFacts DEF IndInv, SvcPCs, EnsurePCs
<1>7. BaseOK'
  BY <1>1, <1>6, BaseKept
<1>8. CASE p = "svc"
  <2>1. w'["node"] = w["node"]
    BY Zenon, <1>6, <1>8 DEF Workers
  <2>2. WorkersOK' /\ HasLB'
    BY Zenon, <1>0, <1>1, <1>2, <1>6, <1>7, <1>8, <2>1, SvcMoves, WorkerFacts DEF SvcPCs, EnsurePCs
  <2>3. Position'
    BY Zenon, <1>0, <1>1, <1>6, <1>8 DEF IndInv, Position, At, EnsurePCs, CleanupPCs
  <2>4. QED
    BY <1>1, <1>5, <2>2, <2>3, ChangeStep
<1>9. CASE p = "node"
  <2>1. w'["svc"] = w["svc"]
    BY Zenon, <1>6, <1>9 DEF Workers
  <2>2. WorkersOK' /\ HasLB'
    BY Zenon, <1>0, <1>1, <1>2, <1>6, <1>7, <1>9, <2>1, NodeMoves, WorkerFacts DEF NodePCs
  <2>3. Position'
    BY Zenon, <1>1, <1>5, <2>1, PositionStays DEF Changed
  <2>4. QED
    BY <1>1, <1>5, <2>2, <2>3, ChangeStep
<1>10. QED
  BY <1>8, <1>9 DEF Workers

\* The cloud itself changes the load balancer.
LEMMA CloudStep ==
  ASSUME IndInv, NEW l \in lbs, Activate(l) \/ \E v \in Versions : Drift(l, v)
  PROVE  IndInv'
<1>1. UNCHANGED <<svc, lister, nodes, nextID, obj, aliased, w, queue, nodeDirty>>
  BY DEF Activate, Drift, process
<1>2. Counters'
  BY <1>1, Disturbs DEF Activate, Drift, IndInv, TypeOK, Counters
<1>3. PICK m \in LB : lbs' = (lbs \ {l}) \cup {m} /\ m.id = l.id /\ m.name = l.name
  <2>1. l \in LB
    BY DEF IndInv, TypeOK
  <2>2. CASE Activate(l)
    <3>1. /\ [l EXCEPT !.status = "active"] \in LB
          /\ [l EXCEPT !.status = "active"].id = l.id
          /\ [l EXCEPT !.status = "active"].name = l.name
      BY <2>1 DEF LB
    <3>2. QED
      BY Zenon, <2>2, <3>1 DEF Activate
  <2>3. CASE \E v \in Versions : Drift(l, v)
    <3>1. PICK v \in Versions : Drift(l, v)
      BY <2>3
    <3>2. /\ [l EXCEPT !.config = v] \in LB
          /\ [l EXCEPT !.config = v].id = l.id
          /\ [l EXCEPT !.config = v].name = l.name
      BY <2>1 DEF LB
    <3>3. QED
      BY Zenon, <3>1, <3>2 DEF Drift
  <2>4. QED
    BY <2>2, <2>3
<1>4. lbs' = {m} /\ m.id = 1
  BY Zenon, <1>3 DEF IndInv, OneID
<1>5. Changed
  BY <1>3, <1>4 DEF Changed, IndInv, NamesAgree, Named
<1>6. WorkersOK' /\ HasLB' /\ Position'
  BY ZenonT(60), <1>1, <1>5, BaseKept, WorkersStay, PositionStays, WorkerFacts DEF Workers, Changed
<1>7. QED
  BY <1>1, <1>2, <1>5, <1>6, ChangeStep

\* Deleting the load balancer keeps the invariant.
LEMMA DeleteLBStep ==
  ASSUME IndInv, DeleteLB PROVE IndInv'
<1> USE DEF Workers
<1>0. /\ w["svc"] \in Worker /\ w["svc"].pc \in {"deleteLB", "deleteCachedLB"} /\ obj["svc"] # Nil
      /\ ~ensurable(lister) /\ w["svc"].lb.id = 1
  BY WorkerFacts DEF DeleteLB, IndInv, TypeOK, Position, CleanupPCs
<1>1. UNCHANGED <<svc, lister, nodes, nextID, obj, aliased>> /\ Counters'
  BY CountersStay DEF DeleteLB
<1>2. lbs' = {}
  BY Zenon, <1>0 DEF DeleteLB, IndInv, OneID
<1>3. /\ w' \in [Workers -> Worker] /\ w'["node"] = w["node"] /\ w'["svc"].lb = w["svc"].lb
      /\ w'["svc"].base = w["svc"].base /\ w'["svc"].pc \in {"removeFinalizer", "uncache"}
  <2>1. Goto("svc", "removeFinalizer") \/ Goto("svc", "uncache")
    BY ZenonT(30) DEF DeleteLB
  <2>2. QED
    BY <2>1, GotoFacts DEF IndInv, SvcPCs, CleanupPCs
<1>4. WorkersOK' /\ HasLB'
  BY ZenonT(60), <1>0, <1>1, <1>3, BaseKept, SvcMoves, WorkerFacts DEF SvcPCs, CleanupPCs
<1>5. Position'
  BY ZenonT(60), <1>0, <1>1, <1>2, <1>3 DEF Position, At, EnsurePCs, CleanupPCs
<1>6. TypeOK'
  BY Zenon, <1>1, <1>2, <1>4 DEF IndInv, TypeOK, Counters, HasLB
<1>7. OneID' /\ NamesAgree'
  BY <1>1, <1>2 DEF IndInv, OneID, NamesAgree, Named
<1>8. Wanted' /\ Finalizers'
  BY Zenon, <1>0, <1>1, <1>2 DEF IndInv, Wanted, Finalizers, FinalizerGuards
<1>9. QED
  BY Zenon, <1>4, <1>5, <1>6, <1>7, <1>8 DEF IndInv

\* The load balancer is created once, while there is none and never was, with the
\* name every copy has and with the finalizer in place.
LEMMA CreateStep ==
  ASSUME IndInv, CreateLB \/ CreateLost PROVE IndInv'
<1> USE DEF Workers
<1>0. /\ w["svc"] \in Worker /\ w["svc"].pc = "create"
      /\ obj["svc"] # Nil /\ obj["svc"] \in Service
      /\ nextID = 1 /\ lbs = {} /\ svc.finalizer
  BY Zenon, WorkerFacts DEF CreateLB, CreateLost, At, IndInv, OneID, Position, EnsurePCs
<1>1. 1 \in IDs /\ nextID' = 2
  <2>1. nextID <= MaxLBs /\ nextID' = nextID + 1
    BY DEF CreateLB, CreateLost
  <2>2. QED
    BY <1>0, <2>1, ServiceAssumption DEF IDs
<1>2. UNCHANGED <<svc, lister, nodes, aliased>>
  BY DEF CreateLB, CreateLost
<1>3. Counters'
  BY Zenon, Disturbs DEF CreateLB, CreateLost, IndInv, TypeOK, Counters
<1>4. /\ Relabelled /\ obj' \in [Workers -> Service \cup {Nil}]
      /\ aliased => obj'["svc"] = obj'["node"] /\ obj'["svc"] # Nil
  <2>1. CASE CreateLB
    BY ZenonT(60), <1>0, <1>1, <2>1, Annotates DEF CreateLB
  <2>2. CASE CreateLost
    BY Zenon, <2>2 DEF CreateLost, Relabelled, IndInv, TypeOK
  <2>3. QED
    BY <2>1, <2>2
<1>5. PICK l \in LB : lbs' = {l} /\ l.id = 1 /\ l.name = obj["svc"].name
  <2> DEFINE l == newLB(obj["svc"], request("svc", Nil).droplets)
  <2>1. request("svc", Nil).droplets \in SUBSET Names
    BY Zenon, RequestFacts DEF IndInv
  <2>2. l \in LB /\ l.id = 1 /\ l.name = obj["svc"].name
    BY <1>0, <1>1, <2>1 DEF newLB, LB, Service
  <2>3. lbs' = {l}
    BY Zenon, <1>0 DEF CreateLB, CreateLost
  <2>4. QED
    BY <2>2, <2>3
<1>6. /\ w' \in [Workers -> Worker] /\ w'["node"] = w["node"] /\ w'["svc"].lb = w["svc"].lb
      /\ w'["svc"].base = w["svc"].base
      /\ w'["svc"].pc = "patch" /\ w'["svc"].result \in {"retry", "fail"}
  BY Zenon, GotoWithFacts DEF CreateLB, CreateLost, IndInv, SvcPCs, EnsurePCs
<1>7. WorkersOK' /\ HasLB'
  BY Zenon, <1>0, <1>2, <1>4, <1>6, BaseStays, SvcMoves, WorkerFacts DEF SvcPCs, EnsurePCs, Relabelled
<1>8. Position'
  BY ZenonT(60), <1>0, <1>2, <1>6 DEF Position, At, EnsurePCs, CleanupPCs
<1>9. TypeOK'
  BY <1>1, <1>2, <1>3, <1>4, <1>5, <1>7, ServiceAssumption DEF IndInv, TypeOK, Counters, HasLB, IDs
<1>10. OneID'
  BY <1>1, <1>2, <1>4, <1>5 DEF IndInv, OneID, Relabelled
<1>11. NamesAgree'
  BY ZenonT(60), <1>0, <1>2, <1>4, <1>5 DEF IndInv, OneID, NamesAgree, Named, Relabelled, NoID
<1>12. Wanted' /\ Finalizers'
  BY <1>0, <1>2, <1>4, <1>5 DEF IndInv, Wanted, Finalizers, FinalizerGuards, Relabelled
<1>13. QED
  BY Zenon, <1>7, <1>8, <1>9, <1>10, <1>11, <1>12 DEF IndInv

------------------------------------------------------------------------------
(***************************************************************************)
(* Steps that take or drop an object.                                      *)
(***************************************************************************)
\* The service worker's record when it starts on a Service.
LEMMA SvcStarts ==
  ASSUME IndInv, NEW pc \in SvcPCs, w' = [w EXCEPT !["svc"] = [Idle EXCEPT !.pc = pc]]
  PROVE  /\ w' \in [Workers -> Worker] /\ w'["node"] = w["node"] /\ w'["svc"].lb = Nil
         /\ w'["svc"].base = NoID /\ w'["svc"].pc = pc
<1> DEFINE r == [Idle EXCEPT !.pc = pc]
<1>1. r \in Worker /\ r.pc = pc /\ r.lb = Nil /\ r.base = NoID
  BY Zenon, IdleFacts DEF Worker
<1> HIDE DEF r
<1>2. w' \in [Workers -> Worker] /\ w'["node"] = w["node"] /\ w'["svc"] = r
  BY Zenon, <1>1 DEF IndInv, WorkersOK, Workers, r
<1>3. QED
  BY Zenon, <1>1, <1>2

\* Where the service worker may be when it has taken the key.
LEMMA DequeueMoves ==
  ASSUME IndInv, Dequeue
  PROVE  /\ w'["node"] = w["node"] /\ w'["svc"].lb \in {w["svc"].lb, Nil}
         /\ w'["svc"].pc \in {"deleteCached", "uncache", "getLB", "addFinalizer"}
<1>1. ASSUME NEW pc \in {"deleteCached", "uncache"}, Goto("svc", pc)
      PROVE  w'["node"] = w["node"] /\ w'["svc"].lb = w["svc"].lb /\ w'["svc"].pc = pc
  BY Zenon, <1>1, GotoFacts DEF IndInv, SvcPCs, CleanupPCs, Workers
<1>2. ASSUME NEW pc \in {"getLB", "addFinalizer"}, w' = [w EXCEPT !["svc"] = [Idle EXCEPT !.pc = pc]]
      PROVE  w'["node"] = w["node"] /\ w'["svc"].lb = Nil /\ w'["svc"].pc = pc
  <2>1. pc \in SvcPCs
    BY DEF SvcPCs, CleanupPCs
  <2>2. QED
    BY Zenon, <1>2, <2>1, SvcStarts
<1>3. \/ \E pc \in {"deleteCached", "uncache"} : Goto("svc", pc)
      \/ \E pc \in {"getLB", "addFinalizer"} : w' = [w EXCEPT !["svc"] = [Idle EXCEPT !.pc = pc]]
  BY Zenon DEF Dequeue
<1>4. QED
  BY Zenon, <1>1, <1>2, <1>3

\* The informer's copy becomes the service worker's object.
LEMMA DequeueStep ==
  ASSUME IndInv, Dequeue PROVE IndInv'
<1> USE DEF Workers
<1>0. w["svc"] \in Worker /\ w["svc"].pc = "idle"
  BY WorkerFacts DEF Dequeue, At
<1>1. UNCHANGED <<svc, lister, nodes, lbs, nextID>> /\ Counters'
  BY Zenon DEF Dequeue, cloud, IndInv, TypeOK, Counters
<1>2. CASE /\ lister.phase = "gone" /\ UNCHANGED <<obj, aliased>>
           /\ IF obj["svc"] # Nil /\ wantsLoadBalancer(obj["svc"])
              THEN Goto("svc", "deleteCached")
              ELSE Goto("svc", "uncache")
  <2>1. /\ w' \in [Workers -> Worker] /\ w'["node"] = w["node"] /\ w'["svc"].lb = w["svc"].lb
        /\ w'["svc"].base = w["svc"].base
        /\ w'["svc"].pc = "uncache" \/ (w'["svc"].pc = "deleteCached" /\ obj["svc"] # Nil)
    BY Zenon, <1>2, GotoFacts DEF IndInv, SvcPCs, CleanupPCs
  <2>2. WorkersOK' /\ HasLB'
    BY Zenon, <1>2, <2>1, BaseKept, SvcMoves, WorkerFacts DEF SvcPCs, CleanupPCs
  <2>3. Position'
    BY Zenon, <1>1, <1>2, <2>1 DEF Position, At, EnsurePCs, CleanupPCs, ensurable
  <2>4. QED
    BY Zenon, <1>1, <1>2, <2>2, <2>3, QuietStep
<1>3. CASE /\ lister.phase # "gone"
           /\ obj' = [obj EXCEPT !["svc"] = lister]
           /\ aliased' = FALSE
           /\ w' = [w EXCEPT !["svc"] = [Idle EXCEPT
                                !.pc = IF ~wantsLoadBalancer(lister) \/ needsCleanup(lister)
                                       THEN "getLB" ELSE "addFinalizer"]]
  <2>1. /\ lister \in Service /\ lister # Nil /\ lister.id \in IDs \cup {NoID}
        /\ obj' \in [Workers -> Service \cup {Nil}]
        /\ obj'["svc"] = lister /\ obj'["node"] = obj["node"]
    BY Zenon, <1>3, ServiceAssumption DEF IndInv, TypeOK, Service
  <2>2. /\ w' \in [Workers -> Worker] /\ w'["node"] = w["node"] /\ w'["svc"].lb = Nil
        /\ w'["svc"].base = NoID
        /\ \/ w'["svc"].pc = "getLB" /\ ~ensurable(lister)
           \/ w'["svc"].pc = "addFinalizer" /\ ensurable(lister)
    <3>1. CASE ~wantsLoadBalancer(lister) \/ needsCleanup(lister)
      <4>1. w' = [w EXCEPT !["svc"] = [Idle EXCEPT !.pc = "getLB"]]
        BY Zenon, <1>3, <3>1
      <4>2. ~ensurable(lister)
        BY <3>1 DEF wantsLoadBalancer, needsCleanup, ensurable
      <4>3. "getLB" \in SvcPCs
        BY DEF SvcPCs, CleanupPCs
      <4>4. /\ w' \in [Workers -> Worker] /\ w'["node"] = w["node"] /\ w'["svc"].lb = Nil
            /\ w'["svc"].base = NoID /\ w'["svc"].pc = "getLB"
        BY Zenon, <4>1, <4>3, SvcStarts
      <4>5. QED
        BY <4>2, <4>4
    <3>2. CASE ~(~wantsLoadBalancer(lister) \/ needsCleanup(lister))
      <4>1. w' = [w EXCEPT !["svc"] = [Idle EXCEPT !.pc = "addFinalizer"]]
        BY <1>3, <3>2
      <4>2. ensurable(lister)
        BY <1>3, <2>1, <3>2 DEF wantsLoadBalancer, needsCleanup, ensurable, Service,
                                IndInv, Finalizers
      <4>3. /\ w' \in [Workers -> Worker] /\ w'["node"] = w["node"] /\ w'["svc"].lb = Nil
            /\ w'["svc"].base = NoID /\ w'["svc"].pc = "addFinalizer"
        BY Zenon, <4>1, SvcStarts DEF SvcPCs, EnsurePCs
      <4>4. QED
        BY <4>2, <4>3
    <3>3. QED
      BY <3>1, <3>2
  <2>3. BaseOK'
    BY <2>1, <2>2 DEF BaseOK, IndInv, WorkersOK
  <2>4. WorkersOK' /\ HasLB'
    BY ZenonT(30), <1>3, <2>1, <2>2, <2>3, SvcMoves, WorkerFacts DEF SvcPCs, CleanupPCs
  <2>5. Position'
    BY Zenon, <1>1, <2>1, <2>2 DEF IndInv, OneID, Wanted, Finalizers, Position, At, EnsurePCs, CleanupPCs
  <2>6. TypeOK'
    BY Zenon, <1>1, <1>3, <2>1, <2>4 DEF IndInv, TypeOK, Counters, HasLB
  <2>7. OneID' /\ NamesAgree'
    BY ZenonT(60), <1>1, <2>1 DEF IndInv, OneID, NamesAgree, Named
  <2>8. Wanted' /\ Finalizers'
    BY Zenon, <1>1, <2>1 DEF IndInv, Wanted, Finalizers, FinalizerGuards
  <2>9. QED
    BY <2>4, <2>5, <2>6, <2>7, <2>8 DEF IndInv
<1>4. QED
  BY Zenon, <1>2, <1>3 DEF Dequeue

------------------------------------------------------------------------------
(***************************************************************************)
(* The other steps that write nothing.                                     *)
(***************************************************************************)
LEMMA EnsureStep ==
  ASSUME IndInv, Ensure PROVE IndInv'
<1> USE DEF Workers
<1>0. /\ w["svc"] \in Worker /\ w["svc"].pc = "ensure" /\ obj["svc"] # Nil
      /\ obj["svc"].id \in IDs \cup {NoID}
  BY Zenon, WorkerFacts DEF Ensure, At, IndInv, TypeOK, Service
<1>1. /\ w' \in [Workers -> Worker] /\ w'["node"] = w["node"] /\ w'["svc"].lb = w["svc"].lb
      /\ w'["svc"].pc \in {"finish", "retrieve"}
      /\ w'["svc"].base \in {w["svc"].base, obj["svc"].id}
  <2>1. listed \in NodeLists
    BY Lists DEF IndInv
  <2>2. PICK r : /\ r \in Worker /\ r.pc \in {"finish", "retrieve"} /\ r.lb = w["svc"].lb
                 /\ r.base \in {w["svc"].base, obj["svc"].id} /\ w' = [w EXCEPT !["svc"] = r]
    <3> DEFINE r == IF obj["svc"].disown
                    THEN [w["svc"] EXCEPT !.pc = "finish", !.result = "ok"]
                    ELSE IF prepareFails(listed, Config)
                    THEN [w["svc"] EXCEPT !.pc = "finish", !.result = "retry"]
                    ELSE [w["svc"] EXCEPT !.pc = "retrieve", !.base = obj["svc"].id, !.list = listed]
    <3>1. /\ r \in Worker /\ r.pc \in {"finish", "retrieve"} /\ r.lb = w["svc"].lb
          /\ r.base \in {w["svc"].base, obj["svc"].id}
      BY Zenon, <1>0, <2>1 DEF Worker, SvcPCs, EnsurePCs
    <3>2. w' = [w EXCEPT !["svc"] = r]
      BY DEF Ensure
    <3>3. QED
      BY Zenon, <3>1, <3>2
  <2>3. QED
    BY <2>2 DEF IndInv, WorkersOK
<1>2. UNCHANGED <<svc, lister, nodes, lbs, nextID, obj, aliased>> /\ Counters'
  BY Zenon, CountersStay DEF Ensure, cloud
<1>3. BaseOK'
  BY <1>1, <1>2, SharedBase DEF Relabelled
<1>4. WorkersOK' /\ HasLB'
  BY Zenon, <1>0, <1>1, <1>2, <1>3, SvcMoves, WorkerFacts DEF SvcPCs, EnsurePCs
<1>5. Position'
  BY <1>0, <1>1, <1>2 DEF IndInv, Position, At, EnsurePCs, CleanupPCs
<1>6. QED
  BY <1>2, <1>4, <1>5, QuietStep

\* So does GetLoadBalancer before a cleanup.
LEMMA GetLBStep ==
  ASSUME IndInv, GetLB PROVE IndInv'
<1> USE DEF Workers
<1>0. /\ w["svc"] \in Worker /\ w["svc"].pc = "getLB" /\ obj["svc"] # Nil
      /\ obj["svc"].id \in IDs \cup {NoID}
  BY Zenon, WorkerFacts DEF GetLB, At, IndInv, TypeOK, Service
<1>1. UNCHANGED <<svc, lister, nodes, lbs, nextID, aliased>> /\ Counters'
  BY CountersStay DEF GetLB, cloud
<1>2. CASE \E l \in retrieveLoadBalancer(obj["svc"]) :
             /\ updateServiceAnnotation("svc", l.id)
             /\ w' = [w EXCEPT !["svc"].pc = "getPatch", !["svc"].base = obj["svc"].id,
                               !["svc"].lb = l]
  <2>1. PICK l \in retrieveLoadBalancer(obj["svc"]) :
          /\ updateServiceAnnotation("svc", l.id)
          /\ w' = [w EXCEPT !["svc"].pc = "getPatch", !["svc"].base = obj["svc"].id,
                            !["svc"].lb = l]
    BY Zenon, <1>2
  <2>2. l \in LB /\ l # Nil /\ l.id = 1 /\ 1 \in IDs
    BY RetrievesIt
  <2>3. updateServiceAnnotation("svc", 1)
    BY <2>1, <2>2
  <2>4. /\ Relabelled /\ obj' \in [Workers -> Service \cup {Nil}]
        /\ aliased => obj'["svc"] = obj'["node"] /\ obj'["svc"] # Nil
    BY <1>0, <2>2, <2>3, Annotates
  <2>5. /\ w' \in [Workers -> Worker] /\ w'["node"] = w["node"]
        /\ w'["svc"].pc = "getPatch" /\ w'["svc"].lb = l /\ w'["svc"].base = obj["svc"].id
    BY ZenonT(60), <1>0, <2>1, <2>2 DEF IndInv, WorkersOK, Worker, SvcPCs, CleanupPCs
  <2>6. BaseOK'
    BY <2>4, <2>5, SharedBase
  <2>7. WorkersOK' /\ HasLB'
    BY ZenonT(30), <1>0, <1>1, <2>2, <2>4, <2>5, <2>6, SvcMoves, WorkerFacts DEF SvcPCs, CleanupPCs, Relabelled
  <2>8. Position'
    BY <1>0, <1>1, <2>5 DEF IndInv, Position, At, EnsurePCs, CleanupPCs
  <2>9. QED
    BY <1>1, <2>4, <2>7, <2>8, ObjectStep
<1>3. CASE /\ retrieveLoadBalancer(obj["svc"]) = {} /\ UNCHANGED obj
           /\ Goto("svc", "removeFinalizer")
  <2>1. lbs = {}
    BY Zenon, <1>0, <1>3, RetrievesAny
  <2>2. /\ w' \in [Workers -> Worker] /\ w'["node"] = w["node"]
        /\ w'["svc"].pc = "removeFinalizer" /\ w'["svc"].lb = w["svc"].lb
        /\ w'["svc"].base = w["svc"].base
    BY Zenon, <1>3, GotoFacts DEF IndInv, SvcPCs, CleanupPCs
  <2>3. WorkersOK' /\ HasLB'
    BY Zenon, <1>0, <1>1, <1>3, <2>2, BaseKept, SvcMoves, WorkerFacts DEF SvcPCs, CleanupPCs
  <2>4. Position'
    BY <1>0, <1>1, <2>1, <2>2 DEF IndInv, Position, At, EnsurePCs, CleanupPCs
  <2>5. QED
    BY Zenon, <1>1, <1>3, <2>3, <2>4, QuietStep
<1>4. QED
  BY <1>2, <1>3 DEF GetLB

\* So does the lookup of EnsureLoadBalancerDeleted.
LEMMA DeleteRetrieveStep ==
  ASSUME IndInv, NEW pc \in {"delete", "deleteCached"}, DeleteRetrieve(pc) PROVE IndInv'
<1> USE DEF Workers
<1>0. w["svc"] \in Worker /\ w["svc"].pc = pc /\ obj["svc"] # Nil
  BY WorkerFacts DEF DeleteRetrieve, At
<1>1. UNCHANGED <<svc, lister, nodes, lbs, nextID, obj, aliased>> /\ Counters'
  BY Zenon, CountersStay DEF DeleteRetrieve, cloud
<1>2. /\ w' \in [Workers -> Worker] /\ w'["node"] = w["node"] /\ w'["svc"].base = w["svc"].base
      /\ \/ /\ w'["svc"].pc \in {"removeFinalizer", "uncache"} /\ w'["svc"].lb = w["svc"].lb
            /\ lbs = {} \/ svc.disown
         \/ /\ w'["svc"].pc \in {"deleteLB", "deleteCachedLB"}
            /\ w'["svc"].lb # Nil /\ w'["svc"].lb.id = 1
  <2>1. CASE obj["svc"].disown \/ retrieveLoadBalancer(obj["svc"]) = {}
    <3>1. Goto("svc", afterDelete(pc)) /\ afterDelete(pc) \in {"removeFinalizer", "uncache"}
      BY Zenon, <2>1 DEF DeleteRetrieve, afterDelete
    <3>2. lbs = {} \/ svc.disown
      BY Zenon, <1>0, <2>1, RetrievesAny DEF IndInv, Wanted
    <3>3. QED
      BY <3>1, <3>2, GotoFacts DEF IndInv, SvcPCs, CleanupPCs
  <2>2. CASE ~(obj["svc"].disown \/ retrieveLoadBalancer(obj["svc"]) = {})
    <3> DEFINE next == IF pc = "delete" THEN "deleteLB" ELSE "deleteCachedLB"
    <3>1. PICK l \in retrieveLoadBalancer(obj["svc"]) :
            w' = [w EXCEPT !["svc"].pc = next, !["svc"].lb = l]
      BY <2>2 DEF DeleteRetrieve
    <3>2. l \in LB /\ l # Nil /\ l.id = 1
      BY RetrievesIt
    <3>3. next \in {"deleteLB", "deleteCachedLB"} /\ next \in SvcPCs
      BY DEF SvcPCs, CleanupPCs
    <3> HIDE DEF next
    <3>4. /\ w' \in [Workers -> Worker] /\ w'["node"] = w["node"]
          /\ w'["svc"].pc = next /\ w'["svc"].lb = l /\ w'["svc"].base = w["svc"].base
      BY ZenonT(60), <3>1, <3>2, <3>3 DEF IndInv, WorkersOK, Worker
    <3>5. QED
      BY <3>2, <3>3, <3>4
  <2>3. QED
    BY Zenon, <2>1, <2>2
<1>3. WorkersOK' /\ HasLB'
  BY Zenon, <1>0, <1>1, <1>2, BaseKept, SvcMoves, WorkerFacts DEF SvcPCs, CleanupPCs
<1>4. Position'
  BY <1>0, <1>1, <1>2 DEF IndInv, Position, At, EnsurePCs, CleanupPCs
<1>5. QED
  BY <1>1, <1>3, <1>4, QuietStep

\* So does the end of a pass, with or without a retry.
LEMMA FinishStep ==
  ASSUME IndInv, Finish PROVE IndInv'
<1> USE DEF Workers
<1>1. UNCHANGED <<svc, lister, nodes, lbs, nextID, obj, aliased>>
  BY DEF Finish, cloud
<1>2. Counters'
  BY Zenon DEF Finish, IndInv, TypeOK, Counters
<1>3. w' \in [Workers -> Worker] /\ w'["node"] = w["node"] /\ w'["svc"] = Idle
  BY Zenon, IdleFacts DEF Finish, IndInv, WorkersOK
<1>4. WorkersOK' /\ HasLB'
  BY Zenon, <1>1, <1>3, IdleFacts, BaseKept, SvcMoves, WorkerFacts DEF SvcPCs
<1>5. Position'
  BY Zenon, <1>3, IdleFacts DEF Position, At, EnsurePCs, CleanupPCs
<1>6. QED
  BY <1>1, <1>2, <1>4, <1>5, QuietStep

\* Where a failed call leads: to the deferred patch, to the end of the pass, or
\* for the node worker to its check.
LEMMA CallFailsStep ==
  ASSUME IndInv, NEW p \in Workers, CallFails(p) PROVE IndInv'
<1>0. /\ w[p] \in Worker /\ w[p].pc \in calls /\ obj[p] # Nil
      /\ p = "svc" => w[p].pc \in SvcPCs
      /\ p = "node" => w[p].pc \in NodePCs
  BY WorkerFacts DEF CallFails, callMade, calls
<1>1. UNCHANGED <<svc, lister, nodes, lbs, nextID, obj, aliased, queue, nodeDirty>>
  BY Zenon DEF CallFails, cloud
<1>2. Counters'
  BY Zenon, <1>1, Disturbs DEF CallFails, IndInv, TypeOK, Counters
<1>3. /\ afterFailure(p) \in {"patch", "check", "done", "finish"}
      /\ p = "node" => afterFailure(p) \in NodePCs
      /\ p = "svc" => \/ afterFailure(p) = "finish"
                      \/ afterFailure(p) = "patch" /\ w[p].pc \in {"retrieve", "update", "create"}
  <2>1. CASE w[p].pc \in {"retrieve", "update", "create"}
    BY <1>0, <2>1 DEF afterFailure, NodePCs
  <2>2. CASE p = "node" /\ w[p].pc \in {"patch", "check", "checkPatch"}
    BY <2>2 DEF afterFailure, NodePCs
  <2>3. CASE p = "svc" /\ w[p].pc \notin {"retrieve", "update", "create"}
    <3>1. w[p].pc \notin {"check", "checkPatch"}
      BY <1>0, <2>3 DEF SvcPCs, EnsurePCs, CleanupPCs
    <3>2. afterFailure(p) = "finish"
      BY Zenon, <2>3, <3>1 DEF afterFailure
    <3>3. QED
      BY Zenon, <2>3, <3>2
  <2>4. QED
    BY Zenon, <1>0, <2>1, <2>2, <2>3 DEF calls, NodePCs, Workers
<1>4. /\ w' \in [Workers -> Worker]
      /\ w'[p].pc = afterFailure(p) /\ w'[p].lb = w[p].lb /\ w'[p].result = "fail"
      /\ \A q \in Workers : w'[q].base = w[q].base
      /\ \A q \in Workers \ {p} : w'[q] = w[q]
  BY <1>3, GotoWithFacts DEF CallFails, IndInv, SvcPCs, EnsurePCs, NodePCs
<1>5. CASE p = "svc"
  <2>1. w'["node"] = w["node"]
    BY Zenon, <1>4, <1>5 DEF Workers
  <2>2. WorkersOK' /\ HasLB'
    BY Zenon, <1>0, <1>1, <1>3, <1>4, <1>5, <2>1, BaseKept, SvcMoves, WorkerFacts DEF SvcPCs, EnsurePCs
  <2>3. Position'
    BY Zenon, <1>1, <1>3, <1>4, <1>5 DEF IndInv, Position, At, EnsurePCs, CleanupPCs
  <2>4. QED
    BY Zenon, <1>1, <1>2, <2>2, <2>3, QuietStep
<1>6. CASE p = "node"
  <2>1. w'["svc"] = w["svc"]
    BY Zenon, <1>4, <1>6 DEF Workers
  <2>2. WorkersOK' /\ HasLB'
    BY Zenon, <1>0, <1>1, <1>3, <1>4, <1>6, <2>1, BaseKept, NodeMoves, WorkerFacts
  <2>3. Position'
    BY <1>1, <2>1, PositionStays
  <2>4. QED
    BY <1>1, <1>2, <2>2, <2>3, QuietStep
<1>7. QED
  BY Zenon, <1>5, <1>6 DEF Workers

\* So does the GetLoadBalancer of the node sync.
LEMMA NodeCheckStep ==
  ASSUME IndInv, NodeCheck PROVE IndInv'
<1> USE DEF Workers
<1>0. w["node"] \in Worker /\ w["node"].pc = "check" /\ obj["node"] # Nil
  BY WorkerFacts DEF NodeCheck, At
<1>1. UNCHANGED <<svc, lister, nodes, lbs, nextID, aliased>> /\ Counters'
  BY CountersStay DEF NodeCheck, cloud
<1>2. /\ Relabelled /\ obj' \in [Workers -> Service \cup {Nil}]
      /\ aliased => obj'["svc"] = obj'["node"] /\ obj'["svc"] # Nil
  <2>1. CASE UNCHANGED obj
    BY Zenon, <2>1 DEF Relabelled, IndInv, TypeOK
  <2>2. CASE \E l \in retrieveLoadBalancer(obj["node"]) : updateServiceAnnotation("node", l.id)
    <3>1. PICK l \in retrieveLoadBalancer(obj["node"]) : updateServiceAnnotation("node", l.id)
      BY <2>2
    <3>2. l.id = 1 /\ 1 \in IDs
      BY RetrievesIt
    <3>3. updateServiceAnnotation("node", 1)
      BY <3>1, <3>2
    <3>4. QED
      BY <1>0, <3>2, <3>3, Annotates
  <2>3. QED
    BY Zenon, <2>1, <2>2 DEF NodeCheck
<1>3. /\ w' \in [Workers -> Worker] /\ w'["svc"] = w["svc"] /\ w'["node"].lb = w["node"].lb
      /\ w'["node"].pc \in {"checkPatch", "done"}
      /\ w'["node"].base \in {w["node"].base, obj["node"].id}
  <2>1. CASE w' = [w EXCEPT !["node"].pc = "checkPatch", !["node"].base = obj["node"].id]
    <3>1. obj["node"].id \in IDs \cup {NoID}
      BY <1>0, WorkerFacts DEF Service
    <3>2. QED
      BY ZenonT(60), <2>1, <3>1 DEF IndInv, WorkersOK, Worker, NodePCs
  <2>2. CASE GotoWith("node", "done", "ok")
    BY Zenon, <2>2, GotoWithFacts DEF IndInv, NodePCs
  <2>3. QED
    BY <2>1, <2>2 DEF NodeCheck
<1>4. BaseOK'
  <2>1. SUFFICES ASSUME NEW q \in Workers, obj'[q] # Nil, obj'[q].id = NoID
                 PROVE  w'[q].base = NoID
    BY Zenon DEF BaseOK
  <2>2. obj[q] # Nil /\ obj[q].id = NoID
    BY <1>2, <2>1 DEF Relabelled, NoID
  <2>3. w[q].base = NoID
    BY Zenon, <2>2 DEF IndInv, WorkersOK, BaseOK
  <2>4. QED
    BY Zenon, <1>3, <2>2, <2>3
<1>5. WorkersOK' /\ HasLB'
  BY Zenon, <1>0, <1>1, <1>2, <1>3, <1>4, NodeMoves, WorkerFacts DEF NodePCs, Relabelled
<1>6. At("svc", "addFinalizer") => obj'["svc"].finalizer = obj["svc"].finalizer
  BY Zenon, <1>2, WorkerFacts DEF Relabelled, At
<1>7. Position'
  BY Zenon, <1>1, <1>3, <1>6, PositionStays
<1>8. QED
  BY Zenon, <1>1, <1>2, <1>5, <1>7, ObjectStep

\* So does the end of a back-off.
LEMMA RetryDueStep ==
  ASSUME IndInv, RetryDue PROVE IndInv'
<1>1. UNCHANGED <<svc, lister, nodes, lbs, nextID, obj, aliased, w>>
  BY DEF RetryDue, cloud
<1>2. Counters'
  BY ZenonT(60) DEF RetryDue, IndInv, TypeOK, Counters
<1>3. WorkersOK' /\ HasLB' /\ Position'
  BY Zenon, <1>1, BaseKept, WorkersStay, PositionStays, WorkerFacts DEF Workers
<1>4. QED
  BY <1>1, <1>2, <1>3, QuietStep

------------------------------------------------------------------------------
(***************************************************************************)
(* Writes of the Service.                                                  *)
(***************************************************************************)
\* What every write respects.
Rewritten ==
  /\ svc' \in Service /\ svc'.id \in {NoID, 1} /\ (svc.id # NoID => svc'.id # NoID)
  /\ svc'.id = NoID => svc'.name = svc.name
  /\ ~ensurable(svc) => ~ensurable(svc')
  /\ svc.disown => svc'.disown
  /\ svc'.phase = "deleting" => svc'.finalizer

\* A step that writes the Service; the finalizer goes only after the cleanup.
LEMMA ServiceStep ==
  ASSUME IndInv, Rewritten, UNCHANGED <<lister, nodes, lbs, nextID, obj, aliased>>,
         \/ svc.finalizer => svc'.finalizer
         \/ ~ensurable(lister) /\ (lbs = {} \/ svc.disown),
         Counters', WorkersOK', HasLB', Position'
  PROVE  IndInv'
<1>1. TypeOK'
  BY Zenon DEF IndInv, TypeOK, Counters, HasLB, Rewritten
<1>2. OneID'
  BY Zenon DEF IndInv, OneID, Rewritten
<1>3. NamesAgree'
  BY Zenon DEF IndInv, NamesAgree, Named, Rewritten
<1>4. Wanted'
  BY Zenon DEF IndInv, Wanted, Rewritten
<1>5. Finalizers'
  BY DEF IndInv, Finalizers, FinalizerGuards, Rewritten
<1>6. QED
  BY Zenon, <1>1, <1>2, <1>3, <1>4, <1>5 DEF IndInv

\* The Service left alone, or with another status.
LEMMA StatusWrites ==
  ASSUME IndInv, NEW id \in IDs \cup {NoID}, svc' \in {svc, [svc EXCEPT !.status = id]}
  PROVE  Rewritten /\ svc'.finalizer = svc.finalizer /\ svc'.disown = svc.disown
<1>1. svc \in Service
  BY DEF IndInv, TypeOK
<1>2. /\ svc' \in Service /\ svc'.id = svc.id /\ svc'.name = svc.name /\ svc'.phase = svc.phase
      /\ svc'.lb = svc.lb /\ svc'.disown = svc.disown /\ svc'.finalizer = svc.finalizer
  BY Zenon, <1>1 DEF Service
<1>3. QED
  BY <1>2 DEF IndInv, Rewritten, OneID, Finalizers, ensurable

\* The patch of the annotation.
LEMMA AnnotationWrites ==
  ASSUME IndInv, NEW p \in Workers, obj[p] # Nil, patchAnnotation(p)
  PROVE  Rewritten /\ svc'.finalizer = svc.finalizer /\ svc'.disown = svc.disown
<1>1. svc \in Service /\ obj[p].id \in IDs \cup {NoID} /\ obj[p].id \in {NoID, 1}
  BY DEF IndInv, TypeOK, OneID, Service
<1>2. /\ svc' \in Service /\ svc'.name = svc.name /\ svc'.phase = svc.phase
      /\ svc'.lb = svc.lb /\ svc'.disown = svc.disown /\ svc'.finalizer = svc.finalizer
      /\ svc'.id \in {svc.id, obj[p].id} /\ (svc'.id # svc.id => obj[p].id # NoID)
  BY <1>1 DEF patchAnnotation, Service, IndInv, WorkersOK, BaseOK
<1>3. QED
  BY Zenon, <1>1, <1>2 DEF IndInv, Rewritten, OneID, Finalizers, ensurable

\* Adding the finalizer keeps the invariant.
LEMMA AddFinalizerStep ==
  ASSUME IndInv, AddFinalizer PROVE IndInv'
<1> USE DEF Workers
<1>0. w["svc"] \in Worker /\ w["svc"].pc = "addFinalizer" /\ obj["svc"] # Nil
  BY WorkerFacts DEF AddFinalizer, At
<1>1. UNCHANGED <<lister, nodes, lbs, nextID, obj, aliased>> /\ Counters'
  BY Zenon, CountersStay DEF AddFinalizer, cloud
<1>2. /\ Rewritten /\ (svc.finalizer => svc'.finalizer)
      /\ obj["svc"].finalizer \/ svc.phase = "live" => svc'.finalizer
  <2>1. svc \in Service
    BY DEF IndInv, TypeOK
  <2>2. /\ svc' \in Service /\ svc'.id = svc.id /\ svc'.name = svc.name /\ svc'.phase = svc.phase
        /\ svc'.lb = svc.lb /\ svc'.disown = svc.disown /\ (svc.finalizer => svc'.finalizer)
        /\ ~obj["svc"].finalizer /\ svc.phase = "live" => svc'.finalizer
    BY Zenon, <2>1 DEF AddFinalizer, Service
  <2>3. obj["svc"].finalizer => svc.finalizer
    BY Zenon, <1>0 DEF IndInv, Position, At
  <2>4. QED
    BY <2>2, <2>3 DEF IndInv, Rewritten, OneID, Finalizers, ensurable
<1>3. /\ w' \in [Workers -> Worker] /\ w'["node"] = w["node"] /\ w'["svc"].lb = w["svc"].lb
      /\ w'["svc"].base = w["svc"].base
      /\ \/ w'["svc"].pc = "ensure" /\ svc'.finalizer
         \/ w'["svc"].pc = "finish"
  <2>1. CASE obj["svc"].finalizer \/ svc.phase = "live"
    BY <1>2, <2>1, GotoFacts DEF AddFinalizer, IndInv, SvcPCs, EnsurePCs
  <2>2. CASE ~(obj["svc"].finalizer \/ svc.phase = "live")
    BY Zenon, <2>2, GotoWithFacts DEF AddFinalizer, IndInv, SvcPCs
  <2>3. QED
    BY <2>1, <2>2
<1>4. WorkersOK' /\ HasLB'
  BY Zenon, <1>0, <1>1, <1>3, BaseKept, SvcMoves, WorkerFacts DEF SvcPCs, EnsurePCs
<1>5. Position'
  BY Zenon, <1>0, <1>1, <1>3 DEF IndInv, Position, At, EnsurePCs, CleanupPCs
<1>6. QED
  BY <1>1, <1>2, <1>4, <1>5, ServiceStep

\* The deferred patch of either worker.
LEMMA PatchStep ==
  ASSUME IndInv, NEW p \in Workers, Patch(p) PROVE IndInv'
<1>0. w[p] \in Worker /\ w[p].pc = "patch" /\ obj[p] # Nil
  BY WorkerFacts DEF Patch, At
<1>1. UNCHANGED <<lister, nodes, lbs, nextID, obj, aliased>> /\ Counters'
  BY Zenon, CountersStay DEF Patch, cloud
<1>2. Rewritten /\ svc'.finalizer = svc.finalizer /\ svc'.disown = svc.disown
  BY Zenon, <1>0, AnnotationWrites DEF Patch
<1>3. /\ w' \in [Workers -> Worker] /\ \A q \in Workers \ {p} : w'[q] = w[q]
      /\ w'[p].lb = w[p].lb /\ \A q \in Workers : w'[q].base = w[q].base
      /\ p = "svc" => \/ w'[p].pc = "finish"
                      \/ w'[p].pc = "status" /\ w[p].result = "ok"
      /\ p = "node" => w'[p].pc \in {"done", "check"}
  <2> DEFINE result == IF patchRejected(p) THEN "fail" ELSE w[p].result
             r      == afterPatch(p, result)
  <2>1. result \in {"ok", "retry", "fail"} /\ (result = "ok" => w[p].result = "ok")
    BY Zenon, <1>0 DEF Worker
  <2> HIDE DEF result
  <2>2. /\ r \in Worker /\ r.lb = w[p].lb /\ r.base = w[p].base
        /\ p = "svc" => r.pc = "finish" \/ (r.pc = "status" /\ result = "ok")
        /\ p = "node" => r.pc \in {"done", "check"}
    <3>1. CASE p = "svc"
      BY Zenon, <1>0, <2>1, <3>1 DEF afterPatch, Worker, SvcPCs, EnsurePCs
    <3>2. CASE p = "node"
      BY ZenonT(60), <1>0, <2>1, <3>2 DEF afterPatch, Worker, NodePCs
    <3>3. QED
      BY <3>1, <3>2 DEF Workers
  <2>3. w' = [w EXCEPT ![p] = r]
    BY Zenon DEF Patch, result
  <2>4. w'[p] = r /\ \A q \in Workers \ {p} : w'[q] = w[q]
    BY Zenon, <2>3 DEF IndInv, WorkersOK
  <2>5. w' \in [Workers -> Worker]
    BY Zenon, <2>2, <2>3 DEF IndInv, WorkersOK
  <2>6. QED
    BY Zenon, <2>1, <2>2, <2>4, <2>5
<1>4. BaseOK'
  BY Zenon, <1>1, <1>3, BaseKept
<1>5. CASE p = "svc"
  <2>1. w'["node"] = w["node"]
    BY Zenon, <1>3, <1>5 DEF Workers
  <2>2. w'["svc"].pc = "status" => w'["svc"].lb # Nil
    BY Zenon, <1>0, <1>3, <1>5 DEF IndInv, WorkersOK, At
  <2>3. WorkersOK' /\ HasLB'
    BY Zenon, <1>0, <1>1, <1>3, <1>4, <1>5, <2>1, <2>2, SvcMoves, WorkerFacts DEF SvcPCs, EnsurePCs
  <2>4. Position'
    BY Zenon, <1>0, <1>1, <1>2, <1>3, <1>5 DEF IndInv, Position, At, EnsurePCs, CleanupPCs
  <2>5. QED
    BY Zenon, <1>1, <1>2, <2>3, <2>4, ServiceStep
<1>6. CASE p = "node"
  <2>1. w'["svc"] = w["svc"]
    BY Zenon, <1>3, <1>6 DEF Workers
  <2>2. WorkersOK' /\ HasLB'
    BY Zenon, <1>0, <1>1, <1>3, <1>4, <1>6, <2>1, NodeMoves, WorkerFacts DEF NodePCs
  <2>3. Position'
    BY Zenon, <1>1, <1>2, <2>1, PositionStays
  <2>4. QED
    BY <1>1, <1>2, <2>2, <2>3, ServiceStep
<1>7. QED
  BY <1>5, <1>6 DEF Workers

\* So does the deferred patch of the node sync's GetLoadBalancer.
LEMMA NodeCheckPatchStep ==
  ASSUME IndInv, NodeCheckPatch PROVE IndInv'
<1> USE DEF Workers
<1>0. w["node"] \in Worker /\ w["node"].pc = "checkPatch" /\ obj["node"] # Nil
  BY Zenon, WorkerFacts DEF NodeCheckPatch, At
<1>1. UNCHANGED <<lister, nodes, lbs, nextID, obj, aliased>> /\ Counters'
  BY Zenon, CountersStay DEF NodeCheckPatch, cloud
<1>2. Rewritten /\ svc'.finalizer = svc.finalizer /\ svc'.disown = svc.disown
  BY Zenon, <1>0, AnnotationWrites DEF NodeCheckPatch
<1>3. /\ w' \in [Workers -> Worker] /\ w'["svc"] = w["svc"] /\ w'["node"].lb = w["node"].lb
      /\ w'["node"].pc = "done" /\ w'["node"].base = w["node"].base
  BY Zenon, GotoFacts DEF NodeCheckPatch, IndInv, NodePCs
<1>4. WorkersOK' /\ HasLB'
  BY Zenon, <1>0, <1>1, <1>3, BaseKept, NodeMoves, WorkerFacts DEF NodePCs
<1>5. Position'
  BY Zenon, <1>1, <1>2, <1>3, PositionStays
<1>6. QED
  BY ZenonT(60), <1>1, <1>2, <1>4, <1>5, ServiceStep

\* The service worker's remaining writes of the status.
LEMMA StatusStep ==
  ASSUME IndInv, Status \/ ClearStatus \/ GetPatch PROVE IndInv'
<1> USE DEF Workers
<1>1. UNCHANGED <<lister, nodes, lbs, nextID, obj, aliased>> /\ Counters'
  BY Zenon, CountersStay DEF Status, ClearStatus, GetPatch, cloud
<1>2. Rewritten /\ svc'.finalizer = svc.finalizer /\ svc'.disown = svc.disown
  <2>1. CASE Status
    <3>1. w["svc"].lb # Nil /\ w["svc"].lb \in LB \cup {Nil}
      BY Zenon, <2>1, WorkerFacts DEF Status, At, IndInv, TypeOK, Worker
    <3>2. w["svc"].lb.id \in IDs \cup {NoID}
      BY <3>1 DEF LB
    <3>3. QED
      BY Zenon, <2>1, <3>2, StatusWrites DEF Status
  <2>2. CASE ClearStatus
    BY Zenon, <2>2, StatusWrites DEF ClearStatus
  <2>3. CASE GetPatch
    BY Zenon, <2>3, WorkerFacts, AnnotationWrites DEF GetPatch, At
  <2>4. QED
    BY <2>1, <2>2, <2>3
<1>3. /\ w' \in [Workers -> Worker] /\ w'["node"] = w["node"] /\ w'["svc"].lb = w["svc"].lb
      /\ w'["svc"].base = w["svc"].base
      /\ \/ w'["svc"].pc = "finish"
         \/ w'["svc"].pc \in {"uncache", "delete"} /\ w["svc"].pc \in CleanupPCs /\ obj["svc"] # Nil
  <2>1. CASE Status
    BY <2>1, GotoWithFacts DEF Status, IndInv, SvcPCs
  <2>2. CASE ClearStatus
    BY Zenon, <2>2, GotoFacts, WorkerFacts DEF ClearStatus, IndInv, SvcPCs, CleanupPCs, At
  <2>3. CASE GetPatch
    <3>1. w["svc"].pc = "getPatch" /\ obj["svc"] # Nil
      BY Zenon, <2>3, WorkerFacts DEF GetPatch, At
    <3>2. GotoWith("svc", "finish", "fail") \/ Goto("svc", "delete")
      BY Zenon, <2>3 DEF GetPatch
    <3>3. QED
      BY Zenon, <3>1, <3>2, GotoFacts, GotoWithFacts DEF IndInv, SvcPCs, CleanupPCs
  <2>4. QED
    BY <2>1, <2>2, <2>3
<1>4. WorkersOK' /\ HasLB'
  BY Zenon, <1>1, <1>3, BaseKept, SvcMoves, WorkerFacts DEF SvcPCs, CleanupPCs
<1>5. Position'
  BY Zenon, <1>1, <1>3 DEF IndInv, Position, At, EnsurePCs, CleanupPCs
<1>6. QED
  BY Zenon, <1>1, <1>2, <1>4, <1>5, ServiceStep

\* The finalizer is removed when the load balancer is gone or disowned.
LEMMA RemoveFinalizerStep ==
  ASSUME IndInv, RemoveFinalizer PROVE IndInv'
<1> USE DEF Workers
<1>0. /\ w["svc"] \in Worker /\ w["svc"].pc = "removeFinalizer" /\ obj["svc"] # Nil
      /\ ~ensurable(lister) /\ (lbs = {} \/ svc.disown)
  BY Zenon, WorkerFacts DEF RemoveFinalizer, At, IndInv, Position, CleanupPCs
<1>1. UNCHANGED <<lister, nodes, lbs, nextID, obj, aliased>> /\ Counters'
  BY Zenon, CountersStay DEF RemoveFinalizer, cloud
<1>2. Rewritten
  <2>1. svc \in Service
    BY DEF IndInv, TypeOK
  <2>2. /\ svc' \in Service /\ svc'.id = svc.id /\ svc'.name = svc.name
        /\ svc'.lb = svc.lb /\ svc'.disown = svc.disown
        /\ svc'.phase = "live" => svc.phase = "live"
        /\ svc'.phase = "deleting" => svc' = svc
    BY ZenonT(60), <2>1 DEF RemoveFinalizer, withoutFinalizer, Service
  <2>3. QED
    BY <2>2 DEF IndInv, Rewritten, OneID, Finalizers, ensurable
<1>3. /\ w' \in [Workers -> Worker] /\ w'["node"] = w["node"] /\ w'["svc"].lb = w["svc"].lb
      /\ w'["svc"].base = w["svc"].base /\ w'["svc"].pc \in {"finish", "clearStatus"}
  <2>1. GotoWith("svc", "finish", "fail") \/ Goto("svc", "clearStatus")
    BY Zenon DEF RemoveFinalizer
  <2>2. QED
    BY <2>1, GotoFacts, GotoWithFacts DEF IndInv, SvcPCs, CleanupPCs
<1>4. WorkersOK' /\ HasLB'
  BY Zenon, <1>0, <1>1, <1>3, BaseKept, SvcMoves, WorkerFacts DEF SvcPCs, CleanupPCs
<1>5. Position'
  BY Zenon, <1>0, <1>1, <1>3 DEF Position, At, EnsurePCs, CleanupPCs
<1>6. QED
  BY ZenonT(60), <1>0, <1>1, <1>2, <1>4, <1>5, ServiceStep

\* A user's edit: the name stays as long as there is no ID, and the Service does
\* not come back to wanting a load balancer.
LEMMA UserEditsStep ==
  ASSUME IndInv, UserEdits PROVE IndInv'
<1>1. PICK kind, new : EditService(kind, new) /\
        \/ \E v \in Versions : new = [svc EXCEPT !.config = v]
        \/ \E n \in LBNames : svc.id # NoID /\ new = [svc EXCEPT !.name = n]
        \/ new = [svc EXCEPT !.disown = TRUE]
        \/ new = [svc EXCEPT !.lb = FALSE]
        \/ new = [svc EXCEPT !.phase = IF svc.finalizer THEN "deleting" ELSE "gone"]
  BY Zenon DEF UserEdits
<1>2. UNCHANGED <<lister, nodes, lbs, nextID, obj, aliased, w, queue, nodeDirty>>
  BY <1>1 DEF EditService, cloud, process
<1>3. Counters'
  BY <1>1, <1>2, Disturbs DEF EditService, IndInv, TypeOK, Counters
<1>4. svc \in Service /\ svc' = new /\ svc.phase = "live"
  BY <1>1 DEF EditService, IndInv, TypeOK
<1>5. /\ svc' \in Service /\ svc'.id = svc.id /\ (svc.id = NoID => svc'.name = svc.name)
      /\ (svc'.lb => svc.lb) /\ (svc.disown => svc'.disown) /\ svc'.finalizer = svc.finalizer
      /\ svc'.phase = "deleting" => svc'.finalizer
  BY ZenonT(60), <1>1, <1>4 DEF Service
<1>6. Rewritten
  BY <1>4, <1>5 DEF IndInv, Rewritten, OneID, ensurable
<1>7. WorkersOK' /\ HasLB' /\ Position'
  BY <1>2, <1>5, BaseKept, WorkersStay, PositionStays, WorkerFacts DEF Workers
<1>8. QED
  BY <1>2, <1>3, <1>5, <1>6, <1>7, ServiceStep

==============================================================================
