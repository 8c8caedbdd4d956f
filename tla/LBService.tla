------------------------------- MODULE LBService -------------------------------
(***************************************************************************)
(* A Service of type LoadBalancer and its DigitalOcean load balancer.  Two *)
(* goroutines of the service controller call loadbalancers.go for it:      *)
(*   svc   serviceWorker: takes the Service from the informer store and    *)
(*         ensures or deletes its load balancer;                           *)
(*   node  nodeWorker: after a node event, updates the load balancers of   *)
(*         the Services the first one has cached.                          *)
(* They do not exclude each other.  Every API call is a step of its own,   *)
(* together with what the caller computes from the answer.                 *)
(*                                                                         *)
(* A Service is a record [phase, lb, finalizer, name, id, disown, config,  *)
(* status]: lb says whether its type is LoadBalancer; name, id and disown  *)
(* are annotations; config stands for everything else the load balancer's  *)
(* configuration is derived from; status is the load balancer whose        *)
(* address is published.                                                   *)
(***************************************************************************)
EXTENDS LBNodes

CONSTANTS Names,          \* node names
          NodeSpecs,      \* what a node may look like
          InitNodes,      \* the node lists to start with
          Absent,         \* no node of that name
          Config,         \* the load balancer's [type, network, stack]
          DefaultName,    \* DefaultLoadBalancerName(service)
          LBNames,        \* what the name annotation may be, DefaultName: not set
          Versions,       \* values of a Service's config
          MaxLBs,         \* bound: how many load balancers are ever created
          Scenarios,      \* what may happen: sets of kinds, see Disturb
          MaxDisturbances,\* bound: how often
          Nil

NoID == 0
IDs  == 1..MaxLBs

Service ==
  [phase : {"live", "deleting", "gone"}, lb : BOOLEAN, finalizer : BOOLEAN, name : LBNames,
   id : IDs \cup {NoID}, disown : BOOLEAN, config : Versions, status : IDs \cup {NoID}]

LB == [id : IDs, name : LBNames, config : Versions, droplets : SUBSET Names,
       status : {"new", "active"}]

ASSUME ServiceAssumption ==
  /\ DefaultName \in LBNames
  /\ InitNodes \subseteq [Names -> NodeSpecs \cup {Absent}]
  /\ Versions # {}
  /\ Nil \notin Service \cup LB
  /\ MaxLBs \in Nat /\ MaxDisturbances \in Nat

VARIABLES
  svc,        \* the Service in the Kubernetes API
  lister,     \* the informer's copy of it
  nodes,      \* the node lister
  lbs,        \* the load balancers in the DigitalOcean API
  nextID,     \* the ID of the next one
  obj,        \* the Service object each worker works on; obj.svc is the cached one
  aliased,    \* do both workers hold the same object?
  w,          \* each worker's [pc, base, lb, list, result]
  queue,      \* serviceQueue: [dirty, processing, waiting]
  nodeDirty,  \* nodeQueue is not empty
  lastSynced, \* lastSyncedNodes of the Service
  disturbed   \* what may happen in this behaviour and how often it did: [by, times]

vars == <<svc, lister, nodes, lbs, nextID, obj, aliased, w, queue, nodeDirty, lastSynced,
          disturbed>>
cloud   == <<lbs, nextID>>
process == <<lister, obj, aliased, w, queue, nodeDirty, lastSynced>>

Workers == {"svc", "node"}
Idle    == [pc |-> "idle", base |-> NoID, lb |-> Nil, list |-> <<>>, result |-> "ok"]

At(p, pc) == w[p].pc = pc

Disturb(kind) ==
  /\ kind \in disturbed.by
  /\ disturbed.times < MaxDisturbances
  /\ disturbed' = [disturbed EXCEPT !.times = disturbed.times + 1]

(***************************************************************************)
(* Node lists.                                                             *)
(***************************************************************************)
listed == [n \in {m \in Names : nodes[m] # Absent} |-> nodes[n]]

\* What nodesSufficientlyEqual compares.
providerIDs(list) == [n \in DOMAIN list |-> list[n].providerID]

\* The request a worker builds, the droplets of lb counting as admitted.
request(p, lb) ==
  buildLoadBalancerRequest(w[p].list, Config, IF lb = Nil THEN {} ELSE lb.droplets)

writtenResult(p, lb) ==
  retryIfNodesPendingInit(pendingInitNodes(w[p].list, Config), request(p, lb).pending)

\* The result of a pass that ends before the write.
failure(kind) == IF kind = "retry" THEN "retry" ELSE "fail"

(***************************************************************************)
(* retrieveLoadBalancer and updateServiceAnnotation.                       *)
(***************************************************************************)
\* Mutant: only the ID is looked up.
retrieveByID(s) == {l \in lbs : l.id = s.id}

retrieveLoadBalancer(s) ==
  IF s.id # NoID
  THEN {l \in lbs : l.id = s.id}
  ELSE {l \in lbs : l.name \in {s.name, DefaultName}}

\* The pointer is shared while aliased.
updateServiceAnnotation(p, id) ==
  obj' = [q \in Workers |-> IF q = p \/ aliased THEN [obj[q] EXCEPT !.id = id] ELSE obj[q]]

Goto(p, pc)         == w' = [w EXCEPT ![p].pc = pc]
GotoWith(p, pc, r)  == w' = [w EXCEPT ![p].pc = pc, ![p].result = r]

(***************************************************************************)
(* Calls made by both workers.                                             *)
(***************************************************************************)

\* Mutant: no case for errLBNotFound.
afterAnyRetrieve(p, lb) == [w[p] EXCEPT !.pc = "update", !.lb = lb]

\* What EnsureLoadBalancer and UpdateLoadBalancer do with the load balancer
\* found, Nil if there is none.
afterRetrieve(p, lb) ==
  LET kind == request(p, lb).kind IN
  CASE lb = Nil /\ p = "node" ->
         [w[p] EXCEPT !.pc = "patch", !.result = "fail"]
    [] (lb # Nil \/ p = "svc") /\ prepareFails(w[p].list, Config) ->
         [w[p] EXCEPT !.pc = "patch", !.result = "retry"]
    [] (lb # Nil \/ p = "svc") /\ ~prepareFails(w[p].list, Config) ->
         IF kind = "ok"
         THEN [w[p] EXCEPT !.pc = IF lb = Nil THEN "create" ELSE "update", !.lb = lb]
         ELSE [w[p] EXCEPT !.pc = "patch", !.result = failure(kind)]

Retrieve(p) ==
  /\ At(p, "retrieve")
  /\ \/ \E l \in retrieveLoadBalancer(obj[p]) :
          /\ updateServiceAnnotation(p, l.id)
          /\ w' = [w EXCEPT ![p] = afterRetrieve(p, l)]
     \/ /\ retrieveLoadBalancer(obj[p]) = {}
        /\ w' = [w EXCEPT ![p] = afterRetrieve(p, Nil)]
        /\ UNCHANGED obj
  /\ UNCHANGED <<svc, lister, nodes, cloud, aliased, queue, nodeDirty, lastSynced, disturbed>>

\* updateLoadBalancer: the request is built again from the object as it is now
\* and from the nodes listed at the start.  404 is an error like any other.
UpdateLB(p) ==
  LET lb  == w[p].lb
      cur == {l \in lbs : l.id = lb.id}
  IN
  /\ At(p, "update")
  /\ lbs' = (lbs \ cur) \cup {[l EXCEPT !.name = obj[p].name, !.config = obj[p].config,
                                        !.droplets = request(p, lb).droplets] : l \in cur}
  /\ GotoWith(p, "patch", IF cur = {} THEN "fail"
                          ELSE IF p = "svc" /\ \E l \in cur : l.status = "new" THEN "retry"
                          ELSE writtenResult(p, lb))
  /\ UNCHANGED <<svc, lister, nodes, nextID, obj, aliased, queue, nodeDirty, lastSynced, disturbed>>

\* The deferred servicePatcher.Patch: a merge patch of the annotation, sent only
\* if it changed since the object was copied.
afterPatch(p, result) ==
  CASE p = "svc"  -> [w[p] EXCEPT !.pc = IF result = "ok" THEN "status" ELSE "finish",
                                  !.result = result]
    [] p = "node" -> [w[p] EXCEPT !.pc = IF result = "ok" THEN "done" ELSE "check",
                                  !.result = result]

patchRejected(p) == obj[p].id # w[p].base /\ svc.phase = "gone"

patchAnnotation(p) ==
  svc' = IF obj[p].id = w[p].base \/ svc.phase = "gone" THEN svc ELSE [svc EXCEPT !.id = obj[p].id]

Patch(p) ==
  /\ At(p, "patch")
  /\ patchAnnotation(p)
  /\ w' = [w EXCEPT ![p] = afterPatch(p, IF patchRejected(p) THEN "fail" ELSE w[p].result)]
  /\ UNCHANGED <<lister, nodes, cloud, obj, aliased, queue, nodeDirty, lastSynced, disturbed>>

(***************************************************************************)
(* The service worker: processNextServiceItem and syncService.             *)
(***************************************************************************)
\* Mutant: the Service's type is not looked at.
wantsAlways(s) == TRUE

wantsLoadBalancer(s) == s.lb
needsCleanup(s)      == s.finalizer /\ (s.phase = "deleting" \/ ~s.lb)

\* Take the key and the Service from the informer store.  A Service that is gone
\* is cleaned up from the cached object, unless there is none to clean up.
Dequeue ==
  /\ At("svc", "idle")
  /\ queue.dirty /\ ~queue.processing
  /\ queue' = [queue EXCEPT !.dirty = FALSE, !.processing = TRUE]
  /\ \/ /\ lister.phase = "gone"
        /\ IF obj["svc"] # Nil /\ wantsLoadBalancer(obj["svc"])
           THEN Goto("svc", "deleteCached")
           ELSE Goto("svc", "uncache")
        /\ UNCHANGED <<obj, aliased>>
     \/ /\ lister.phase # "gone"
        /\ obj' = [obj EXCEPT !["svc"] = lister]
        /\ aliased' = FALSE
        /\ w' = [w EXCEPT !["svc"] = [Idle EXCEPT
                             !.pc = IF ~wantsLoadBalancer(lister) \/ needsCleanup(lister)
                                    THEN "getLB" ELSE "addFinalizer"]]
  /\ UNCHANGED <<svc, lister, nodes, cloud, nodeDirty, lastSynced, disturbed>>

\* The API server lets nobody add a finalizer to an object that is going away.
AddFinalizer ==
  /\ At("svc", "addFinalizer")
  /\ IF obj["svc"].finalizer \/ svc.phase = "live"
     THEN Goto("svc", "ensure")
     ELSE GotoWith("svc", "finish", "fail")
  /\ svc' = IF obj["svc"].finalizer \/ svc.phase # "live" THEN svc
            ELSE [svc EXCEPT !.finalizer = TRUE]
  /\ UNCHANGED <<lister, nodes, cloud, obj, aliased, queue, nodeDirty, lastSynced, disturbed>>

\* ensureLoadBalancer and the beginning of EnsureLoadBalancer.  A disowned load
\* balancer is left alone and the status as it is.  newServicePatcher copies the
\* object here, after the finalizer was added: an ID that the node worker put in
\* the shared object before this is not patched again.
Ensure ==
  /\ At("svc", "ensure")
  /\ lastSynced' = providerIDs(listed)
  /\ w' = [w EXCEPT !["svc"] =
             IF obj["svc"].disown
             THEN [@ EXCEPT !.pc = "finish", !.result = "ok"]
             ELSE IF prepareFails(listed, Config)
             THEN [@ EXCEPT !.pc = "finish", !.result = "retry"]
             ELSE [@ EXCEPT !.pc = "retrieve", !.base = obj["svc"].id, !.list = listed]]
  /\ UNCHANGED <<svc, lister, nodes, cloud, obj, aliased, queue, nodeDirty, disturbed>>

newLB(s, droplets) ==
  [id |-> nextID, name |-> s.name, config |-> s.config, droplets |-> droplets, status |-> "new"]

CreateLB ==
  /\ At("svc", "create")
  /\ nextID <= MaxLBs
  /\ lbs' = lbs \cup {newLB(obj["svc"], request("svc", Nil).droplets)}
  /\ nextID' = nextID + 1
  /\ updateServiceAnnotation("svc", nextID)
  /\ GotoWith("svc", "patch", "retry")
  /\ UNCHANGED <<svc, lister, nodes, aliased, queue, nodeDirty, lastSynced, disturbed>>

\* patchStatus; not found is fine.
Status ==
  /\ At("svc", "status")
  /\ svc' = IF svc.phase = "gone" \/ obj["svc"].status = w["svc"].lb.id THEN svc
            ELSE [svc EXCEPT !.status = w["svc"].lb.id]
  /\ GotoWith("svc", "finish", "ok")
  /\ UNCHANGED <<lister, nodes, cloud, obj, aliased, queue, nodeDirty, lastSynced, disturbed>>

\* Forget on success, AddAfter or AddRateLimited otherwise; then Done.
Finish ==
  /\ At("svc", "finish")
  /\ queue' = [queue EXCEPT !.processing = FALSE,
                            !.waiting = queue.waiting \/ w["svc"].result # "ok"]
  /\ w' = [w EXCEPT !["svc"] = Idle]
  /\ UNCHANGED <<svc, lister, nodes, cloud, obj, aliased, nodeDirty, lastSynced, disturbed>>

RetryDue ==
  /\ queue.waiting
  /\ queue' = [queue EXCEPT !.waiting = FALSE, !.dirty = TRUE]
  /\ UNCHANGED <<svc, lister, nodes, cloud, obj, aliased, w, nodeDirty, lastSynced, disturbed>>

(***************************************************************************)
(* The service worker: cleaning up.                                        *)
(***************************************************************************)

\* GetLoadBalancer annotates as well, and its deferred patch follows, relative to
\* the object as it was when GetLoadBalancer began.
GetLB ==
  /\ At("svc", "getLB")
  /\ \/ \E l \in retrieveLoadBalancer(obj["svc"]) :
          /\ updateServiceAnnotation("svc", l.id)
          /\ w' = [w EXCEPT !["svc"].pc = "getPatch", !["svc"].base = obj["svc"].id,
                            !["svc"].lb = l]
     \/ /\ retrieveLoadBalancer(obj["svc"]) = {}
        /\ Goto("svc", "removeFinalizer")
        /\ UNCHANGED obj
  /\ UNCHANGED <<svc, lister, nodes, cloud, aliased, queue, nodeDirty, lastSynced, disturbed>>

GetPatch ==
  /\ At("svc", "getPatch")
  /\ patchAnnotation("svc")
  /\ IF patchRejected("svc")
     THEN GotoWith("svc", "finish", "fail")
     ELSE Goto("svc", "delete")
  /\ UNCHANGED <<lister, nodes, cloud, obj, aliased, queue, nodeDirty, lastSynced, disturbed>>

\* EnsureLoadBalancerDeleted, called after GetLoadBalancer ("delete") or on the
\* cached object of a Service that is gone ("deleteCached").
afterDelete(pc) == IF pc = "delete" THEN "removeFinalizer" ELSE "uncache"

\* Mutant: EnsureLoadBalancerDeleted does not look for the disown annotation.
DeleteRetrieveDisowned(pc) ==
  /\ At("svc", pc)
  /\ IF retrieveLoadBalancer(obj["svc"]) = {}
     THEN Goto("svc", afterDelete(pc))
     ELSE \E l \in retrieveLoadBalancer(obj["svc"]) :
            w' = [w EXCEPT !["svc"].pc = IF pc = "delete" THEN "deleteLB" ELSE "deleteCachedLB",
                           !["svc"].lb = l]
  /\ UNCHANGED <<svc, lister, nodes, cloud, obj, aliased, queue, nodeDirty, lastSynced, disturbed>>

DeleteRetrieve(pc) ==
  /\ At("svc", pc)
  /\ IF obj["svc"].disown \/ retrieveLoadBalancer(obj["svc"]) = {}
     THEN Goto("svc", afterDelete(pc))
     ELSE \E l \in retrieveLoadBalancer(obj["svc"]) :
            w' = [w EXCEPT !["svc"].pc = IF pc = "delete" THEN "deleteLB" ELSE "deleteCachedLB",
                           !["svc"].lb = l]
  /\ UNCHANGED <<svc, lister, nodes, cloud, obj, aliased, queue, nodeDirty, lastSynced, disturbed>>

\* 404 counts as success.
DeleteLB ==
  /\ w["svc"].pc \in {"deleteLB", "deleteCachedLB"}
  /\ lbs' = {l \in lbs : l.id # w["svc"].lb.id}
  /\ Goto("svc", IF At("svc", "deleteLB") THEN "removeFinalizer" ELSE "uncache")
  /\ UNCHANGED <<svc, lister, nodes, nextID, obj, aliased, queue, nodeDirty, lastSynced, disturbed>>

\* Without its finalizer an object that is being deleted goes away.
withoutFinalizer(s) ==
  [s EXCEPT !.finalizer = FALSE, !.phase = IF @ = "deleting" THEN "gone" ELSE @]

RemoveFinalizer ==
  /\ At("svc", "removeFinalizer")
  /\ svc' = IF obj["svc"].finalizer /\ svc.phase # "gone" THEN withoutFinalizer(svc) ELSE svc
  /\ IF obj["svc"].finalizer /\ svc.phase = "gone"
     THEN GotoWith("svc", "finish", "fail")
     ELSE Goto("svc", "clearStatus")
  /\ UNCHANGED <<lister, nodes, cloud, obj, aliased, queue, nodeDirty, lastSynced, disturbed>>

ClearStatus ==
  /\ At("svc", "clearStatus")
  /\ svc' = IF obj["svc"].status = NoID \/ svc.phase = "gone" THEN svc
            ELSE [svc EXCEPT !.status = NoID]
  /\ Goto("svc", "uncache")
  /\ UNCHANGED <<lister, nodes, cloud, obj, aliased, queue, nodeDirty, lastSynced, disturbed>>

\* The load balancer is deleted: so is the cached object.
Uncache ==
  /\ At("svc", "uncache")
  /\ obj' = [obj EXCEPT !["svc"] = Nil]
  /\ aliased' = FALSE
  /\ GotoWith("svc", "finish", "ok")
  /\ UNCHANGED <<svc, lister, nodes, cloud, queue, nodeDirty, lastSynced, disturbed>>

(***************************************************************************)
(* The node worker: nodeSyncService and lockedUpdateLoadBalancerHosts.     *)
(***************************************************************************)

\* The object is the one the service worker has cached, not a copy.
NodeSync ==
  /\ At("node", "idle")
  /\ nodeDirty
  /\ nodeDirty' = FALSE
  /\ LET s == obj["svc"] IN
     IF s = Nil \/ ~wantsLoadBalancer(s)
     THEN UNCHANGED <<obj, aliased, w, lastSynced>>
     ELSE /\ lastSynced' = providerIDs(listed)
          /\ IF lastSynced = providerIDs(listed) \/ s.disown
             THEN UNCHANGED <<obj, aliased, w>>
             ELSE /\ obj' = [obj EXCEPT !["node"] = s]
                  /\ aliased' = TRUE
                  /\ w' = [w EXCEPT !["node"] = [Idle EXCEPT !.pc = "retrieve", !.base = s.id,
                                                             !.list = listed]]
  /\ UNCHANGED <<svc, lister, nodes, cloud, queue, disturbed>>

\* UpdateLoadBalancer failed.  GetLoadBalancer decides: if the load balancer is
\* gone there is nothing to retry.
NodeCheck ==
  /\ At("node", "check")
  /\ \/ \E l \in retrieveLoadBalancer(obj["node"]) :
          /\ updateServiceAnnotation("node", l.id)
          /\ w' = [w EXCEPT !["node"].pc = "checkPatch", !["node"].base = obj["node"].id]
     \/ /\ retrieveLoadBalancer(obj["node"]) = {}
        /\ GotoWith("node", "done", "ok")
        /\ UNCHANGED obj
  /\ UNCHANGED <<svc, lister, nodes, cloud, aliased, queue, nodeDirty, lastSynced, disturbed>>

NodeCheckPatch ==
  /\ At("node", "checkPatch")
  /\ patchAnnotation("node")
  /\ Goto("node", "done")
  /\ UNCHANGED <<lister, nodes, cloud, obj, aliased, queue, nodeDirty, lastSynced, disturbed>>

\* A failure is handed over to the service worker.
NodeDone ==
  /\ At("node", "done")
  /\ queue' = [queue EXCEPT !.dirty = queue.dirty \/ w["node"].result # "ok"]
  /\ obj' = [obj EXCEPT !["node"] = Nil]
  /\ aliased' = FALSE
  /\ w' = [w EXCEPT !["node"] = Idle]
  /\ UNCHANGED <<svc, lister, nodes, cloud, nodeDirty, lastSynced, disturbed>>

(***************************************************************************)
(* A call fails.  The deferred patch still runs after a failed cloud call. *)
(***************************************************************************)
calls == {"retrieve", "update", "create", "patch", "status", "addFinalizer", "getLB", "getPatch",
          "delete", "deleteCached", "deleteLB", "deleteCachedLB", "removeFinalizer",
          "clearStatus", "check", "checkPatch"}

\* Mutant: a load balancer that cannot be deleted is forgotten.
afterFailureOfDelete(p) ==
  CASE w[p].pc \in {"retrieve", "update", "create"} -> "patch"
    [] w[p].pc = "deleteLB" -> "removeFinalizer"
    [] w[p].pc \notin {"retrieve", "update", "create", "deleteLB"} -> "finish"

afterFailure(p) ==
  CASE w[p].pc \in {"retrieve", "update", "create"} -> "patch"
    [] w[p].pc = "patch" /\ p = "node" -> "check"
    [] w[p].pc \in {"check", "checkPatch"} -> "done"
    [] (w[p].pc # "patch" \/ p # "node")
       /\ w[p].pc \notin {"retrieve", "update", "create", "check", "checkPatch"} -> "finish"

\* A patch that would change nothing is not sent, and a disowned load balancer
\* is not looked up to be deleted.
callMade(p) ==
  /\ w[p].pc \in calls
  /\ At(p, "addFinalizer")    => ~obj[p].finalizer
  /\ At(p, "removeFinalizer") => obj[p].finalizer
  /\ At(p, "status")          => obj[p].status # w[p].lb.id
  /\ At(p, "clearStatus")     => obj[p].status # NoID
  /\ w[p].pc \in {"patch", "getPatch", "checkPatch"} => obj[p].id # w[p].base
  /\ w[p].pc \in {"delete", "deleteCached"} => ~obj[p].disown

CallFails(p) ==
  /\ callMade(p)
  /\ Disturb("error")
  /\ GotoWith(p, afterFailure(p), "fail")
  /\ UNCHANGED <<svc, lister, nodes, cloud, obj, aliased, queue, nodeDirty, lastSynced>>

\* The load balancer is created but the answer is lost.
CreateLost ==
  /\ At("svc", "create")
  /\ nextID <= MaxLBs
  /\ Disturb("lost")
  /\ lbs' = lbs \cup {newLB(obj["svc"], request("svc", Nil).droplets)}
  /\ nextID' = nextID + 1
  /\ GotoWith("svc", "patch", "fail")
  /\ UNCHANGED <<svc, lister, nodes, obj, aliased, queue, nodeDirty, lastSynced>>

(***************************************************************************)
(* The informer.  The handler runs after the store is updated; a Service   *)
(* that goes away is no event.                                             *)
(***************************************************************************)
annotations(s) == <<s.name, s.id, s.disown>>

needsUpdate(old, new) ==
  \/ wantsLoadBalancer(old) # wantsLoadBalancer(new)
  \/ /\ wantsLoadBalancer(new)
     /\ old.config # new.config \/ annotations(old) # annotations(new)

Informer ==
  /\ lister # svc
  /\ lister' = svc
  /\ queue' = [queue EXCEPT !.dirty = \/ queue.dirty
                                      \/ /\ svc.phase # "gone"
                                         /\ needsUpdate(lister, svc) \/ needsCleanup(svc)]
  /\ UNCHANGED <<svc, nodes, cloud, obj, aliased, w, nodeDirty, lastSynced, disturbed>>

(***************************************************************************)
(* Everything else.                                                        *)
(***************************************************************************)
EditService(kind, new) ==
  /\ svc.phase = "live"
  /\ new # svc
  /\ Disturb(kind)
  /\ svc' = new
  /\ UNCHANGED <<nodes, cloud, process>>

\* A load balancer may be renamed once the Service has its ID.
UserEdits ==
  \/ \E v \in Versions : EditService("config", [svc EXCEPT !.config = v])
  \/ \E n \in LBNames : svc.id # NoID /\ EditService("name", [svc EXCEPT !.name = n])
  \/ EditService("disown", [svc EXCEPT !.disown = TRUE])
  \/ EditService("clusterIP", [svc EXCEPT !.lb = FALSE])
  \/ EditService("delete", [svc EXCEPT !.phase = IF svc.finalizer THEN "deleting" ELSE "gone"])

Activate(l) ==
  /\ l.status = "new"
  /\ lbs' = (lbs \ {l}) \cup {[l EXCEPT !.status = "active"]}
  /\ UNCHANGED <<svc, nodes, nextID, process, disturbed>>

\* Only membership and provider IDs are events.
shouldSync(old, new) ==
  \/ (old = Absent) # (new = Absent)
  \/ old # Absent /\ new # Absent /\ old.providerID # new.providerID

NodeChange(n, spec) ==
  /\ spec # nodes[n]
  /\ Disturb(IF shouldSync(nodes[n], spec) THEN "node" ELSE "ready")
  /\ nodes' = [nodes EXCEPT ![n] = spec]
  /\ nodeDirty' = (nodeDirty \/ shouldSync(nodes[n], spec))
  /\ UNCHANGED <<svc, lister, cloud, obj, aliased, w, queue, lastSynced>>

\* A load balancer is edited in the cloud.
Drift(l, v) ==
  /\ v # l.config
  /\ Disturb("drift")
  /\ lbs' = (lbs \ {l}) \cup {[l EXCEPT !.config = v]}
  /\ UNCHANGED <<svc, nodes, nextID, process>>

\* Mutant: the add handler does not look for Services to clean up.
RestartWanted ==
  /\ Disturb("restart")
  /\ lister' = svc
  /\ obj' = [p \in Workers |-> Nil]
  /\ aliased' = FALSE
  /\ w' = [p \in Workers |-> Idle]
  /\ queue' = [dirty |-> svc.phase # "gone" /\ wantsLoadBalancer(svc),
               processing |-> FALSE, waiting |-> FALSE]
  /\ nodeDirty' = TRUE
  /\ lastSynced' = <<>>
  /\ UNCHANGED <<svc, nodes, cloud>>

\* A new process: all Services and nodes are added to the informers.
Restart ==
  /\ Disturb("restart")
  /\ lister' = svc
  /\ obj' = [p \in Workers |-> Nil]
  /\ aliased' = FALSE
  /\ w' = [p \in Workers |-> Idle]
  /\ queue' = [dirty |-> svc.phase # "gone" /\ (wantsLoadBalancer(svc) \/ needsCleanup(svc)),
               processing |-> FALSE, waiting |-> FALSE]
  /\ nodeDirty' = TRUE
  /\ lastSynced' = <<>>
  /\ UNCHANGED <<svc, nodes, cloud>>

\* A Service has just been created in a cluster whose nodes are known.
Init ==
  /\ svc \in {[phase |-> "live", lb |-> TRUE, finalizer |-> FALSE, name |-> n, id |-> NoID,
               disown |-> FALSE, config |-> CHOOSE v \in Versions : TRUE, status |-> NoID] :
               n \in LBNames}
  /\ lister = svc
  /\ nodes \in InitNodes
  /\ lbs = {}
  /\ nextID = 1
  /\ obj = [p \in Workers |-> Nil]
  /\ aliased = FALSE
  /\ w = [p \in Workers |-> Idle]
  /\ queue = [dirty |-> TRUE, processing |-> FALSE, waiting |-> FALSE]
  /\ nodeDirty = FALSE
  /\ lastSynced = <<>>
  /\ disturbed \in [by : Scenarios, times : {0}]

ServiceWorker ==
  \/ Dequeue \/ AddFinalizer \/ Ensure \/ Retrieve("svc") \/ UpdateLB("svc") \/ CreateLB
  \/ CreateLost \/ Patch("svc") \/ Status \/ GetLB \/ GetPatch
  \/ DeleteRetrieve("delete") \/ DeleteRetrieve("deleteCached") \/ DeleteLB
  \/ RemoveFinalizer \/ ClearStatus \/ Uncache \/ Finish \/ CallFails("svc")

NodeWorker ==
  \/ NodeSync \/ Retrieve("node") \/ UpdateLB("node") \/ Patch("node")
  \/ NodeCheck \/ NodeCheckPatch \/ NodeDone \/ CallFails("node")

Environment ==
  \/ UserEdits \/ Restart
  \/ \E l \in lbs, v \in Versions : Drift(l, v)
  \/ \E n \in Names, spec \in NodeSpecs \cup {Absent} : NodeChange(n, spec)

Next ==
  \/ ServiceWorker \/ NodeWorker \/ RetryDue \/ Informer
  \/ \E l \in lbs : Activate(l)
  \/ Environment

\* The goroutines run, timers fire, the informer delivers, and the cloud
\* finishes what it has started.
Fairness ==
  /\ WF_vars(ServiceWorker) /\ WF_vars(NodeWorker) /\ WF_vars(RetryDue) /\ WF_vars(Informer)
  /\ WF_vars(\E l \in lbs : Activate(l))

Spec     == Init /\ [][Next]_vars
FairSpec == Spec /\ Fairness

--------------------------------------------------------------------------------
(***************************************************************************)
(* Properties.                                                             *)
(***************************************************************************)
\* The type invariant: in particular a worker that is about to address a load
\* balancer by ID has one in hand, and the workers share an object or do not.
TypeOK ==
  /\ svc \in Service /\ lister \in Service
  /\ nodes \in [Names -> NodeSpecs \cup {Absent}]
  /\ lbs \subseteq LB /\ nextID \in 1..(MaxLBs + 1)
  /\ obj \in [Workers -> Service \cup {Nil}]
  /\ aliased => obj["svc"] = obj["node"] /\ obj["svc"] # Nil
  /\ \A p \in Workers : w[p].pc \in {"update", "deleteLB", "deleteCachedLB", "status"} => w[p].lb # Nil
  /\ queue \in [dirty : BOOLEAN, processing : BOOLEAN, waiting : BOOLEAN]
  /\ nodeDirty \in BOOLEAN /\ disturbed \in [by : Scenarios, times : 0..MaxDisturbances]

\* A Service has at most one load balancer, however calls fail and processes
\* die between creating it and recording its ID.
OneLoadBalancer == \A l, m \in lbs : l = m

\* A Service gets one load balancer in its life: once EnsureLoadBalancerDeleted
\* has deleted it, no copy of the Service that is still around, in the informer
\* store, the cache or a worker's hands, brings another one into being.
CreatedOnce == nextID <= 2

\* While a Service has a load balancer that it has not disowned it has the
\* finalizer, so that it cannot go away and leave the load balancer behind.
FinalizerGuards == lbs # {} /\ ~svc.disown => svc.finalizer

\* What a Service that is left alone is to end up with.
expected(l) ==
  /\ svc.id = l.id /\ svc.status = l.id /\ svc.finalizer
  /\ l.name = svc.name /\ l.config = svc.config
  /\ \A n \in DOMAIN listed :
       serving(nodes[n]) /\ n \in lbReadyNodes(listed, DOMAIN listed, Config) => n \in l.droplets

\* No request can be built from the nodes there are.
Blocked ==
  \/ prepareFails(listed, Config)
  \/ buildLoadBalancerRequest(listed, Config, UNION {l.droplets : l \in lbs}).kind # "ok"

Settled ==
  \/ svc.disown
  \/ /\ svc.phase = "live" /\ svc.lb
     /\ Blocked \/ \E l \in lbs : lbs = {l} /\ expected(l)
  \/ /\ svc.phase # "live" \/ ~svc.lb
     /\ lbs = {} /\ ~svc.finalizer

\* Once nothing happens any more the load balancer becomes what the Service and
\* the nodes ask for, and the Service refers to it.
Convergence == <>[]Settled
================================================================================
