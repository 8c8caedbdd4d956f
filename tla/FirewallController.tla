-------------------------- MODULE FirewallController --------------------------
(***************************************************************************)
(* The public access firewall controller.  Two goroutines share a work     *)
(* queue with one key and a cached copy of the firewall:                   *)
(*   worker  runWorker: take the key, list the Services from the informer  *)
(*           store, compare the wanted firewall with the cached one and    *)
(*           update or create it over the API;                             *)
(*   syncer  Run: on every tick fetch the firewall into the cache and add  *)
(*           the key.                                                      *)
(* Around them are the informer, which updates its store and then calls    *)
(* the event handlers that add the key, and the DigitalOcean API, where    *)
(* others may edit, delete and create firewalls and where calls fail.      *)
(*                                                                         *)
(* Every API call is one step (the server's), and what the caller does     *)
(* with the answer is a later step: the answer may be old by then.         *)
(***************************************************************************)
EXTENDS FirewallRules

CONSTANTS Services,       \* names of Services
          Specs,          \* what a Service may look like
          ManagedName,    \* PUBLIC_ACCESS_FIREWALL_NAME
          OtherName,      \* a name a user may give the firewall
          Edits,          \* rules a user may give a firewall
          UniqueNames,    \* does the API refuse a second firewall of a name?
          Scenarios,      \* what may happen to the controller: sets of kinds, see Disturb
          MaxDisturbances,\* bound: how often something of it happens
          MaxFirewalls,   \* bound: how many firewalls are ever created
          Nil             \* a nil *godo.Firewall

ASSUME ConstantsAssumption ==
  /\ Absent \notin Specs
  /\ ManagedName # OtherName
  /\ UniqueNames \in BOOLEAN
  /\ MaxDisturbances \in Nat
  /\ MaxFirewalls \in Nat \ {0}

VARIABLES
  services,   \* the Services in the Kubernetes API
  lister,     \* the informer's store of them
  notify,     \* an event handler call is due
  firewalls,  \* the firewalls in the DigitalOcean API
  nextID,     \* the ID the API gives to the next firewall
  late,       \* writes whose caller gave up and that may still take effect
  cache,      \* firewallCache: [isSet, firewall]
  queue,      \* the work queue: [dirty, processing, waiting, shuttingDown]
  pc,         \* where worker and syncer are
  held,       \* the firewall each of them has in hand
  seen,       \* the worker's serviceList
  handled,    \* history: the serviceList of the last pass that succeeded
  stopCh,     \* has the stop channel been closed?
  disturbed   \* what may happen in this behaviour and how often it did: [by, times]

vars == <<services, lister, notify, firewalls, nextID, late, cache, queue, pc,
          held, seen, handled, stopCh, disturbed>>

k8sVars  == <<services, lister, notify>>
apiVars  == <<firewalls, nextID, late>>
procVars == <<cache, queue, pc, held, seen, handled, stopCh>>

Procs       == {"worker", "syncer"}
Lists       == [Services -> Specs \cup {Absent}]
StartPC     == [p \in Procs |-> IF p = "worker" THEN "idle" ELSE "wait"]
NoServices  == [n \in Services |-> Absent]
Request(l)  == createReconciledFirewallRequest(l)
Rules       == {Request(l) : l \in Lists} \cup Edits
IDs         == 1..MaxFirewalls
Firewall    == [id : IDs, name : {ManagedName, OtherName}, rules : Rules]
Write       == [op : {"update", "create"}, id : IDs \cup {0}, rules : Rules]

ASSUME NilAssumption == Nil \notin Firewall

(***************************************************************************)
(* firewall_controller_diff.go.  The ID is not compared.                   *)
(***************************************************************************)
firewallRequestEqual(fw, rules) == fw # Nil /\ fw.name = ManagedName /\ fw.rules = rules

firewallsEqual(fw1, fw2) ==
  IF fw1 = Nil \/ fw2 = Nil
  THEN fw1 = fw2
  ELSE fw1.name = fw2.name /\ fw1.rules = fw2.rules

updateCache(fw) ==
  cache' = [isSet    |-> TRUE,
            firewall |-> IF firewallsEqual(cache.firewall, fw) THEN cache.firewall ELSE fw]

(***************************************************************************)
(* The work queue (client-go).  With one key its fifo is non-empty exactly *)
(* when the key is dirty and not being processed.                          *)
(***************************************************************************)
Queue ==
  [dirty : BOOLEAN, processing : BOOLEAN, waiting : BOOLEAN, shuttingDown : BOOLEAN]

EmptyQueue == [dirty |-> FALSE, processing |-> FALSE, waiting |-> FALSE, shuttingDown |-> FALSE]

Added(q) == [q EXCEPT !.dirty = q.dirty \/ ~q.shuttingDown]

AddedRateLimited(q) == [q EXCEPT !.waiting = q.waiting \/ ~q.shuttingDown]

Gotten(q) == [q EXCEPT !.dirty = FALSE, !.processing = TRUE]

Done(q) == [q EXCEPT !.processing = FALSE]

queued == queue.dirty /\ ~queue.processing

Goto(p, from, to) == pc[p] = from /\ pc' = [pc EXCEPT ![p] = to]

Disturb(kind) ==
  /\ kind \in disturbed.by
  /\ disturbed.times < MaxDisturbances
  /\ disturbed' = [disturbed EXCEPT !.times = disturbed.times + 1]

(***************************************************************************)
(* The firewall API.                                                       *)
(***************************************************************************)
byID(id)   == {f \in firewalls : f.id = id}
byName     == {f \in firewalls : f.name = ManagedName}
written(id, rules) == [id |-> id, name |-> ManagedName, rules |-> rules]

\* A PUT of the rules and the managed name; a name in use elsewhere is refused.
updateAccepted(id) ==
  byID(id) # {} /\ (UniqueNames => \A f \in byName : f.id = id)
applyUpdate(id, rules) ==
  /\ firewalls' = (firewalls \ byID(id)) \cup {written(id, rules)}
  /\ UNCHANGED nextID

createAccepted == UniqueNames => byName = {}
applyCreate(rules) ==
  /\ nextID <= MaxFirewalls
  /\ firewalls' = firewalls \cup {written(nextID, rules)}
  /\ nextID' = nextID + 1

(***************************************************************************)
(* firewallManager.Get, run by either goroutine.                           *)
(***************************************************************************)
GetCached(p) ==
  /\ Goto(p, "get", IF cache.firewall = Nil THEN "byList" ELSE "byID")
  /\ held' = [held EXCEPT ![p] = cache.firewall]
  /\ UNCHANGED <<k8sVars, apiVars, cache, queue, seen, handled, stopCh, disturbed>>

\* Mutant: 404 is an error like any other.
GetByIDOnly(p) ==
  /\ pc[p] = "byID"
  /\ \/ \E fw \in byID(held[p].id) :
          /\ Goto(p, "byID", "store")
          /\ held' = [held EXCEPT ![p] = fw]
     \/ /\ byID(held[p].id) = {}
        /\ Goto(p, "byID", IF p = "worker" THEN "failed" ELSE "wait")
        /\ held' = [held EXCEPT ![p] = Nil]
  /\ UNCHANGED <<k8sVars, apiVars, cache, queue, seen, handled, stopCh, disturbed>>

\* 404 falls through to the list.
GetByID(p) ==
  /\ pc[p] = "byID"
  /\ \/ \E fw \in byID(held[p].id) :
          /\ Goto(p, "byID", "store")
          /\ held' = [held EXCEPT ![p] = fw]
     \/ /\ byID(held[p].id) = {}
        /\ Goto(p, "byID", "byList")
        /\ held' = [held EXCEPT ![p] = Nil]
  /\ UNCHANGED <<k8sVars, apiVars, cache, queue, seen, handled, stopCh, disturbed>>

GetByList(p) ==
  /\ Goto(p, "byList", "store")
  /\ \E fw \in (IF byName = {} THEN {Nil} ELSE byName) :
       held' = [held EXCEPT ![p] = fw]
  /\ UNCHANGED <<k8sVars, apiVars, cache, queue, seen, handled, stopCh, disturbed>>

\* The deferred updateCache, then back to the caller.
GetStore(p) ==
  /\ Goto(p, "store", IF p = "worker" THEN "compare" ELSE "enqueue")
  /\ updateCache(held[p])
  /\ UNCHANGED <<k8sVars, apiVars, queue, held, seen, handled, stopCh, disturbed>>

\* Any other answer than success or 404, a timeout included: no updateCache.
GetFails(p) ==
  /\ pc[p] \in {"byID", "byList"}
  /\ pc' = [pc EXCEPT ![p] = IF p = "worker" THEN "failed" ELSE "wait"]
  /\ held' = [held EXCEPT ![p] = Nil]
  /\ Disturb("error")
  /\ UNCHANGED <<k8sVars, apiVars, cache, queue, seen, handled, stopCh>>

(***************************************************************************)
(* The worker: processNextItem.                                            *)
(***************************************************************************)
Dequeue ==
  /\ queued
  /\ Goto("worker", "idle", "list")
  /\ queue' = Gotten(queue)
  /\ UNCHANGED <<k8sVars, apiVars, cache, held, seen, handled, stopCh, disturbed>>

Quit ==
  /\ queue.shuttingDown /\ ~queued
  /\ Goto("worker", "idle", "quit")
  /\ UNCHANGED <<k8sVars, apiVars, cache, queue, held, seen, handled, stopCh, disturbed>>

\* serviceLister.List and createReconciledFirewallRequest.
ListServices ==
  /\ Goto("worker", "list", IF Request(lister) = BuildError THEN "failed" ELSE "prefer")
  /\ seen' = lister
  /\ UNCHANGED <<k8sVars, apiVars, cache, queue, held, handled, stopCh, disturbed>>

GetPreferFromCache ==
  /\ Goto("worker", "prefer", IF cache.isSet THEN "compare" ELSE "get")
  /\ held' = [held EXCEPT !["worker"] = cache.firewall]
  /\ UNCHANGED <<k8sVars, apiVars, cache, queue, seen, handled, stopCh, disturbed>>

\* Mutant: a missing firewall is updated.
CompareAnyway ==
  /\ Goto("worker", "compare",
          IF firewallRequestEqual(held["worker"], Request(seen)) THEN "succeeded" ELSE "update")
  /\ UNCHANGED <<k8sVars, apiVars, cache, queue, held, seen, handled, stopCh, disturbed>>

Compare ==
  /\ Goto("worker", "compare",
          IF firewallRequestEqual(held["worker"], Request(seen)) THEN "succeeded"
          ELSE IF held["worker"] = Nil THEN "create" ELSE "update")
  /\ UNCHANGED <<k8sVars, apiVars, cache, queue, held, seen, handled, stopCh, disturbed>>

\* Mutant: the request is computed from the Services as they are by now.
UpdateFirewallRelisted ==
  LET id == held["worker"].id IN
  /\ Goto("worker", "update", "commit")
  /\ updateAccepted(id)
  /\ applyUpdate(id, Request(lister))
  /\ held' = [held EXCEPT !["worker"] = written(id, Request(lister))]
  /\ UNCHANGED <<k8sVars, late, cache, queue, seen, handled, stopCh, disturbed>>

\* Set, with a firewall ID.  404: the firewall is gone, create it.
UpdateFirewall ==
  LET id == held["worker"].id IN
  /\ pc["worker"] = "update"
  /\ \/ /\ updateAccepted(id)
        /\ Goto("worker", "update", "commit")
        /\ applyUpdate(id, Request(seen))
        /\ held' = [held EXCEPT !["worker"] = written(id, Request(seen))]
     \/ /\ byID(id) = {}
        /\ Goto("worker", "update", "create")
        /\ UNCHANGED <<firewalls, nextID, held>>
     \/ /\ byID(id) # {} /\ ~updateAccepted(id)
        /\ Goto("worker", "update", "failed")
        /\ UNCHANGED <<firewalls, nextID, held>>
  /\ UNCHANGED <<k8sVars, late, cache, queue, seen, handled, stopCh, disturbed>>

CreateFirewall ==
  /\ \/ /\ createAccepted
        /\ Goto("worker", "create", "commit")
        /\ applyCreate(Request(seen))
        /\ held' = [held EXCEPT !["worker"] = written(nextID, Request(seen))]
     \/ /\ ~createAccepted
        /\ Goto("worker", "create", "failed")
        /\ UNCHANGED <<firewalls, nextID, held>>
  /\ UNCHANGED <<k8sVars, late, cache, queue, seen, handled, stopCh, disturbed>>

\* The call fails or times out and has no effect.
WriteFails ==
  /\ pc["worker"] \in {"update", "create"}
  /\ pc' = [pc EXCEPT !["worker"] = "failed"]
  /\ Disturb("error")
  /\ UNCHANGED <<k8sVars, apiVars, cache, queue, held, seen, handled, stopCh>>

\* The caller times out; the server may still carry the request out.
WriteTimesOut ==
  /\ pc["worker"] \in {"update", "create"}
  /\ late' = late \cup {[op    |-> pc["worker"],
                         id    |-> IF pc["worker"] = "update" THEN held["worker"].id ELSE 0,
                         rules |-> Request(seen)]}
  /\ pc' = [pc EXCEPT !["worker"] = "failed"]
  /\ Disturb("timeout")
  /\ UNCHANGED <<k8sVars, firewalls, nextID, cache, queue, held, seen, handled, stopCh>>

\* Set's deferred updateCache.
Commit ==
  /\ Goto("worker", "commit", "succeeded")
  /\ updateCache(held["worker"])
  /\ UNCHANGED <<k8sVars, apiVars, queue, held, seen, handled, stopCh, disturbed>>

\* Mutant: a failed pass is forgotten.
FinishForgetting ==
  /\ \/ Goto("worker", "succeeded", "idle") /\ handled' = seen
     \/ Goto("worker", "failed", "idle") /\ UNCHANGED handled
  /\ queue' = Done(queue)
  /\ held' = [held EXCEPT !["worker"] = Nil]
  /\ seen' = NoServices
  /\ UNCHANGED <<k8sVars, apiVars, cache, stopCh, disturbed>>

\* Forget, or AddRateLimited; then the deferred Done.
Finish ==
  /\ \/ /\ Goto("worker", "succeeded", "idle")
        /\ queue' = Done(queue)
        /\ handled' = seen
     \/ /\ Goto("worker", "failed", "idle")
        /\ queue' = Done(AddedRateLimited(queue))
        /\ UNCHANGED handled
  /\ held' = [held EXCEPT !["worker"] = Nil]
  /\ seen' = NoServices
  /\ UNCHANGED <<k8sVars, apiVars, cache, stopCh, disturbed>>

RetryDue ==
  /\ queue.waiting
  /\ queue' = Added([queue EXCEPT !.waiting = FALSE])
  /\ UNCHANGED <<k8sVars, apiVars, cache, pc, held, seen, handled, stopCh, disturbed>>

(***************************************************************************)
(* The syncer: Run and syncResource.                                       *)
(***************************************************************************)
Tick ==
  /\ ~stopCh
  /\ Goto("syncer", "wait", "get")
  /\ UNCHANGED <<k8sVars, apiVars, cache, queue, held, seen, handled, stopCh, disturbed>>

\* Mutant: the cache is refreshed and nobody is told.
EnqueueNothing ==
  /\ Goto("syncer", "enqueue", "wait")
  /\ held' = [held EXCEPT !["syncer"] = Nil]
  /\ UNCHANGED <<k8sVars, apiVars, cache, queue, seen, handled, stopCh, disturbed>>

Enqueue ==
  /\ Goto("syncer", "enqueue", "wait")
  /\ queue' = Added(queue)
  /\ held' = [held EXCEPT !["syncer"] = Nil]
  /\ UNCHANGED <<k8sVars, apiVars, cache, seen, handled, stopCh, disturbed>>

\* Mutant: the queue stays open.
ShutDownNothing ==
  /\ stopCh
  /\ Goto("syncer", "wait", "quit")
  /\ UNCHANGED <<k8sVars, apiVars, cache, queue, held, seen, handled, stopCh, disturbed>>

\* PollUntil returns; queue.ShutDown also ends the loop that serves retries.
ShutDown ==
  /\ stopCh
  /\ Goto("syncer", "wait", "quit")
  /\ queue' = [queue EXCEPT !.shuttingDown = TRUE, !.waiting = FALSE]
  /\ UNCHANGED <<k8sVars, apiVars, cache, held, seen, handled, stopCh, disturbed>>

(***************************************************************************)
(* The informer: the store first, the event handler afterwards.            *)
(***************************************************************************)
InformerStore(n) ==
  /\ lister[n] # services[n]
  /\ lister' = [lister EXCEPT ![n] = services[n]]
  /\ notify' = TRUE
  /\ UNCHANGED <<services, apiVars, procVars, disturbed>>

EventHandler ==
  /\ notify
  /\ notify' = FALSE
  /\ queue' = Added(queue)
  /\ UNCHANGED <<services, lister, apiVars, cache, pc, held, seen, handled, stopCh, disturbed>>

(***************************************************************************)
(* Everything else.                                                        *)
(***************************************************************************)
ChangeService(n, spec) ==
  /\ spec # services[n]
  /\ services' = [services EXCEPT ![n] = spec]
  /\ Disturb("service")
  /\ UNCHANGED <<lister, notify, apiVars, procVars>>

\* A user edits, renames, deletes or creates a firewall behind the
\* controller's back.
UserEdit(fw, rules) ==
  /\ fw \in firewalls
  /\ rules # fw.rules
  /\ firewalls' = (firewalls \ {fw}) \cup {[fw EXCEPT !.rules = rules]}
  /\ Disturb("edit")
  /\ UNCHANGED <<k8sVars, nextID, late, procVars>>

UserRename(fw) ==
  /\ fw \in byName
  /\ firewalls' = (firewalls \ {fw}) \cup {[fw EXCEPT !.name = OtherName]}
  /\ Disturb("rename")
  /\ UNCHANGED <<k8sVars, nextID, late, procVars>>

UserDelete(fw) ==
  /\ fw \in firewalls
  /\ firewalls' = firewalls \ {fw}
  /\ Disturb("delete")
  /\ UNCHANGED <<k8sVars, nextID, late, procVars>>

UserCreate(rules) ==
  /\ createAccepted
  /\ applyCreate(rules)
  /\ Disturb("create")
  /\ UNCHANGED <<k8sVars, late, procVars>>

\* A write that was given up takes effect, or never does.
LateWrite(w) ==
  /\ w \in late
  /\ late' = late \ {w}
  /\ \/ w.op = "update" /\ updateAccepted(w.id) /\ applyUpdate(w.id, w.rules)
     \/ w.op = "create" /\ createAccepted /\ applyCreate(w.rules)
     \/ UNCHANGED <<firewalls, nextID>>
  /\ UNCHANGED <<k8sVars, procVars, disturbed>>

\* A fresh process: the informer has synced before the handlers are
\* registered, and registering them replays the Services in the store.
ProcessStart ==
  /\ lister' = services
  /\ notify' = (services # NoServices)
  /\ cache' = [isSet |-> FALSE, firewall |-> Nil]
  /\ queue' = EmptyQueue
  /\ pc' = StartPC
  /\ held' = [p \in Procs |-> Nil]
  /\ seen' = NoServices
  /\ handled' = NoServices
  /\ stopCh' = FALSE

Restart ==
  /\ ProcessStart
  /\ Disturb("restart")
  /\ UNCHANGED <<services, apiVars>>

Stop ==
  /\ ~stopCh
  /\ stopCh' = TRUE
  /\ Disturb("stop")
  /\ UNCHANGED <<k8sVars, apiVars, cache, queue, pc, held, seen, handled>>

Init ==
  /\ services \in Lists
  /\ lister = services
  /\ notify = (services # NoServices)
  /\ firewalls \in {{}} \cup {{written(1, r)} : r \in Rules \ {BuildError}}
  /\ nextID = IF firewalls = {} THEN 1 ELSE 2
  /\ late = {}
  /\ cache = [isSet |-> FALSE, firewall |-> Nil]
  /\ queue = EmptyQueue
  /\ pc = StartPC
  /\ held = [p \in Procs |-> Nil]
  /\ seen = NoServices
  /\ handled = NoServices
  /\ stopCh = FALSE
  /\ disturbed \in [by : Scenarios, times : {0}]

Get(p) == GetCached(p) \/ GetByID(p) \/ GetByList(p) \/ GetStore(p) \/ GetFails(p)

WorkerStep ==
  \/ Dequeue \/ Quit \/ ListServices \/ GetPreferFromCache \/ Get("worker") \/ Compare
  \/ UpdateFirewall \/ CreateFirewall \/ WriteFails \/ WriteTimesOut \/ Commit \/ Finish

SyncerStep == Tick \/ Get("syncer") \/ Enqueue \/ ShutDown

InformerStep == EventHandler \/ \E n \in Services : InformerStore(n)

Environment ==
  \/ \E n \in Services, spec \in Specs \cup {Absent} : ChangeService(n, spec)
  \/ \E fw \in firewalls, rules \in Rules \ {BuildError} : UserEdit(fw, rules)
  \/ \E fw \in firewalls : UserRename(fw)
  \/ \E fw \in firewalls : UserDelete(fw)
  \/ \E rules \in Rules \ {BuildError} : UserCreate(rules)
  \/ Restart
  \/ Stop

Next ==
  \/ WorkerStep \/ SyncerStep \/ InformerStep \/ RetryDue
  \/ \E w \in late : LateWrite(w)
  \/ Environment

(***************************************************************************)
(* Fairness.  The goroutines are scheduled, timers fire, the informer      *)
(* delivers, and a request the server has accepted is carried out or       *)
(* dropped.  Nothing is asked of users, nor of failures.                   *)
(***************************************************************************)
Fairness ==
  /\ WF_vars(WorkerStep)
  /\ WF_vars(SyncerStep)
  /\ WF_vars(InformerStep)
  /\ WF_vars(RetryDue)
  /\ WF_vars(\E w \in late : LateWrite(w))

Spec == Init /\ [][Next]_vars

FairSpec == Spec /\ Fairness

-------------------------------------------------------------------------------
(***************************************************************************)
(* The abstract specification.  A pass has its snapshot from ListServices  *)
(* until it writes or ends.                                                *)
(***************************************************************************)
Deciding == {"prefer", "get", "byID", "byList", "store", "compare", "update", "create"}

Snapshot == IF pc["worker"] \in Deciding THEN {seen} ELSE {}
GivenUp  == {w.rules : w \in late}

Promise ==
  INSTANCE FirewallPromise WITH
    RulesOf       <- Request,
    store         <- lister,
    snapshot      <- Snapshot,
    late          <- GivenUp,
    interferences <- disturbed.times

-------------------------------------------------------------------------------
(***************************************************************************)
(* Properties.                                                             *)
(***************************************************************************)
WorkerPCs == {"idle", "list", "prefer", "get", "byID", "byList", "store", "compare",
              "update", "create", "commit", "succeeded", "failed", "quit"}
SyncerPCs == {"wait", "get", "byID", "byList", "store", "enqueue", "quit"}

\* The type invariant: in particular a goroutine that is about to address a
\* firewall by ID has one in hand, so fw.ID never dereferences nil.
TypeOK ==
  /\ services \in Lists /\ lister \in Lists /\ seen \in Lists /\ handled \in Lists
  /\ notify \in BOOLEAN /\ stopCh \in BOOLEAN
  /\ firewalls \subseteq Firewall
  /\ nextID \in 1..(MaxFirewalls + 1)
  /\ late \subseteq Write
  /\ cache \in [isSet : BOOLEAN, firewall : Firewall \cup {Nil}]
  /\ queue \in Queue
  /\ pc \in [Procs -> WorkerPCs \cup SyncerPCs]
  /\ pc["worker"] \in WorkerPCs /\ pc["syncer"] \in SyncerPCs
  /\ held \in [Procs -> Firewall \cup {Nil}]
  /\ \A p \in Procs : pc[p] \in {"byID", "update", "commit"} => held[p] # Nil
  /\ disturbed \in [by : Scenarios, times : 0..MaxDisturbances]

WorkerActive == pc["worker"] \notin {"idle", "quit"}

\* A pass of the worker is bound to come, or the controller is going away.
Scheduled == notify \/ queue.dirty \/ queue.waiting \/ queue.shuttingDown

\* No lost wakeup: once the informer store differs from the Services the last
\* successful pass was computed from, another pass is scheduled, or the one
\* under way has yet to read the store or has read just this.  The handlers
\* add one and the same key (queueKey) whatever the Service, the worker takes
\* it before it lists, and a failed pass puts it back.
NoLostWakeup ==
  \/ lister = handled
  \/ Scheduled
  \/ pc["worker"] = "list"
  \/ WorkerActive /\ seen = lister

\* The controller never rests on a difference it knows of: while the cached
\* firewall is not what the Services in the informer store ask for, a pass is
\* scheduled or under way, or the syncer is about to add the key.  This is
\* what Get followed by queue.Add in syncResource is for.
Drift ==
  /\ cache.isSet
  /\ Request(lister) # BuildError
  /\ ~firewallRequestEqual(cache.firewall, Request(lister))

KnownDriftIsScheduled ==
  Drift => \/ Scheduled
           \/ pc["syncer"] = "enqueue"
           \/ WorkerActive /\ pc["worker"] # "succeeded"

\* The controller implements FirewallPromise: with the cache, the two goroutines,
\* a lookup between any two decisions, retries and restarts, a pass of the worker
\* still writes at most one firewall, once, under the managed name, and with the
\* rules of one consistent list of Services (createReconciledFirewallRequest is
\* given the list of the pass, and Set is called once).
KeepsPromise == Promise!Spec

\* Everything the API knows under the managed name is what the Services ask
\* for (unless no firewall can be computed from them).
Converged ==
  Request(services) # BuildError =>
    byName # {} /\ \A fw \in byName : fw.rules = Request(services)

\* However Services change, users interfere, calls fail and the process
\* restarts: once that ends, the firewall becomes what the Services ask for and
\* stays so, unless the controller is stopped (docs/getting-started.md: changes
\* "will be reverted eventually, including re-creation of the firewall should it
\* ever be found missing").
Convergence == <>[](stopCh \/ Converged)

\* Once the stop channel is closed both goroutines end: the worker finishes
\* what is queued and a failing pass is not retried forever.  Run is written for
\* this (firewall_controller.go:132-151); main passes it wait.NeverStop, so that
\* only tests close the channel today.
StopEndsBoth == stopCh ~> (~stopCh \/ pc = [p \in Procs |-> "quit"])
===============================================================================
