---------------------------- MODULE FirewallProofs ----------------------------
(***************************************************************************)
(* Proofs about FirewallController for every set of Services, every bound  *)
(* and every kind of disturbance: its type invariant, that no wakeup is    *)
(* lost and that the controller never rests on a difference it knows of.   *)
(***************************************************************************)
EXTENDS FirewallController, TLAPS

\* What the worker holds is not silently out of date: Services that changed
\* after it listed them, and a cache that changed after it read it, are
\* followed by another pass.
SeenStale ==
  WorkerActive /\ pc["worker"] # "list" /\ seen # lister
    => notify \/ queue.dirty \/ queue.shuttingDown

HeldStale ==
  pc["worker"] = "compare"
    => /\ cache.isSet
       /\ \/ firewallsEqual(cache.firewall, held["worker"])
          \/ pc["syncer"] = "enqueue" \/ queue.dirty \/ queue.shuttingDown

CommitHeld ==
  pc["worker"] = "commit" => firewallRequestEqual(held["worker"], Request(seen))

IndInv ==
  /\ SeenStale
  /\ HeldStale
  /\ CommitHeld
  /\ NoLostWakeup
  /\ KnownDriftIsScheduled

USE DEF Procs

\* What the worker writes is a firewall.
LEMMA WrittenType ==
  ASSUME NEW id \in IDs, NEW l \in Lists
  PROVE  /\ written(id, Request(l)) \in Firewall
         /\ written(id, Request(l)) # Nil
BY NilAssumption DEF written, Firewall, Rules

\* A firewall is a record with an ID, a name and rules, and is never nil.
LEMMA RecordAccess ==
  ASSUME NEW fw \in Firewall
  PROVE  fw.id \in IDs /\ fw # Nil /\ fw.rules \in Rules
BY NilAssumption DEF Firewall

\* The state a process starts in is well typed.
LEMMA TypeInit == Init => TypeOK
<1> SUFFICES ASSUME Init PROVE TypeOK
  OBVIOUS
<1>1. NoServices \in Lists
  BY DEF NoServices, Lists
<1>2. firewalls \subseteq Firewall /\ nextID \in 1..(MaxFirewalls + 1)
  <2>1. 1 \in IDs /\ 1 \in 1..(MaxFirewalls + 1) /\ 2 \in 1..(MaxFirewalls + 1)
    BY ConstantsAssumption DEF IDs
  <2>2. ASSUME NEW r \in Rules PROVE written(1, r) \in Firewall
    BY <2>1 DEF written, Firewall
  <2>3. QED
    BY <2>1, <2>2 DEF Init
<1>3. disturbed \in [by : Scenarios, times : 0..MaxDisturbances]
  BY ConstantsAssumption DEF Init
<1>4. QED
  BY Zenon, <1>1, <1>2, <1>3 DEF Init, TypeOK, EmptyQueue, Queue, StartPC, WorkerPCs, SyncerPCs

\* The server's writes keep the stored firewalls well typed.
LEMMA UpdateType ==
  ASSUME firewalls \subseteq Firewall, nextID \in 1..(MaxFirewalls + 1),
         NEW id \in IDs, NEW r \in Rules, applyUpdate(id, r)
  PROVE  firewalls' \subseteq Firewall /\ nextID' \in 1..(MaxFirewalls + 1)
<1>1. written(id, r) \in Firewall
  BY DEF written, Firewall
<1>2. QED
  BY <1>1 DEF applyUpdate, byID

\* A create keeps the stored firewalls and the next ID well typed.
LEMMA CreateType ==
  ASSUME firewalls \subseteq Firewall, nextID \in 1..(MaxFirewalls + 1),
         NEW r \in Rules, applyCreate(r)
  PROVE  /\ firewalls' \subseteq Firewall /\ nextID' \in 1..(MaxFirewalls + 1)
         /\ nextID \in IDs
<1>1. nextID \in IDs /\ nextID + 1 \in 1..(MaxFirewalls + 1)
  BY ConstantsAssumption DEF IDs, applyCreate
<1>2. written(nextID, r) \in Firewall
  BY <1>1 DEF written, Firewall
<1>3. QED
  BY <1>1, <1>2 DEF applyCreate

\* What the queue operations do to the flags of the one key.
LEMMA QueueOps ==
  ASSUME NEW q \in Queue
  PROVE  /\ Added(q) \in Queue /\ AddedRateLimited(q) \in Queue
         /\ Gotten(q) \in Queue /\ Done(q) \in Queue
         /\ [q EXCEPT !.waiting = FALSE] \in Queue
         /\ [q EXCEPT !.shuttingDown = TRUE, !.waiting = FALSE] \in Queue
BY Zenon DEF Queue, Added, AddedRateLimited, Gotten, Done

\* What each queue operation leaves of the flags that schedule a pass.
LEMMA QueueFlags ==
  ASSUME NEW q \in Queue
  PROVE  /\ Added(q).dirty \/ Added(q).shuttingDown
         /\ Added(q).waiting <=> q.waiting
         /\ Added(q).shuttingDown <=> q.shuttingDown
         /\ AddedRateLimited(q).waiting \/ AddedRateLimited(q).shuttingDown
         /\ AddedRateLimited(q).dirty <=> q.dirty
         /\ AddedRateLimited(q).shuttingDown <=> q.shuttingDown
         /\ Done(q).dirty <=> q.dirty
         /\ Done(q).waiting <=> q.waiting
         /\ Done(q).shuttingDown <=> q.shuttingDown
BY Zenon DEF Queue, Added, AddedRateLimited, Done

\* updateCache keeps the cache well typed and afterwards the cache is set and
\* shows the given firewall, up to its ID.
LEMMA CacheType ==
  ASSUME cache \in [isSet : BOOLEAN, firewall : Firewall \cup {Nil}],
         NEW fw \in Firewall \cup {Nil}, updateCache(fw)
  PROVE  /\ cache' \in [isSet : BOOLEAN, firewall : Firewall \cup {Nil}]
         /\ cache'.isSet
         /\ firewallsEqual(cache'.firewall, fw)
BY DEF updateCache, firewallsEqual

\* Every step keeps the state well typed: one case per action of the worker, the
\* syncer, the informer and the environment.
LEMMA TypeStep == TypeOK /\ [Next]_vars => TypeOK'
<1> USE DEF k8sVars, apiVars, procVars, WorkerPCs, SyncerPCs, Goto
<1> SUFFICES ASSUME TypeOK, [Next]_vars PROVE TypeOK'
  OBVIOUS
<1>d. \A kind : Disturb(kind) => disturbed' \in [by : Scenarios, times : 0..MaxDisturbances]
  BY ConstantsAssumption DEF TypeOK, Disturb
<1>n. NoServices \in Lists
  BY DEF NoServices, Lists
<1>r. \A l \in Lists : Request(l) \in Rules
  BY DEF Rules
<1>1. CASE Dequeue
  BY ZenonT(60), <1>1, QueueOps DEF Dequeue, TypeOK
<1>2. CASE Quit
  BY <1>2 DEF Quit, TypeOK
<1>3. CASE ListServices
  BY <1>3 DEF ListServices, TypeOK
<1>4. CASE GetPreferFromCache
  BY <1>4 DEF GetPreferFromCache, TypeOK
<1>5. CASE Compare
  BY <1>5 DEF Compare, TypeOK
<1>6. CASE WriteFails
  BY <1>6, <1>d DEF WriteFails, TypeOK
<1>7. CASE Finish
  <2>1. queue' \in Queue /\ handled' \in Lists /\ seen' \in Lists
    <3>1. queue \in Queue /\ handled \in Lists /\ seen \in Lists
      BY DEF TypeOK
    <3>2. Done(queue) \in Queue /\ Done(AddedRateLimited(queue)) \in Queue
      BY Zenon, <3>1, QueueOps
    <3>3. QED
      BY <1>7, <1>n, <3>1, <3>2 DEF Finish
  <2>2. pc' = [pc EXCEPT !["worker"] = "idle"]
    BY <1>7 DEF Finish
  <2>3. QED
    BY <1>7, <2>1, <2>2 DEF Finish, TypeOK
<1>8. CASE RetryDue
  BY ZenonT(60), <1>8, QueueOps DEF RetryDue, TypeOK
<1>9. CASE Tick
  BY <1>9 DEF Tick, TypeOK
<1>10. CASE Enqueue
  BY ZenonT(60), <1>10, QueueOps DEF Enqueue, TypeOK
<1>11. CASE ShutDown
  BY ZenonT(30), <1>11, QueueOps DEF ShutDown, TypeOK
<1>12. CASE EventHandler
  BY ZenonT(60), <1>12, QueueOps DEF EventHandler, TypeOK
<1>13. CASE Stop
  BY <1>13, <1>d DEF Stop, TypeOK
<1>14. CASE Restart
  <2>1. notify' \in BOOLEAN
    BY <1>14 DEF Restart, ProcessStart
  <2>2. queue' \in Queue
    BY <1>14 DEF Restart, ProcessStart, EmptyQueue, Queue
  <2>3. /\ pc'["worker"] = "idle" /\ pc'["syncer"] = "wait"
        /\ pc' \in [Procs -> WorkerPCs \cup SyncerPCs]
    BY <1>14 DEF Restart, ProcessStart, StartPC
  <2>4. cache' \in [isSet : BOOLEAN, firewall : Firewall \cup {Nil}]
    BY <1>14 DEF Restart, ProcessStart
  <2>5. disturbed' \in [by : Scenarios, times : 0..MaxDisturbances]
    BY <1>14, <1>d DEF Restart
  <2>6. /\ lister' = services /\ seen' = NoServices /\ handled' = NoServices
        /\ held' = [p \in Procs |-> Nil]
    BY <1>14 DEF Restart, ProcessStart
  <2>7. stopCh' \in BOOLEAN /\ UNCHANGED <<services, firewalls, nextID, late>>
    BY Zenon, <1>14 DEF Restart, ProcessStart
  <2>8. QED
    BY <1>n, <2>1, <2>2, <2>3, <2>4, <2>5, <2>6, <2>7 DEF TypeOK
<1>15. CASE Commit
  BY <1>15, CacheType DEF Commit, TypeOK
<1>20. ASSUME NEW p \in Procs, GetCached(p) PROVE TypeOK'
  BY <1>20 DEF GetCached, TypeOK
<1>21. ASSUME NEW p \in Procs, GetByID(p) PROVE TypeOK'
  BY <1>21, NilAssumption DEF GetByID, TypeOK, byID
<1>22. ASSUME NEW p \in Procs, GetByList(p) PROVE TypeOK'
  BY <1>22 DEF GetByList, TypeOK, byName
<1>23. ASSUME NEW p \in Procs, GetStore(p) PROVE TypeOK'
  BY <1>23, CacheType DEF GetStore, TypeOK
<1>24. ASSUME NEW p \in Procs, GetFails(p) PROVE TypeOK'
  BY <1>24, <1>d DEF GetFails, TypeOK
<1>25. CASE UpdateFirewall
  BY <1>25, <1>r, UpdateType, WrittenType, RecordAccess DEF UpdateFirewall, TypeOK
<1>26. CASE CreateFirewall
  <2>1. CASE createAccepted
    BY <1>26, <2>1, <1>r, CreateType, WrittenType DEF CreateFirewall, TypeOK
  <2>2. CASE ~createAccepted
    BY Zenon, <1>26, <2>2 DEF CreateFirewall, TypeOK
  <2>3. QED
    BY <2>1, <2>2
<1>27. CASE WriteTimesOut
  BY <1>27, <1>d, <1>r, RecordAccess DEF WriteTimesOut, TypeOK, Write
<1>28. ASSUME NEW n \in Services, InformerStore(n) PROVE TypeOK'
  BY <1>28 DEF InformerStore, TypeOK, Lists
<1>29. ASSUME NEW n \in Services, NEW spec \in Specs \cup {Absent}, ChangeService(n, spec)
       PROVE TypeOK'
  BY <1>29, <1>d DEF ChangeService, TypeOK, Lists
<1>30. ASSUME NEW fw \in firewalls, NEW rules \in Rules, UserEdit(fw, rules) PROVE TypeOK'
  BY <1>30, <1>d DEF UserEdit, TypeOK, Firewall
<1>31. ASSUME NEW fw \in firewalls, UserRename(fw) PROVE TypeOK'
  BY <1>31, <1>d DEF UserRename, TypeOK, Firewall
<1>32. ASSUME NEW fw \in firewalls, UserDelete(fw) PROVE TypeOK'
  BY <1>32, <1>d DEF UserDelete, TypeOK
<1>33. ASSUME NEW rules \in Rules, UserCreate(rules) PROVE TypeOK'
  BY <1>33, <1>d, CreateType DEF UserCreate, TypeOK
<1>34. ASSUME NEW w \in late, LateWrite(w) PROVE TypeOK'
  <2>1. w \in Write /\ w.rules \in Rules /\ w.id \in IDs \cup {0}
    BY <1>34 DEF TypeOK, Write
  <2>2. firewalls' \subseteq Firewall /\ nextID' \in 1..(MaxFirewalls + 1)
    <3>1. CASE updateAccepted(w.id) /\ applyUpdate(w.id, w.rules)
      <4>1. w.id \in IDs
        BY <3>1 DEF TypeOK, updateAccepted, byID, Firewall
      <4>2. QED
        BY Zenon, <2>1, <3>1, <4>1, UpdateType DEF TypeOK
    <3>2. CASE applyCreate(w.rules)
      BY <2>1, <3>2, CreateType DEF TypeOK
    <3>3. CASE UNCHANGED <<firewalls, nextID>>
      BY <3>3 DEF TypeOK
    <3>4. QED
      BY <1>34, <3>1, <3>2, <3>3 DEF LateWrite
  <2>3. QED
    BY <1>34, <2>2 DEF LateWrite, TypeOK
<1>35. CASE UNCHANGED vars
  BY <1>35 DEF vars, TypeOK
<1>36. QED
  BY Zenon, <1>1, <1>2, <1>3, <1>4, <1>5, <1>6, <1>7, <1>8, <1>9, <1>10, <1>11, <1>12, <1>13, <1>14, <1>15, <1>20, <1>21, <1>22, <1>23, <1>24, <1>25, <1>26, <1>27, <1>28, <1>29, <1>30, <1>31, <1>32, <1>33, <1>34, <1>35
     DEF Next, WorkerStep, SyncerStep, InformerStep, Environment, Get

\* TypeOK, for every configuration: what pc, the queue and the firewalls in
\* hand can be, whatever is disturbed how often.
THEOREM TypeCorrect == Spec => []TypeOK
BY TypeInit, TypeStep, PTL DEF Spec

-------------------------------------------------------------------------------
\* Two firewalls that are equal up to the ID meet the same requests.
LEMMA EqualUpToID ==
  ASSUME NEW f, NEW g, NEW r, firewallsEqual(f, g)
  PROVE  firewallRequestEqual(f, r) <=> firewallRequestEqual(g, r)
BY DEF firewallsEqual, firewallRequestEqual

\* firewallsEqual holds of a firewall and itself, nil included.
LEMMA EqualRefl == \A f : firewallsEqual(f, f)
BY DEF firewallsEqual

\* The firewall Set returns is the one the request asked for.
LEMMA WrittenMeetsRequest ==
  ASSUME NEW id \in IDs, NEW l \in Lists
  PROVE  firewallRequestEqual(written(id, Request(l)), Request(l))
<1>1. written(id, Request(l)) # Nil
  BY WrittenType
<1>2. QED
  BY <1>1 DEF firewallRequestEqual, written

\* The inductive invariant holds of a process that has just started.
LEMMA IndInit == Init => IndInv
<1> SUFFICES ASSUME Init PROVE IndInv
  OBVIOUS
<1>1. pc["worker"] = "idle" /\ ~cache.isSet
  BY DEF Init, StartPC
<1>2. lister = handled \/ notify
  BY Zenon DEF Init
<1>3. QED
  BY <1>1, <1>2 DEF IndInv, SeenStale, HeldStale, CommitHeld, NoLostWakeup,
                    KnownDriftIsScheduled, Drift, Scheduled, WorkerActive

\* Every step preserves the inductive invariant.
LEMMA IndStep == TypeOK /\ TypeOK' /\ IndInv /\ [Next]_vars => IndInv'
<1> USE DEF k8sVars, apiVars, procVars, Goto, Disturb
<1> SUFFICES ASSUME TypeOK, TypeOK', IndInv, [Next]_vars PROVE IndInv'
  OBVIOUS
<1>i. /\ pc \in [Procs -> WorkerPCs \cup SyncerPCs]
      /\ held \in [Procs -> Firewall \cup {Nil}]
      /\ queue \in Queue
      /\ seen \in Lists
  BY DEF TypeOK
<1> USE DEF IndInv, SeenStale, HeldStale, CommitHeld, NoLostWakeup, KnownDriftIsScheduled,
            Drift, Scheduled, WorkerActive
<1>1. CASE Dequeue
  BY <1>1, <1>i DEF Dequeue, Gotten, Queue
<1>2. CASE Quit
  BY <1>2, <1>i DEF Quit
<1>3. CASE ListServices
  BY <1>3, <1>i DEF ListServices
<1>4. CASE GetPreferFromCache
  BY <1>4, <1>i, EqualRefl DEF GetPreferFromCache
<1>5. CASE Compare
  BY <1>5, <1>i, EqualUpToID DEF Compare
<1>6. CASE WriteFails
  BY <1>6, <1>i DEF WriteFails
<1>7. CASE WriteTimesOut
  BY Zenon, <1>7, <1>i DEF WriteTimesOut
<1>8. CASE Finish
  <2>1. CASE pc["worker"] = "succeeded"
    <3>1. queue' = Done(queue) /\ handled' = seen /\ pc'["worker"] = "idle"
          /\ pc'["syncer"] = pc["syncer"]
      BY Zenon, <1>8, <1>i, <2>1 DEF Finish
    <3>2. /\ queue'.dirty <=> queue.dirty
          /\ queue'.waiting <=> queue.waiting
          /\ queue'.shuttingDown <=> queue.shuttingDown
      BY Zenon, <1>i, <3>1, QueueFlags
    <3>3. QED
      BY Zenon, <1>8, <1>i, <2>1, <3>1, <3>2 DEF Finish
  <2>2. CASE pc["worker"] = "failed"
    <3>1. queue' = Done(AddedRateLimited(queue)) /\ pc'["worker"] = "idle"
          /\ pc'["syncer"] = pc["syncer"]
      BY <1>8, <1>i, <2>2 DEF Finish
    <3>2. queue'.waiting \/ queue'.shuttingDown
      BY Zenon, <1>i, <3>1, QueueFlags, QueueOps
    <3>3. QED
      BY Zenon, <1>8, <1>i, <2>2, <3>1, <3>2 DEF Finish
  <2>3. QED
    BY Zenon, <1>8, <2>1, <2>2 DEF Finish
<1>9. CASE RetryDue
  BY Zenon, <1>9, <1>i DEF RetryDue, Queue, Added
<1>10. CASE Tick
  BY Zenon, <1>10, <1>i DEF Tick
<1>11. CASE Enqueue
  BY <1>11, <1>i, QueueFlags DEF Enqueue
<1>12. CASE ShutDown
  BY Zenon, <1>12, <1>i DEF ShutDown, Queue
<1>13. CASE EventHandler
  BY <1>13, <1>i, QueueFlags DEF EventHandler
<1>14. CASE Stop
  BY <1>14, <1>i DEF Stop
<1>15. CASE Restart
  BY ZenonT(60), <1>15, <1>i DEF Restart, ProcessStart, StartPC, EmptyQueue
<1>16. CASE Commit
  BY Zenon, <1>16, <1>i, CacheType, EqualUpToID DEF Commit, TypeOK
<1>17. CASE UpdateFirewall
  <2>1. held["worker"].id \in IDs
    BY <1>17, <1>i, RecordAccess DEF UpdateFirewall, TypeOK, Procs
  <2>2. QED
    BY ZenonT(60), <1>17, <1>i, <2>1, WrittenMeetsRequest DEF UpdateFirewall
<1>18. CASE CreateFirewall
  <2>1. CASE createAccepted
    <3>1. nextID \in IDs
      BY <1>18, <1>i, <2>1, CreateType DEF CreateFirewall, TypeOK, Rules
    <3>2. QED
      BY ZenonT(60), <1>18, <1>i, <2>1, <3>1, WrittenMeetsRequest DEF CreateFirewall
  <2>2. CASE ~createAccepted
    BY Zenon, <1>18, <1>i, <2>2 DEF CreateFirewall
  <2>3. QED
    BY <2>1, <2>2
<1>19. ASSUME NEW p \in Procs, GetCached(p) PROVE IndInv'
  BY Zenon, <1>19, <1>i DEF GetCached
<1>20. ASSUME NEW p \in Procs, GetByID(p) PROVE IndInv'
  BY Zenon, <1>20, <1>i DEF GetByID
<1>21. ASSUME NEW p \in Procs, GetByList(p) PROVE IndInv'
  BY Zenon, <1>21, <1>i DEF GetByList
<1>22. ASSUME NEW p \in Procs, GetStore(p) PROVE IndInv'
  BY <1>22, <1>i, CacheType DEF GetStore, TypeOK
<1>23. ASSUME NEW p \in Procs, GetFails(p) PROVE IndInv'
  BY Zenon, <1>23, <1>i DEF GetFails
<1>24. ASSUME NEW n \in Services, InformerStore(n) PROVE IndInv'
  BY Zenon, <1>24, <1>i DEF InformerStore
<1>25. ASSUME UNCHANGED <<lister, notify, procVars>> PROVE IndInv'
  BY <1>25
<1> HIDE DEF IndInv, Goto
<1>26. WorkerStep => IndInv'
  BY <1>1, <1>2, <1>3, <1>4, <1>5, <1>6, <1>7, <1>8, <1>16, <1>17, <1>18,
     <1>19, <1>20, <1>21, <1>22, <1>23 DEF WorkerStep, Get
<1>27. SyncerStep \/ InformerStep \/ RetryDue => IndInv'
  BY <1>9, <1>10, <1>11, <1>12, <1>13, <1>19, <1>20, <1>21, <1>22, <1>23, <1>24
     DEF SyncerStep, InformerStep, Get
<1>28. Environment \/ (\E w \in late : LateWrite(w)) \/ UNCHANGED vars => IndInv'
  <2>1. ASSUME NEW n, NEW spec, ChangeService(n, spec) PROVE IndInv'
    BY <1>25, <2>1 DEF ChangeService
  <2>2. ASSUME NEW fw, NEW rules, UserEdit(fw, rules) PROVE IndInv'
    BY <1>25, <2>2 DEF UserEdit
  <2>3. ASSUME NEW fw, UserRename(fw) \/ UserDelete(fw) PROVE IndInv'
    BY <1>25, <2>3 DEF UserRename, UserDelete
  <2>4. ASSUME NEW rules, UserCreate(rules) PROVE IndInv'
    BY <1>25, <2>4 DEF UserCreate
  <2>5. ASSUME NEW w, LateWrite(w) PROVE IndInv'
    BY <1>25, <2>5 DEF LateWrite
  <2>6. UNCHANGED vars => IndInv'
    BY <1>25 DEF vars
  <2>7. QED
    BY <1>14, <1>15, <2>1, <2>2, <2>3, <2>4, <2>5, <2>6 DEF Environment
<1>29. QED
  BY <1>26, <1>27, <1>28 DEF Next

\* No lost wakeup, for every configuration: a Service change the informer has
\* seen and no successful pass has taken into account has a pass ahead of it.
THEOREM WakeupNotLost == Spec => []NoLostWakeup
<1>1. IndInv => NoLostWakeup
  BY DEF IndInv
<1>2. QED
  BY <1>1, IndInit, IndStep, TypeCorrect, PTL DEF Spec

\* The controller never rests on a difference it knows of, for every
\* configuration.
THEOREM DriftScheduled == Spec => []KnownDriftIsScheduled
<1>1. IndInv => KnownDriftIsScheduled
  BY DEF IndInv
<1>2. QED
  BY <1>1, IndInit, IndStep, TypeCorrect, PTL DEF Spec

(***************************************************************************)
(* FirewallController implements FirewallPromise, for every set of         *)
(* Services, every bound and every kind of disturbance.  Every step of the *)
(* controller leaves the snapshot, begins it, ends it or writes it.        *)
(***************************************************************************)

\* A step that leaves the abstract state alone, but for what is known of the
\* Services.
LEMMA Unseen ==
  ASSUME UNCHANGED <<Snapshot, GivenUp, firewalls>>
  PROVE  Promise!Next
BY DEF Promise!Next, Promise!Learn

\* A step that ends the pass and writes nothing.
LEMMA Ended ==
  ASSUME Snapshot' = {}, UNCHANGED <<GivenUp, firewalls>>
  PROVE  Promise!Next
BY DEF Promise!Next, Promise!End

\* A step of a user.
LEMMA Interfered ==
  ASSUME TypeOK, NEW kind, Disturb(kind), UNCHANGED <<lister, Snapshot, GivenUp>>
  PROVE  Promise!Next
<1>1. disturbed.times \in Int /\ disturbed'.times = disturbed.times + 1
  BY DEF TypeOK, Disturb
<1>2. QED
  BY <1>1 DEF Promise!Next, Promise!Interfere

\* Neither the late writes nor where the worker is: the abstract state.
LEMMA Mapped ==
  /\ UNCHANGED late => UNCHANGED GivenUp
  /\ UNCHANGED <<pc, seen>> => UNCHANGED Snapshot
BY DEF GivenUp, Snapshot

\* What the server does with an update is the abstract write.
LEMMA UpdatePuts ==
  ASSUME NEW id, NEW rules, applyUpdate(id, rules)
  PROVE  Promise!Put(id, rules) /\ id \in {f.id : f \in firewalls'}
<1>1. firewalls \ byID(id) = {f \in firewalls : f.id # id}
  BY DEF byID
<1>2. written(id, rules) \in firewalls' /\ written(id, rules).id = id
  BY DEF applyUpdate, written
<1>3. QED
  BY Zenon, <1>1, <1>2 DEF applyUpdate, written, Promise!Put

\* The API never gives the ID of a firewall it has to a new one.
FreshID == \A f \in firewalls : f.id < nextID

\* No step of the server or of a user breaks FreshID.
LEMMA FreshStep == TypeOK /\ FreshID /\ [Next]_vars => FreshID'
<1> USE DEF FreshID, k8sVars, apiVars, procVars
<1> SUFFICES ASSUME TypeOK, FreshID, [Next]_vars PROVE FreshID'
  OBVIOUS
<1>t. /\ nextID \in Int
      /\ \A f \in firewalls : f \in Firewall /\ f.id \in Int
  BY ConstantsAssumption DEF TypeOK, Firewall, IDs
<1>u. ASSUME NEW id, NEW rules, byID(id) # {}, applyUpdate(id, rules) PROVE FreshID'
  <2>1. id < nextID
    BY <1>u DEF byID
  <2>2. QED
    BY <1>u, <2>1 DEF applyUpdate, written
<1>c. ASSUME NEW rules, applyCreate(rules) PROVE FreshID'
  BY <1>c, <1>t DEF applyCreate, written
<1>e. ASSUME UNCHANGED <<firewalls, nextID>> PROVE FreshID'
  BY Zenon, <1>e
<1>1. CASE UpdateFirewall
  BY <1>1, <1>u, <1>e DEF UpdateFirewall, updateAccepted
<1>2. CASE CreateFirewall
  BY Zenon, <1>2, <1>c, <1>e DEF CreateFirewall
<1>3. ASSUME NEW w \in late, LateWrite(w) PROVE FreshID'
  BY <1>3, <1>u, <1>c, <1>e DEF LateWrite, updateAccepted
<1>4. ASSUME NEW rules, UserCreate(rules) PROVE FreshID'
  BY <1>4, <1>c DEF UserCreate
<1>5. ASSUME NEW fw \in firewalls, NEW rules, UserEdit(fw, rules) PROVE FreshID'
  BY <1>5, <1>t DEF UserEdit, Firewall
<1>6. ASSUME NEW fw \in firewalls, UserRename(fw) \/ UserDelete(fw) PROVE FreshID'
  BY Zenon, <1>6, <1>t DEF UserRename, UserDelete, Firewall
<1>7. CASE \/ Dequeue \/ Quit \/ ListServices \/ GetPreferFromCache \/ Compare
           \/ WriteFails \/ WriteTimesOut \/ Commit \/ Finish
           \/ Tick \/ Enqueue \/ ShutDown \/ EventHandler \/ RetryDue \/ Restart \/ Stop
           \/ UNCHANGED vars
  BY Zenon, <1>7, <1>e DEF Dequeue, Quit, ListServices, GetPreferFromCache, Compare, WriteFails,
    WriteTimesOut, Commit, Finish, Tick, Enqueue, ShutDown, EventHandler, RetryDue, Restart,
    Stop, vars
<1>8. ASSUME NEW p, Get(p) PROVE FreshID'
  BY <1>8, <1>e DEF Get, GetCached, GetByID, GetByList, GetStore, GetFails
<1>9. ASSUME NEW n, InformerStore(n) \/ \E spec : ChangeService(n, spec) PROVE FreshID'
  BY <1>9, <1>e DEF InformerStore, ChangeService
<1> HIDE DEF FreshID, k8sVars, apiVars, procVars
<1>10. QED
  BY <1>1, <1>2, <1>3, <1>4, <1>5, <1>6, <1>7, <1>8, <1>9
     DEF Next, WorkerStep, SyncerStep, InformerStep, Environment

\* What the server does with a create is the abstract write, of a new firewall.
LEMMA CreatePuts ==
  ASSUME TypeOK, FreshID, NEW rules, applyCreate(rules)
  PROVE  Promise!Put(nextID, rules) /\ nextID \in {f.id : f \in firewalls'}
<1>1. nextID \in Int /\ \A f \in firewalls : f.id \in Int
  BY ConstantsAssumption DEF TypeOK, Firewall, IDs
<1>2. {f \in firewalls : f.id # nextID} = firewalls
  BY <1>1 DEF FreshID
<1>3. written(nextID, rules) \in firewalls' /\ written(nextID, rules).id = nextID
  BY DEF applyCreate, written
<1>4. QED
  BY Zenon, <1>2, <1>3 DEF applyCreate, written, Promise!Put

-------------------------------------------------------------------------------
\* The worker's steps up to the write keep the snapshot; the first one that has
\* the Services in hand begins it.
LEMMA WorkerReads ==
  ASSUME TypeOK,
         \/ Dequeue \/ Quit \/ ListServices \/ GetPreferFromCache \/ Compare \/ Get("worker")
  PROVE  Promise!Next
<1> USE DEF Goto, k8sVars, apiVars, Deciding
<1>t. pc \in [Procs -> WorkerPCs \cup SyncerPCs]
  BY Zenon DEF TypeOK
<1>1. UNCHANGED <<firewalls, late>>
  BY DEF Dequeue, Quit, ListServices, GetPreferFromCache, Compare, Get, GetCached, GetByID,
    GetByList, GetStore, GetFails
<1>2. CASE Dequeue \/ Quit
  <2>1. UNCHANGED Snapshot
    BY <1>2, <1>t DEF Dequeue, Quit, Snapshot
  <2>2. QED
    BY Zenon, <1>1, <2>1, Mapped, Unseen
<1>3. CASE ListServices
  <2>1. Snapshot = {} /\ Snapshot' \in {{}, {lister}}
    BY <1>3, <1>t DEF ListServices, Snapshot
  <2>2. lister' = lister
    BY Zenon, <1>3 DEF ListServices
  <2>3. QED
    BY <1>1, <2>1, <2>2, Mapped DEF Promise!Next, Promise!Begin, Promise!End
<1>4. CASE GetPreferFromCache \/ GetCached("worker") \/ GetByID("worker")
             \/ GetByList("worker") \/ GetStore("worker")
  <2>1. UNCHANGED Snapshot
    BY <1>4, <1>t DEF GetPreferFromCache, GetCached, GetByID, GetByList, GetStore, Snapshot
  <2>2. QED
    BY <1>1, <2>1, Mapped, Unseen
<1>5. CASE Compare \/ GetFails("worker")
  <2>1. Snapshot' \in {Snapshot, {}}
    BY <1>5, <1>t DEF Compare, GetFails, Snapshot
  <2>2. QED
    BY Zenon, <1>1, <2>1, Mapped, Unseen, Ended
<1>6. QED
  BY <1>2, <1>3, <1>4, <1>5 DEF Get

\* The worker's write, its failures and what follows.
LEMMA WorkerWrites ==
  ASSUME TypeOK, FreshID,
         \/ UpdateFirewall \/ CreateFirewall \/ WriteFails \/ WriteTimesOut \/ Commit \/ Finish
  PROVE  Promise!Next
<1> USE DEF Goto, k8sVars, apiVars, Deciding
<1>t. pc \in [Procs -> WorkerPCs \cup SyncerPCs]
  BY DEF TypeOK
<1>1. ASSUME NEW id, Promise!Put(id, Request(seen)), id \in {f.id : f \in firewalls'},
             Snapshot = {seen}, Snapshot' = {}, UNCHANGED <<lister, late, disturbed>>
      PROVE  Promise!Next
  <2>1. Promise!Write(id)
    BY Zenon, <1>1, Mapped DEF Promise!Write
  <2>2. QED
    BY Zenon, <1>1, <2>1 DEF Promise!Next
<1>2. CASE UpdateFirewall
  <2> DEFINE id == held["worker"].id
  <2>1. CASE updateAccepted(id) /\ applyUpdate(id, Request(seen)) /\ pc'["worker"] = "commit"
    <3>1. Snapshot = {seen} /\ Snapshot' = {}
      BY <1>2, <1>t, <2>1 DEF UpdateFirewall, Snapshot
    <3>2. Promise!Put(id, Request(seen)) /\ id \in {f.id : f \in firewalls'}
      BY Zenon, <2>1, UpdatePuts
    <3>3. UNCHANGED <<lister, late, disturbed>>
      BY <1>2 DEF UpdateFirewall
    <3>4. QED
      BY Zenon, <1>1, <3>1, <3>2, <3>3
  <2>2. CASE pc'["worker"] \in {"create", "failed"} /\ UNCHANGED firewalls
    <3>1. Snapshot' \in {Snapshot, {}} /\ UNCHANGED late
      BY Zenon, <1>2, <1>t, <2>2 DEF UpdateFirewall, Snapshot
    <3>2. QED
      BY Zenon, <2>2, <3>1, Mapped, Unseen, Ended
  <2>3. QED
    BY Zenon, <1>2, <1>t, <2>1, <2>2 DEF UpdateFirewall
<1>3. CASE CreateFirewall
  <2>1. CASE applyCreate(Request(seen)) /\ pc'["worker"] = "commit"
    <3>1. Snapshot = {seen} /\ Snapshot' = {}
      BY Zenon, <1>3, <1>t, <2>1 DEF CreateFirewall, Snapshot
    <3>2. Promise!Put(nextID, Request(seen)) /\ nextID \in {f.id : f \in firewalls'}
      BY <2>1, CreatePuts
    <3>3. UNCHANGED <<lister, late, disturbed>>
      BY <1>3 DEF CreateFirewall
    <3>4. QED
      BY Zenon, <1>1, <3>1, <3>2, <3>3
  <2>2. CASE pc'["worker"] = "failed" /\ UNCHANGED firewalls
    <3>1. Snapshot' = {} /\ UNCHANGED late
      BY <1>3, <2>2 DEF CreateFirewall, Snapshot
    <3>2. QED
      BY Zenon, <2>2, <3>1, Mapped, Ended
  <2>3. QED
    BY Zenon, <1>3, <1>t, <2>1, <2>2 DEF CreateFirewall
<1>4. CASE WriteTimesOut
  <2>1. Snapshot = {seen} /\ Snapshot' = {}
    BY <1>4, <1>t DEF WriteTimesOut, Snapshot
  <2>2. GivenUp' = GivenUp \cup {Request(seen)}
    <3> DEFINE x == [op    |-> pc["worker"],
                     id    |-> IF pc["worker"] = "update" THEN held["worker"].id ELSE 0,
                     rules |-> Request(seen)]
    <3>1. late' = late \cup {x}
      BY Zenon, <1>4 DEF WriteTimesOut
    <3>2. x.rules = Request(seen)
      BY Zenon
    <3> HIDE DEF x
    <3>3. QED
      BY Zenon, <3>1, <3>2 DEF GivenUp
  <2>3. UNCHANGED <<lister, firewalls>>
    BY <1>4 DEF WriteTimesOut
  <2>4. Promise!GiveUp
    BY <2>1, <2>2, <2>3 DEF Promise!GiveUp
  <2>5. QED
    BY Zenon, <2>4 DEF Promise!Next
<1>5. CASE WriteFails \/ Commit \/ Finish
  <2>1. Snapshot' = {} /\ UNCHANGED <<firewalls, late>>
    BY <1>5, <1>t DEF WriteFails, Commit, Finish, Snapshot
  <2>2. QED
    BY Zenon, <2>1, Mapped, Ended
<1>6. QED
  BY <1>2, <1>3, <1>4, <1>5

\* A write that was given up takes effect, or never does.
LEMMA LateWrites ==
  ASSUME TypeOK, FreshID, NEW w \in late, LateWrite(w)
  PROVE  Promise!Next
<1>1. UNCHANGED <<lister, Snapshot, disturbed>>
  BY Zenon, Mapped DEF LateWrite, k8sVars, procVars
<1>2. GivenUp' \subseteq GivenUp /\ GivenUp' \in {GivenUp, GivenUp \ {w.rules}}
  BY Zenon DEF LateWrite, GivenUp
<1>3. w.rules \in GivenUp
  BY Zenon DEF GivenUp
<1>4. ASSUME NEW id, Promise!Put(id, w.rules), id \in {f.id : f \in firewalls'}
      PROVE  Promise!Next
  <2>1. Promise!LateWrite(id)
    BY Zenon, <1>1, <1>2, <1>3, <1>4 DEF Promise!LateWrite
  <2>2. QED
    BY Zenon, <1>4, <2>1 DEF Promise!Next
<1>5. CASE applyUpdate(w.id, w.rules)
  BY Zenon, <1>4, <1>5, UpdatePuts
<1>6. CASE applyCreate(w.rules)
  BY Zenon, <1>4, <1>6, CreatePuts
<1>7. CASE UNCHANGED firewalls
  BY <1>1, <1>2, <1>7 DEF Promise!Next, Promise!Forget
<1>8. QED
  BY <1>5, <1>6, <1>7 DEF LateWrite

\* Every step of the controller and of its surroundings is a step of the promise
\* or leaves its state alone.
LEMMA PromiseStep == TypeOK /\ FreshID /\ [Next]_vars => [Promise!Next]_(Promise!vars)
<1> SUFFICES ASSUME TypeOK, FreshID, [Next]_vars PROVE Promise!Next
  OBVIOUS
<1>t. pc \in [Procs -> WorkerPCs \cup SyncerPCs]
  BY DEF TypeOK
<1>1. CASE Tick \/ Get("syncer") \/ Enqueue \/ ShutDown
  <2>1. UNCHANGED <<Snapshot, late, firewalls>>
    BY <1>1, <1>t DEF Tick, Get, GetCached, GetByID, GetByList, GetStore, GetFails, Enqueue,
      ShutDown, Goto, Snapshot, k8sVars, apiVars
  <2>2. QED
    BY <2>1, Mapped, Unseen
<1>2. CASE \/ EventHandler \/ RetryDue \/ Stop \/ UNCHANGED vars
           \/ \E n \in Services : InformerStore(n)
           \/ \E n \in Services, spec \in Specs \cup {Absent} : ChangeService(n, spec)
  <2>1. UNCHANGED <<pc, seen, late, firewalls>>
    BY <1>2 DEF EventHandler, RetryDue, Stop, vars, InformerStore, ChangeService, k8sVars,
      apiVars, procVars
  <2>2. QED
    BY <2>1, Mapped, Unseen
<1>3. CASE Restart
  <2>1. Snapshot' = {} /\ UNCHANGED <<late, firewalls>>
    BY <1>3 DEF Restart, ProcessStart, StartPC, Snapshot, Deciding, apiVars
  <2>2. QED
    BY <2>1, Mapped, Ended
<1>4. ASSUME NEW fw, \/ \E rules : UserEdit(fw, rules) \/ UserCreate(rules)
                     \/ UserRename(fw) \/ UserDelete(fw)
      PROVE  Promise!Next
  <2>1. UNCHANGED <<lister, pc, seen, late>> /\ \E kind : Disturb(kind)
    BY <1>4 DEF UserEdit, UserCreate, UserRename, UserDelete, k8sVars, procVars
  <2>2. QED
    BY <2>1, Mapped, Interfered
<1>5. SyncerStep \/ InformerStep \/ RetryDue \/ Environment \/ UNCHANGED vars => Promise!Next
  BY <1>1, <1>2, <1>3, <1>4 DEF SyncerStep, InformerStep, Environment
<1>6. WorkerStep => Promise!Next
  BY WorkerReads, WorkerWrites DEF WorkerStep
<1>7. QED
  BY <1>5, <1>6, LateWrites DEF Next

\* The controller implements its abstract specification, for every configuration:
\* each of its writes is one write of the rules of one list of Services.
THEOREM Refinement == Spec => KeepsPromise
<1>1. Init => Promise!Init /\ FreshID
  <2> SUFFICES ASSUME Init PROVE Promise!Init /\ FreshID
    BY Zenon
  <2>1. Snapshot = {} /\ GivenUp = {}
    BY Zenon DEF Init, StartPC, Snapshot, Deciding, GivenUp
  <2>2. FreshID
    BY DEF Init, FreshID, written
  <2>3. QED
    BY <2>1, <2>2 DEF Promise!Init
<1>2. QED
  BY <1>1, TypeCorrect, FreshStep, PromiseStep, PTL DEF Spec, KeepsPromise, Promise!Spec
===============================================================================
