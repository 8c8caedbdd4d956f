---------------------------- MODULE TagSyncerProofs ----------------------------
(***************************************************************************)
(* Proofs about TagSyncer for all Services, numbers of load balancers,     *)
(* sizes of a page and disturbances: the syncer tags only load balancers   *)
(* that the Services it has read refer to, and never sends an empty        *)
(* request.                                                                *)
(***************************************************************************)
EXTENDS TagSyncer, FiniteSetTheorems, TLAPS

\* IDs are not used again: all that are known were given out before.
Given ==
  /\ \A l \in lbs : l.id < nextID
  /\ \A e \in list : e.id < nextID
  /\ \A id \in res : id < nextID
  /\ \A s \in Present(services) : services[s].id < nextID
  /\ \A s \in Present(listed) : listed[s].id < nextID

\* An ID stands for one name, on the pages read as in the cloud.
OneName ==
  \A l \in lbs : /\ \A m \in lbs : m.id = l.id => m.name = l.name
                 /\ \A e \in list : e.id = l.id => e.name = l.name

\* What will be tagged is what a Service refers to, as it was read.
Justified ==
  /\ pc = "wait" => res = {}
  /\ \A l \in lbs : l.id \in res => \E s \in Present(listed) : refers(listed[s], s, l)

IndInv == TypeOK /\ Given /\ OneName /\ Justified

Annotated == [id : IDs \cup {NoID}, disown : BOOLEAN]
LB        == [id : IDs, name : Services, tagged : BOOLEAN]
PCs       == {"wait", "list", "collect", "tag", "create", "retag"}

\* No load balancer is there that was not, by ID and name.
NoneNew == \A k \in lbs' : k \in LB /\ \E l \in lbs : l.id = k.id /\ l.name = k.name

--------------------------------------------------------------------------------
\* The type invariant with the names above.
LEMMA Typed ==
  TypeOK <=>
    /\ services \in [Services -> Annotated \cup {Absent}] /\ listed \in [Services -> Annotated \cup {Absent}]
    /\ lbs \subseteq LB
    /\ nextID \in 1..(MaxLBs + 1) /\ tag \in BOOLEAN /\ disturbed \in 0..MaxDisturbances
    /\ pc \in PCs /\ page \in 1..(MaxLBs + 1) /\ list \subseteq [id : IDs, name : Services]
    /\ res \subseteq IDs
    /\ pc \in {"tag", "create", "retag"} => res # {}
BY DEF TypeOK, Annotated, LB, PCs

\* A disturbance is counted.
LEMMA Disturbs ==
  ASSUME TypeOK, NEW kind, Disturb(kind)
  PROVE  disturbed' \in 0..MaxDisturbances
BY TagAssumption DEF TypeOK, Disturb

\* The invariant holds in the states the model starts from.
LEMMA IndInit == Init => IndInv
<1> SUFFICES ASSUME Init PROVE IndInv
  OBVIOUS
<1>1. PICK s \in Services, id \in {NoID, 1}, d \in BOOLEAN :
        /\ services = [r \in Services |-> IF r = s THEN [id |-> id, disown |-> d] ELSE Absent]
        /\ lbs = {[id |-> 1, name |-> s, tagged |-> FALSE]}
  BY DEF Init
<1>2. /\ nextID = 2 /\ tag = FALSE /\ pc = "wait" /\ listed = [r \in Services |-> Absent]
      /\ page = 1 /\ list = {} /\ res = {} /\ disturbed = 0
  BY DEF Init
<1>3. 1 \in IDs /\ 2 \in 1..(MaxLBs + 1) /\ 1 \in 1..(MaxLBs + 1) /\ 0 \in 0..MaxDisturbances
  BY TagAssumption DEF IDs
<1>4. services \in [Services -> Annotated \cup {Absent}] /\ lbs \subseteq LB
  BY <1>1, <1>3 DEF Annotated, LB
<1>5. TypeOK
  BY Zenon, <1>2, <1>3, <1>4, Typed DEF PCs
<1>6. \A r \in Present(services) : services[r].id < 2
  BY <1>1 DEF Present, NoID
<1>7. Given
  BY <1>1, <1>2, <1>6 DEF Given, Present
<1>8. OneName /\ Justified
  BY <1>1, <1>2 DEF OneName, Justified
<1>9. QED
  BY <1>5, <1>7, <1>8 DEF IndInv

--------------------------------------------------------------------------------
(***************************************************************************)
(* The invariant after a step, from what the step changes.                 *)
(***************************************************************************)

\* The cloud and the Services change, the syncer does not.
LEMMA WorldStep ==
  ASSUME IndInv, NoneNew, UNCHANGED <<nextID, syncer>>, tag' \in BOOLEAN, disturbed' \in 0..MaxDisturbances,
         services' \in [Services -> Annotated \cup {Absent}],
         \A s \in Services : services'[s] # Absent => services'[s].id < nextID
  PROVE  IndInv'
<1>1. UNCHANGED <<pc, listed, page, list, res, nextID>>
  BY DEF syncer
<1>2. lbs' \subseteq LB
  BY DEF NoneNew
<1>3. TypeOK'
  BY <1>1, <1>2, Typed DEF IndInv, TypeOK, PCs, LB, Annotated
<1>4. Given'
  BY <1>1 DEF IndInv, Given, NoneNew, Present
<1>5. OneName'
  BY <1>1 DEF IndInv, OneName, NoneNew
<1>6. Justified'
  <2>1. ASSUME NEW k \in lbs', k.id \in res
        PROVE  \E s \in Present(listed) : refers(listed[s], s, k)
    <3>1. PICK l \in lbs : l.id = k.id /\ l.name = k.name
      BY <2>1 DEF NoneNew
    <3>2. PICK s \in Present(listed) : refers(listed[s], s, l)
      BY <2>1, <3>1 DEF IndInv, Justified
    <3>3. QED
      BY <3>1, <3>2 DEF refers
  <2>2. QED
    BY <1>1, <2>1 DEF IndInv, Justified, Present
<1>7. QED
  BY <1>3, <1>4, <1>5, <1>6 DEF IndInv

\* syncTags returns.
LEMMA SleepStep ==
  ASSUME IndInv, Sleep, NoneNew, UNCHANGED <<services, nextID, tag>>, disturbed' \in 0..MaxDisturbances
  PROVE  IndInv'
<1>1. /\ pc' = "wait" /\ listed' = [s \in Services |-> Absent] /\ page' = 1 /\ list' = {} /\ res' = {}
      /\ 1 \in 1..(MaxLBs + 1) /\ lbs' \subseteq LB
  BY TagAssumption DEF Sleep, NoneNew
<1>2. TypeOK'
  BY <1>1, Typed DEF IndInv, TypeOK, PCs, LB, Annotated
<1>3. Given'
  BY <1>1 DEF IndInv, Given, NoneNew, Present
<1>4. OneName' /\ Justified'
  BY <1>1 DEF IndInv, OneName, Justified, NoneNew
<1>5. QED
  BY <1>2, <1>3, <1>4 DEF IndInv

\* Load balancers that stay as they are.
LEMMA SameNotNew ==
  ASSUME TypeOK, lbs' \subseteq lbs
  PROVE  NoneNew
BY Typed DEF NoneNew

\* Load balancers that change their tags.
LEMMA RetaggedNotNew ==
  ASSUME TypeOK, \A k \in lbs' : \E l \in lbs, b \in BOOLEAN : k = [l EXCEPT !.tagged = b]
  PROVE  NoneNew
<1> SUFFICES ASSUME NEW k \in lbs'
             PROVE  k \in LB /\ \E l \in lbs : l.id = k.id /\ l.name = k.name
  BY DEF NoneNew
<1>1. PICK l \in lbs, b \in BOOLEAN : k = [l EXCEPT !.tagged = b]
  OBVIOUS
<1>2. l \in LB
  BY Typed
<1>3. QED
  BY <1>1, <1>2 DEF LB

--------------------------------------------------------------------------------
(***************************************************************************)
(* The steps of the syncer.                                                *)
(***************************************************************************)

\* Reading the Services keeps the invariant: nothing is to be tagged yet.
LEMMA ListServicesStep == ASSUME IndInv, ListServices PROVE IndInv'
<1>1. NoneNew /\ UNCHANGED <<services, lbs, nextID, tag, disturbed>>
  BY SameNotNew DEF ListServices, IndInv
<1>2. CASE Sleep
  BY <1>1, <1>2, SleepStep DEF IndInv, TypeOK
<1>3. CASE pc' = "list" /\ listed' = services /\ UNCHANGED <<page, list, res>>
  <2>1. res = {}
    BY DEF ListServices, IndInv, Justified
  <2>2. TypeOK'
    BY <1>1, <1>3 DEF IndInv, TypeOK
  <2>3. Given' /\ OneName' /\ Justified'
    BY <1>1, <1>3, <2>1 DEF IndInv, Given, OneName, Justified, Present
  <2>4. QED
    BY <2>2, <2>3 DEF IndInv
<1>4. QED
  BY <1>2, <1>3 DEF ListServices

\* There are never more load balancers than IDs, so that the list has an end.
LEMMA Counted ==
  ASSUME TypeOK
  PROVE  count(lbs) \in Nat /\ count(lbs) <= MaxLBs
<1>1. {l.id : l \in lbs} \subseteq IDs
  BY DEF TypeOK
<1>2. IsFiniteSet(IDs) /\ Cardinality(IDs) = MaxLBs
  BY FS_Interval, TagAssumption DEF IDs
<1>3. /\ IsFiniteSet({l.id : l \in lbs})
      /\ Cardinality({l.id : l \in lbs}) <= MaxLBs
  BY <1>1, <1>2, FS_Subset
<1>4. QED
  BY <1>3, FS_CardinalityType DEF count

\* The page asked for next is one that a longer list would have.
LEMMA NextPage ==
  ASSUME TypeOK, ~isLastPage
  PROVE  page + 1 \in 1..(MaxLBs + 1)
<1>1. page \in Nat /\ PerPage \in Nat /\ PerPage >= 1 /\ MaxLBs \in Nat /\ page >= 1
  BY TagAssumption DEF TypeOK
<1>2. page * PerPage < count(lbs)
  BY <1>1, Counted DEF isLastPage
<1>3. page <= page * PerPage
  BY <1>1
<1>4. page <= MaxLBs
  <2> DEFINE product == page * PerPage
  <2>1. product \in Int
    BY <1>1
  <2> HIDE DEF product
  <2>2. QED
    BY <1>1, <1>2, <1>3, <2>1, Counted DEF product
<1>5. QED
  BY <1>1, <1>4

\* Reading a page keeps it: an entry has the name its ID stands for.
LEMMA ListPageStep == ASSUME IndInv, ListPage PROVE IndInv'
<1>1. UNCHANGED <<services, lbs, nextID, tag, listed, res, disturbed>> /\ pc = "list"
  BY DEF ListPage
<1>2. list' = list \cup answer
  BY DEF ListPage
<1>3. \A e \in answer : /\ e \in [id : IDs, name : Services]
                        /\ \E l \in lbs : e.id = l.id /\ e.name = l.name
  BY DEF answer, IndInv, TypeOK
<1>4. pc' \in {"list", "collect"} /\ page' \in 1..(MaxLBs + 1)
  BY <1>1, NextPage DEF ListPage, IndInv, TypeOK
<1>5. list' \subseteq [id : IDs, name : Services]
  BY <1>2, <1>3 DEF IndInv, TypeOK
<1>6. TypeOK'
  BY <1>1, <1>4, <1>5 DEF IndInv, TypeOK
<1>7. Given'
  BY <1>1, <1>2, <1>3 DEF IndInv, Given, Present
<1>8. OneName'
  <2>1. ASSUME NEW l \in lbs, NEW e \in answer, e.id = l.id
        PROVE  e.name = l.name
    <3>1. PICK m \in lbs : e.id = m.id /\ e.name = m.name
      BY <1>3
    <3>2. QED
      BY Zenon, <2>1, <3>1 DEF IndInv, OneName
  <2>2. QED
    BY <1>1, <1>2, <2>1 DEF IndInv, OneName
<1>9. Justified'
  BY <1>1, <1>4 DEF IndInv, Justified, Present
<1>10. QED
  BY <1>6, <1>7, <1>8, <1>9 DEF IndInv

\* The IDs to tag are annotated, or were read with the name of the Service.
LEMMA FoundIDs ==
  ASSUME NEW id \in found
  PROVE  \E s \in Present(listed) :
           \/ listed[s].id # NoID /\ id = listed[s].id
           \/ listed[s].id = NoID /\ \E e \in list : e.id = id /\ e.name = s
<1>1. PICK s \in Present(listed) : id \in findLoadBalancerID(s)
  BY DEF found
<1>2. CASE listed[s].id # NoID
  BY <1>1, <1>2 DEF findLoadBalancerID
<1>3. CASE listed[s].id = NoID
  <2>1. id \in oldest({e \in list : e.name = s})
    BY <1>1, <1>3 DEF findLoadBalancerID
  <2>2. \E e \in list : e.id = id /\ e.name = s
    BY <2>1 DEF oldest
  <2>3. QED
    BY <1>1, <1>3, <2>2
<1>4. QED
  BY <1>2, <1>3

\* So does collecting the IDs: an ID read by name still stands for the name.
LEMMA CollectStep == ASSUME IndInv, Collect PROVE IndInv'
<1>1. NoneNew /\ UNCHANGED <<services, lbs, nextID, tag, disturbed>>
  BY SameNotNew DEF Collect, IndInv
<1>2. CASE Sleep
  BY <1>1, <1>2, SleepStep DEF IndInv, TypeOK
<1>3. CASE found # {} /\ pc' = "tag" /\ res' = found /\ page' = 1 /\ list' = {} /\ UNCHANGED listed
  <2>1. \A id \in found : id \in IDs /\ id < nextID
    <3> SUFFICES ASSUME NEW id \in found PROVE id \in IDs /\ id < nextID
      OBVIOUS
    <3>1. PICK s \in Present(listed) :
            \/ listed[s].id # NoID /\ id = listed[s].id
            \/ listed[s].id = NoID /\ \E e \in list : e.id = id /\ e.name = s
      BY FoundIDs
    <3>2. CASE listed[s].id # NoID /\ id = listed[s].id
      BY <3>2 DEF IndInv, TypeOK, Given, Present
    <3>3. CASE \E e \in list : e.id = id /\ e.name = s
      BY <3>3 DEF IndInv, TypeOK, Given
    <3>4. QED
      BY <3>1, <3>2, <3>3
  <2>2. 1 \in 1..(MaxLBs + 1)
    BY TagAssumption
  <2>3. TypeOK'
    BY <1>1, <1>3, <2>1, <2>2 DEF IndInv, TypeOK
  <2>4. Given' /\ OneName'
    BY <1>1, <1>3, <2>1 DEF IndInv, Given, OneName, Present
  <2>5. ASSUME NEW l \in lbs, l.id \in found
        PROVE  \E s \in Present(listed) : refers(listed[s], s, l)
    <3>1. PICK s \in Present(listed) :
            \/ listed[s].id # NoID /\ l.id = listed[s].id
            \/ listed[s].id = NoID /\ \E e \in list : e.id = l.id /\ e.name = s
      BY <2>5, FoundIDs
    <3>2. (\E e \in list : e.id = l.id /\ e.name = s) => l.name = s
      BY DEF IndInv, OneName
    <3>3. QED
      BY <3>1, <3>2 DEF refers
  <2>6. Justified'
    BY <1>1, <1>3, <2>5 DEF Justified, Present
  <2>7. QED
    BY <2>3, <2>4, <2>6 DEF IndInv
<1>4. QED
  BY <1>2, <1>3 DEF Collect

\* A first 404, and the creation of the tag, leave what is to be tagged.
LEMMA RetryStep ==
  ASSUME IndInv, pc \in {"tag", "create"}, pc' \in {"create", "retag"}, tag' \in BOOLEAN,
         UNCHANGED <<services, lbs, nextID, listed, page, list, res, disturbed>>
  PROVE  IndInv'
<1>1. TypeOK'
  BY DEF IndInv, TypeOK
<1>2. Given' /\ OneName' /\ Justified'
  BY DEF IndInv, Given, OneName, Justified, Present
<1>3. QED
  BY <1>1, <1>2 DEF IndInv

\* So does the request, whatever its answer.
LEMMA TagStep == ASSUME IndInv, tagResources PROVE IndInv'
<1>1. UNCHANGED <<services, nextID, tag, disturbed>> /\ disturbed \in 0..MaxDisturbances
  BY DEF tagResources, IndInv, TypeOK
<1>2. CASE lbs' = {[l EXCEPT !.tagged = l.tagged \/ l.id \in res] : l \in lbs} /\ Sleep
  <2>1. \A l \in lbs : (l.tagged \/ l.id \in res) \in BOOLEAN
    OBVIOUS
  <2>2. NoneNew
    BY Zenon, <1>2, <2>1, RetaggedNotNew DEF IndInv
  <2>3. QED
    BY <1>1, <1>2, <2>2, SleepStep
<1>3. CASE afterNotFound /\ UNCHANGED lbs
  <2>1. NoneNew
    BY <1>3, SameNotNew DEF IndInv
  <2>2. CASE Sleep
    BY <1>1, <2>1, <2>2, SleepStep
  <2>3. CASE pc = "tag" /\ pc' = "create" /\ UNCHANGED <<listed, page, list, res>>
    BY <1>1, <1>3, <2>3, RetryStep DEF IndInv, TypeOK
  <2>4. QED
    BY <1>3, <2>2, <2>3 DEF afterNotFound
<1>4. CASE Sleep /\ UNCHANGED lbs
  BY <1>1, <1>4, SameNotNew, SleepStep DEF IndInv
<1>5. QED
  BY <1>2, <1>3, <1>4 DEF tagResources

\* So does every step of the syncer.
LEMMA SyncStep == ASSUME IndInv, Sync PROVE IndInv'
<1>1. CASE CreateTag
  BY <1>1, RetryStep DEF CreateTag
<1>2. CASE CallFails
  BY <1>2, SameNotNew, SleepStep, Disturbs DEF CallFails, IndInv
<1>3. QED
  BY <1>1, <1>2, ListServicesStep, ListPageStep, CollectStep, TagStep DEF Sync

--------------------------------------------------------------------------------
(***************************************************************************)
(* The steps of the service controller and of everything else.             *)
(***************************************************************************)

\* A new load balancer has an ID that nothing refers to.
LEMMA CreateLBStep == ASSUME IndInv, NEW s \in Services, CreateLB(s) PROVE IndInv'
<1> DEFINE new == [id |-> nextID, name |-> s, tagged |-> TRUE]
<1>1. /\ lbs' = lbs \cup {new} /\ nextID' = nextID + 1 /\ tag' = TRUE /\ nextID <= MaxLBs
      /\ UNCHANGED <<services, pc, listed, page, list, res, disturbed>>
  BY DEF CreateLB, syncer
<1>2. new \in LB /\ nextID \in IDs /\ nextID + 1 \in 1..(MaxLBs + 1) /\ nextID \in Int
  BY <1>1, TagAssumption DEF IndInv, TypeOK, LB, IDs
<1>3. TypeOK'
  BY Zenon, <1>1, <1>2 DEF IndInv, TypeOK, LB
<1>4. /\ \A l \in lbs : l.id \in Int /\ l.id < nextID
      /\ \A e \in list : e.id \in Int /\ e.id < nextID
      /\ \A id \in res : id \in Int /\ id < nextID
      /\ \A r \in Present(services) : services[r].id \in Int /\ services[r].id < nextID
      /\ \A r \in Present(listed) : listed[r].id \in Int /\ listed[r].id < nextID
  BY DEF IndInv, TypeOK, Given, Present, IDs, NoID
<1>5. Given'
  BY <1>1, <1>2, <1>4 DEF Given, Present
<1>6. OneName'
  BY <1>1, <1>2, <1>4 DEF IndInv, OneName
<1>7. Justified'
  BY <1>1, <1>2, <1>4 DEF IndInv, Justified, Present
<1>8. QED
  BY <1>3, <1>5, <1>6, <1>7 DEF IndInv

\* What the invariant says of the Services.
LEMMA ServiceFacts ==
  ASSUME IndInv
  PROVE  /\ services \in [Services -> Annotated \cup {Absent}] /\ tag \in BOOLEAN
         /\ disturbed \in 0..MaxDisturbances
         /\ \A s \in Services : services[s] # Absent => services[s] \in Annotated /\ services[s].id < nextID
         /\ nextID \in Int /\ nextID > 0
BY DEF IndInv, TypeOK, Given, Present, Annotated

\* A change of the Services keeps the invariant.
LEMMA ServicesStep ==
  ASSUME IndInv, NEW s \in Services, AnnotateID(s) \/ CreateService(s) \/ DeleteService(s)
  PROVE  IndInv'
<1>1. CASE AnnotateID(s)
  <2>1. PICK l \in lbs : services' = [services EXCEPT ![s].id = l.id]
    BY Zenon, <1>1 DEF AnnotateID, refersTo
  <2>2. l.id \in IDs /\ l.id < nextID /\ services[s] \in Annotated
    BY <1>1, ServiceFacts DEF AnnotateID, IndInv, TypeOK, Given
  <2>3. [services[s] EXCEPT !.id = l.id] \in Annotated /\ [services[s] EXCEPT !.id = l.id].id = l.id
    BY <2>2 DEF Annotated
  <2>4. /\ services' \in [Services -> Annotated \cup {Absent}]
        /\ \A r \in Services : services'[r] # Absent => services'[r].id < nextID
    BY <2>1, <2>2, <2>3, ServiceFacts
  <2>5. QED
    BY <1>1, <2>4, SameNotNew, ServiceFacts, WorldStep DEF AnnotateID, IndInv
<1>2. CASE CreateService(s)
  <2>1. services' = [services EXCEPT ![s] = [id |-> NoID, disown |-> FALSE]]
    BY <1>2 DEF CreateService
  <2>2. [id |-> NoID, disown |-> FALSE] \in Annotated /\ NoID < nextID
    BY ServiceFacts DEF Annotated, NoID
  <2>3. /\ services' \in [Services -> Annotated \cup {Absent}]
        /\ \A r \in Services : services'[r] # Absent => services'[r].id < nextID
    BY <2>1, <2>2, ServiceFacts
  <2>4. disturbed' \in 0..MaxDisturbances
    BY <1>2, Disturbs DEF CreateService, IndInv
  <2>5. QED
    BY <1>2, <2>3, <2>4, SameNotNew, ServiceFacts, WorldStep DEF CreateService, IndInv
<1>3. CASE DeleteService(s)
  <2>1. lbs' \subseteq lbs /\ services' = [services EXCEPT ![s] = Absent]
    BY <1>3 DEF DeleteService
  <2>2. /\ services' \in [Services -> Annotated \cup {Absent}]
        /\ \A r \in Services : services'[r] # Absent => services'[r].id < nextID
    BY <2>1, ServiceFacts
  <2>3. disturbed' \in 0..MaxDisturbances
    BY <1>3, Disturbs DEF DeleteService, IndInv
  <2>4. QED
    BY <1>3, <2>1, <2>2, <2>3, SameNotNew, ServiceFacts, WorldStep DEF DeleteService, IndInv
<1>4. QED
  BY <1>1, <1>2, <1>3

\* So does a change of the tags.
LEMMA TagsStep ==
  ASSUME IndInv, (\E l \in lbs : Untag(l)) \/ DeleteTag
  PROVE  IndInv'
<1>1. disturbed' \in 0..MaxDisturbances /\ UNCHANGED <<services, nextID, syncer>> /\ tag' \in BOOLEAN
  BY Zenon, Disturbs, ServiceFacts DEF Untag, DeleteTag, IndInv
<1>2. NoneNew
  <2>1. ASSUME NEW l \in lbs, Untag(l) PROVE NoneNew
    <3>1. l \in LB /\ lbs' = (lbs \ {l}) \cup {[l EXCEPT !.tagged = FALSE]}
      BY <2>1, Typed DEF Untag, IndInv
    <3>2. [l EXCEPT !.tagged = FALSE] \in LB /\ [l EXCEPT !.tagged = FALSE].id = l.id
          /\ [l EXCEPT !.tagged = FALSE].name = l.name
      BY Zenon, <3>1 DEF LB
    <3>3. lbs \subseteq LB
      BY Typed DEF IndInv
    <3>4. QED
      BY Zenon, <3>1, <3>2, <3>3 DEF NoneNew
  <2>2. CASE DeleteTag
    BY Zenon, <2>2, RetaggedNotNew DEF DeleteTag, IndInv
  <2>3. QED
    BY <2>1, <2>2
<1>3. QED
  BY <1>1, <1>2, ServiceFacts, WorldStep

\* Every step preserves the invariant.
LEMMA IndStep == IndInv /\ [Next]_vars => IndInv'
<1> SUFFICES ASSUME IndInv, [Next]_vars PROVE IndInv'
  OBVIOUS
<1>1. CASE UNCHANGED vars
  BY <1>1, SameNotNew, ServiceFacts, WorldStep DEF vars, syncer, IndInv
<1>2. CASE ServiceController
  BY <1>2, CreateLBStep, ServicesStep DEF ServiceController
<1>3. CASE Environment
  BY <1>3, ServicesStep, TagsStep DEF Environment
<1>4. QED
  BY <1>1, <1>2, <1>3, SyncStep DEF Next

\* Load balancers are told apart by their IDs.
Single == \A l, m \in lbs : l.id = m.id => l = m

\* Every step keeps it that way.
LEMMA SingleStep ==
  ASSUME IndInv, Single, [Next]_vars
  PROVE  Single'
<1>0. lbs \subseteq LB
  BY Typed DEF IndInv
<1>1. ASSUME lbs' \subseteq lbs PROVE Single'
  BY <1>1 DEF Single
<1>2. ASSUME NEW on \in [lbs -> BOOLEAN], lbs' = {[l EXCEPT !.tagged = on[l]] : l \in lbs}
      PROVE  Single'
  <2> SUFFICES ASSUME NEW k1 \in lbs', NEW k2 \in lbs', k1.id = k2.id PROVE k1 = k2
    BY DEF Single
  <2>1. PICK l1 \in lbs : k1 = [l1 EXCEPT !.tagged = on[l1]]
    BY <1>2
  <2>2. PICK l2 \in lbs : k2 = [l2 EXCEPT !.tagged = on[l2]]
    BY <1>2
  <2>3. k1.id = l1.id /\ k2.id = l2.id
    BY <1>0, <2>1, <2>2 DEF LB
  <2>4. l1 = l2
    BY Zenon, <2>3 DEF Single
  <2>5. QED
    BY <2>1, <2>2, <2>4
<1>3. CASE tagResources
  <2>1. CASE lbs' = {[l EXCEPT !.tagged = l.tagged \/ l.id \in res] : l \in lbs}
    <3> DEFINE on == [l \in lbs |-> l.tagged \/ l.id \in res]
    <3>1. on \in [lbs -> BOOLEAN] /\ \A l \in lbs : on[l] = (l.tagged \/ l.id \in res)
      OBVIOUS
    <3> HIDE DEF on
    <3>2. lbs' = {[l EXCEPT !.tagged = on[l]] : l \in lbs}
      BY <2>1, <3>1
    <3>3. QED
      BY Zenon, <1>2, <3>1, <3>2
  <2>2. QED
    BY <1>1, <1>3, <2>1 DEF tagResources
<1>4. CASE DeleteTag
  <2> DEFINE on == [l \in lbs |-> FALSE]
  <2>1. on \in [lbs -> BOOLEAN] /\ \A l \in lbs : on[l] = FALSE
    OBVIOUS
  <2> HIDE DEF on
  <2>2. lbs' = {[l EXCEPT !.tagged = on[l]] : l \in lbs}
    BY Zenon, <1>4, <2>1 DEF DeleteTag
  <2>3. QED
    BY Zenon, <1>2, <2>1, <2>2
<1>5. ASSUME NEW l \in lbs, Untag(l) PROVE Single'
  <2> DEFINE k == [l EXCEPT !.tagged = FALSE]
  <2>1. k.id = l.id
    BY <1>0 DEF LB
  <2>2. lbs' = (lbs \ {l}) \cup {k}
    BY <1>5 DEF Untag
  <2> HIDE DEF k
  <2>3. QED
    BY <2>1, <2>2 DEF Single
<1>6. ASSUME NEW s \in Services, CreateLB(s) PROVE Single'
  <2> DEFINE new == [id |-> nextID, name |-> s, tagged |-> TRUE]
  <2>1. lbs' = lbs \cup {new} /\ new.id = nextID
    BY <1>6 DEF CreateLB
  <2>2. \A l \in lbs : l.id # nextID
    BY <1>0 DEF IndInv, Given, TypeOK, LB, IDs
  <2> HIDE DEF new
  <2>3. QED
    BY <2>1, <2>2 DEF Single
<1>7. CASE ListServices \/ ListPage \/ Collect \/ CreateTag \/ CallFails \/ UNCHANGED vars
  BY <1>1, <1>7 DEF ListServices, ListPage, Collect, CreateTag, CallFails, vars
<1>8. ASSUME NEW s \in Services, AnnotateID(s) \/ CreateService(s) \/ DeleteService(s) PROVE Single'
  BY <1>1, <1>8 DEF AnnotateID, CreateService, DeleteService
<1>9. QED
  BY <1>3, <1>4, <1>5, <1>6, <1>7, <1>8 DEF Next, Sync, ServiceController, Environment

\* The invariants hold throughout.
LEMMA Inductive == Spec => [](IndInv /\ Single)
<1>1. Init => Single
  BY Zenon DEF Init, Single
<1>2. QED
  BY <1>1, IndInit, IndStep, SingleStep, PTL DEF Spec

\* The state is well typed, the pages asked for are bounded by the number of load
\* balancers, and no request is sent without resources (syncTags, resources.go).
THEOREM TypeCorrect == Spec => []TypeOK
<1>1. IndInv => TypeOK
  BY DEF IndInv
<1>2. QED
  BY <1>1, Inductive, PTL

\* OnlyReferred for all Services, sizes of a page and sequences of events: the
\* syncer tags nothing but what a Service it has read refers to, by ID or by name
\* (findLoadBalancerID, tagResources).
THEOREM NothingElse == Spec => OnlyReferred
<1>1. ASSUME IndInv, Single, [Next]_vars, NEW l \in lbs, ~l.tagged, [l EXCEPT !.tagged = TRUE] \in lbs'
      PROVE  \E s \in Present(listed) : refers(listed[s], s, l)
  <2> DEFINE k == [l EXCEPT !.tagged = TRUE]
  <2>1. lbs \subseteq LB /\ k \in lbs' /\ k.id = l.id /\ k.tagged = TRUE
    BY <1>1, Typed DEF IndInv, LB
  <2> SUFFICES l.id \in res
    BY <1>1 DEF IndInv, Justified
  <2> HIDE DEF k
  <2>2. k \notin lbs
    BY <1>1, <2>1 DEF Single
  <2>3. CASE lbs' = {[m EXCEPT !.tagged = m.tagged \/ m.id \in res] : m \in lbs}
    <3>1. PICK m \in lbs : k = [m EXCEPT !.tagged = m.tagged \/ m.id \in res]
      BY <2>1, <2>3
    <3>2. k.id = m.id /\ (k.tagged <=> m.tagged \/ m.id \in res)
      BY <2>1, <3>1 DEF LB
    <3>3. m = l
      BY Zenon, <1>1, <2>1, <3>2 DEF Single
    <3>4. QED
      BY <1>1, <2>1, <3>2, <3>3
  <2>4. ASSUME NEW s \in Services, CreateLB(s) PROVE FALSE
    <3>1. k.id = nextID
      BY <2>1, <2>2, <2>4 DEF CreateLB
    <3>2. l.id # nextID
      BY <1>1, <2>1 DEF IndInv, Given, TypeOK, LB, IDs
    <3>3. QED
      BY <2>1, <3>1, <3>2
  <2>5. ASSUME NEW m \in lbs, Untag(m) PROVE FALSE
    <3>1. k = [m EXCEPT !.tagged = FALSE]
      BY <2>1, <2>2, <2>5 DEF Untag
    <3>2. QED
      BY <2>1, <3>1 DEF LB
  <2>6. ASSUME DeleteTag PROVE FALSE
    <3>1. PICK m \in lbs : k = [m EXCEPT !.tagged = FALSE]
      BY <2>1, <2>6 DEF DeleteTag
    <3>2. QED
      BY <2>1, <3>1 DEF LB
  <2>7. ASSUME ListServices \/ ListPage \/ Collect \/ CreateTag \/ CallFails \/ UNCHANGED vars PROVE FALSE
    BY <2>1, <2>2, <2>7 DEF ListServices, ListPage, Collect, CreateTag, CallFails, vars
  <2>8. ASSUME NEW s \in Services, AnnotateID(s) \/ CreateService(s) \/ DeleteService(s) PROVE FALSE
    <3>1. lbs' \subseteq lbs
      BY <2>8 DEF AnnotateID, CreateService, DeleteService
    <3>2. QED
      BY <2>1, <2>2, <3>1
  <2>9. tagResources
    BY <1>1, <2>4, <2>5, <2>6, <2>7, <2>8 DEF Next, Sync, ServiceController, Environment
  <2>10. QED
    BY <2>1, <2>2, <2>3, <2>9 DEF tagResources
<1>2. IndInv /\ Single /\ [Next]_vars
      => [\A l \in lbs : ~l.tagged /\ [l EXCEPT !.tagged = TRUE] \in lbs'
            => \E s \in Present(listed) : refers(listed[s], s, l)]_lbs
  BY <1>1
<1>3. QED
  BY <1>2, Inductive, PTL DEF Spec, OnlyReferred
================================================================================
