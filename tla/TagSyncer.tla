------------------------------- MODULE TagSyncer -------------------------------
(***************************************************************************)
(* The tags syncer of the resources controller (resources.go): every 15    *)
(* minutes it gives the cluster's tag to the load balancers its Services   *)
(* refer to.  Beside it the service controller creates, finds and deletes  *)
(* those load balancers; that work is one step here, LBService has its     *)
(* details.  Every API call of the syncer is a step of its own.            *)
(*                                                                         *)
(* A Service is a record [id, disown] with the load balancer ID annotation *)
(* and the disown annotation; its load balancer is named after it.         *)
(***************************************************************************)
EXTENDS Integers, FiniteSets

CONSTANTS Services,       \* names of Services of type LoadBalancer
          Absent,         \* there is no such Service
          MaxLBs,         \* bound: how many load balancers are ever created
          PerPage,        \* apiResultsPerPage, scaled down
          Disturbances,   \* what may happen, see Disturb
          MaxDisturbances \* bound: how often

ASSUME TagAssumption ==
  MaxLBs \in Nat \ {0} /\ PerPage \in Nat \ {0} /\ MaxDisturbances \in Nat

NoID == 0
IDs  == 1..MaxLBs

VARIABLES
  services,  \* the informer store
  lbs,       \* the load balancers: a set of [id, name, tagged]
  nextID,    \* the ID of the next one
  tag,       \* does the tag exist?
  pc,        \* where the syncer is
  listed,    \* the Services it works on: lbSvcs
  page,      \* the page of the list of load balancers it asks for next
  list,      \* what was on the pages it has got: a set of [id, name]
  res,       \* the IDs of the load balancers to tag
  disturbed  \* how often something was disturbed so far

vars == <<services, lbs, nextID, tag, pc, listed, page, list, res, disturbed>>
syncer == <<pc, listed, page, list, res>>

Disturb(kind) ==
  /\ kind \in Disturbances
  /\ disturbed < MaxDisturbances
  /\ disturbed' = disturbed + 1

Present(svcs) == {s \in Services : svcs[s] # Absent}

(***************************************************************************)
(* syncTags.                                                               *)
(***************************************************************************)
Sleep ==
  /\ pc' = "wait" /\ listed' = [s \in Services |-> Absent]
  /\ page' = 1 /\ list' = {} /\ res' = {}

ListServices ==
  /\ pc = "wait"
  /\ IF Present(services) = {}
     THEN Sleep
     ELSE pc' = "list" /\ listed' = services /\ UNCHANGED <<page, list, res>>
  /\ UNCHANGED <<services, lbs, nextID, tag, disturbed>>

\* The API numbers the collection, oldest first, and answers with one page of it:
\* what is deleted before the next page is asked for moves the rest up.  What is
\* on a later page is younger, so the list has the order of the IDs.
count(ls) == Cardinality({l.id : l \in ls})

place(l) == count({k \in lbs : k.id <= l.id})

answer ==
  {[id |-> l.id, name |-> l.name] :
     l \in {k \in lbs : (page - 1) * PerPage < place(k) /\ place(k) <= page * PerPage}}

isLastPage == page * PerPage >= count(lbs)

\* allLoadBalancerList: one page; the loop ends with the last.
ListPage ==
  /\ pc = "list"
  /\ list' = list \cup answer
  /\ IF isLastPage THEN pc' = "collect" /\ UNCHANGED page ELSE page' = page + 1 /\ UNCHANGED pc
  /\ UNCHANGED <<services, lbs, nextID, tag, listed, res, disturbed>>

oldest(entries) == {e.id : e \in {f \in entries : \A g \in entries : f.id <= g.id}}

\* Mutant: the name is not compared.
findLoadBalancerIDAny(s) ==
  IF listed[s].id # NoID THEN {listed[s].id} ELSE oldest(list)

\* The annotation is believed; without it the first of the list that has the
\* name is taken, and there may be none.
findLoadBalancerID(s) ==
  IF listed[s].id # NoID THEN {listed[s].id} ELSE oldest({e \in list : e.name = s})

found == UNION {findLoadBalancerID(s) : s \in Present(listed)}

\* Mutant: a request without resources is sent.
CollectAndTag ==
  /\ pc = "collect"
  /\ pc' = "tag" /\ res' = found
  /\ UNCHANGED <<services, lbs, nextID, tag, listed, page, list, disturbed>>

\* The resources to tag; no call is made for none.
Collect ==
  /\ pc = "collect"
  /\ IF found = {}
     THEN Sleep
     ELSE pc' = "tag" /\ res' = found /\ page' = 1 /\ list' = {} /\ UNCHANGED listed
  /\ UNCHANGED <<services, lbs, nextID, tag, disturbed>>

\* The answer is 404 if there is no such tag; if one of the resources is gone it
\* is success for the others, 404, or another error.
accepted == tag
notFound == ~tag \/ \E id \in res : \A l \in lbs : l.id # id
rejected == tag /\ \E id \in res : \A l \in lbs : l.id # id

\* Mutant: a missing tag is an error like any other.
afterMissing == Sleep

\* The first 404 is taken for a missing tag.
afterNotFound ==
  IF pc = "tag" THEN pc' = "create" /\ UNCHANGED <<listed, page, list, res>> ELSE Sleep

tagResources ==
  /\ pc \in {"tag", "retag"}
  /\ \/ /\ accepted
        /\ lbs' = {[l EXCEPT !.tagged = l.tagged \/ l.id \in res] : l \in lbs}
        /\ Sleep
     \/ notFound /\ afterNotFound /\ UNCHANGED lbs
     \/ rejected /\ Sleep /\ UNCHANGED lbs
  /\ UNCHANGED <<services, nextID, tag, disturbed>>

CreateTag ==
  /\ pc = "create"
  /\ tag' = TRUE
  /\ pc' = "retag"
  /\ UNCHANGED <<services, lbs, nextID, listed, page, list, res, disturbed>>

\* A call fails and is logged, or the process dies: the next tick starts afresh.
CallFails ==
  /\ pc # "wait"
  /\ Sleep
  /\ Disturb("error")
  /\ UNCHANGED <<services, lbs, nextID, tag>>

(***************************************************************************)
(* The service controller.                                                 *)
(***************************************************************************)
refers(annotations, s, l) == IF annotations.id # NoID THEN l.id = annotations.id ELSE l.name = s

refersTo(s) == {l \in lbs : refers(services[s], s, l)}

\* A load balancer is created with the tag.
CreateLB(s) ==
  /\ services[s] # Absent /\ ~services[s].disown
  /\ refersTo(s) = {}
  /\ nextID <= MaxLBs
  /\ lbs' = lbs \cup {[id |-> nextID, name |-> s, tagged |-> TRUE]}
  /\ nextID' = nextID + 1
  /\ tag' = TRUE
  /\ UNCHANGED <<services, syncer, disturbed>>

AnnotateID(s) ==
  /\ services[s] # Absent /\ ~services[s].disown
  /\ \E l \in refersTo(s) :
       /\ l.id # services[s].id
       /\ services' = [services EXCEPT ![s].id = l.id]
  /\ UNCHANGED <<lbs, nextID, tag, syncer, disturbed>>

CreateService(s) ==
  /\ services[s] = Absent
  /\ Disturb("service")
  /\ services' = [services EXCEPT ![s] = [id |-> NoID, disown |-> FALSE]]
  /\ UNCHANGED <<lbs, nextID, tag, syncer>>

DeleteService(s) ==
  /\ services[s] # Absent
  /\ Disturb("service")
  /\ services' = [services EXCEPT ![s] = Absent]
  /\ lbs' = IF services[s].disown THEN lbs ELSE lbs \ refersTo(s)
  /\ UNCHANGED <<nextID, tag, syncer>>

(***************************************************************************)
(* Everything else.                                                        *)
(***************************************************************************)
Untag(l) ==
  /\ l.tagged
  /\ Disturb("untag")
  /\ lbs' = (lbs \ {l}) \cup {[l EXCEPT !.tagged = FALSE]}
  /\ UNCHANGED <<services, nextID, tag, syncer>>

DeleteTag ==
  /\ tag
  /\ Disturb("tag")
  /\ tag' = FALSE
  /\ lbs' = {[l EXCEPT !.tagged = FALSE] : l \in lbs}
  /\ UNCHANGED <<services, nextID, syncer>>

\* The first Service has a load balancer from before DO_CLUSTER_ID was set,
\* known by ID or by name, or disowned.
Init ==
  /\ \E s \in Services, id \in {NoID, 1}, d \in BOOLEAN :
       /\ services = [r \in Services |-> IF r = s THEN [id |-> id, disown |-> d] ELSE Absent]
       /\ lbs = {[id |-> 1, name |-> s, tagged |-> FALSE]}
  /\ nextID = 2
  /\ tag = FALSE
  /\ pc = "wait"
  /\ listed = [s \in Services |-> Absent]
  /\ page = 1 /\ list = {} /\ res = {}
  /\ disturbed = 0

Sync == ListServices \/ ListPage \/ Collect \/ tagResources \/ CreateTag \/ CallFails

ServiceController == \E s \in Services : CreateLB(s) \/ AnnotateID(s)

Environment ==
  \/ \E s \in Services : CreateService(s) \/ DeleteService(s)
  \/ \E l \in lbs : Untag(l)
  \/ DeleteTag

Next == Sync \/ ServiceController \/ Environment

\* The ticker fires and the goroutine runs.
Spec == Init /\ [][Next]_vars /\ WF_vars(Sync)

--------------------------------------------------------------------------------
\* The type invariant: in particular a tag request is never empty.
TypeOK ==
  /\ services \in [Services -> [id : IDs \cup {NoID}, disown : BOOLEAN] \cup {Absent}]
  /\ listed \in [Services -> [id : IDs \cup {NoID}, disown : BOOLEAN] \cup {Absent}]
  /\ lbs \subseteq [id : IDs, name : Services, tagged : BOOLEAN]
  /\ nextID \in 1..(MaxLBs + 1) /\ tag \in BOOLEAN /\ disturbed \in 0..MaxDisturbances
  /\ pc \in {"wait", "list", "collect", "tag", "create", "retag"}
  /\ page \in 1..(MaxLBs + 1) /\ list \subseteq [id : IDs, name : Services]
  /\ res \subseteq IDs
  /\ pc \in {"tag", "create", "retag"} => res # {}

\* The syncer tags only load balancers that a Service refers to, as it read the
\* Services at the beginning of syncTags, although load balancers come and go
\* until the request is sent: an ID found by name is that of no other by then.
\* A disowned load balancer counts as referred to: syncTags does not look at the
\* annotation (resources.go:171), although annotations.md:198 says that such
\* load balancers "are not mutated anymore".
OnlyReferred ==
  [][\A l \in lbs : ~l.tagged /\ [l EXCEPT !.tagged = TRUE] \in lbs'
       => \E s \in Present(listed) : refers(listed[s], s, l)]_lbs

\* Once nothing happens any more, every load balancer a Service refers to by ID
\* or by name has the cluster's tag, although the tag may be missing and load
\* balancers come and go while syncTags is between two calls, so that a page of
\* allLoadBalancerList skips one of them: the next tick makes up for it.  Here
\* too disowned load balancers are among those that a Service refers to.
AllTagged ==
  <>[](\A s \in Present(services) : \A l \in refersTo(s) : l.tagged)
================================================================================
