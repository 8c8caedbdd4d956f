------------------------------- MODULE LBPromise -------------------------------
(***************************************************************************)
(* What the load balancer implementation promises the owner of a Service,  *)
(* without queues, lookups, annotations in flight or program positions.    *)
(* It works from copies of the Service that may be old.  It creates one    *)
(* load balancer at most, under the finalizer; writes to it only what one  *)
(* such copy asks for as a whole; and leaves it alone on behalf of a copy  *)
(* that disowns it.  It deletes it only if the Service has stopped asking  *)
(* for one, and gives up the finalizer only after that or if the load      *)
(* balancer is disowned.                                                   *)
(***************************************************************************)
EXTENDS Naturals

VARIABLES service,      \* the Service in the Kubernetes API
          known,        \* what the informer knows of it
          held,         \* what each worker's copy asks for: none or one
          lbs,          \* the load balancers in the account
          made,         \* how many have been created
          interferences \* counts what comes from outside

vars == <<service, known, held, lbs, made, interferences>>

Asks(s)  == [name |-> s.name, config |-> s.config, disown |-> s.disown]
Wants(s) == s.phase = "live" /\ s.lb

\* A copy on whose behalf the load balancer may be touched.
Permits(p) == {a \in held[p] : ~a.disown}

Init == held = [p \in DOMAIN held |-> {}] /\ lbs = {} /\ made = 0 /\ known = service

(***************************************************************************)
(* Copies of the Service.                                                  *)
(***************************************************************************)
Learn ==
  /\ known' = service
  /\ UNCHANGED <<service, held, lbs, made, interferences>>

\* A worker takes what the informer knows, what another worker holds, or lets go.
Hold(p) ==
  /\ \E a \in {{Asks(known)}, {}} \cup {held[q] : q \in DOMAIN held} : held' = [held EXCEPT ![p] = a]
  /\ UNCHANGED <<service, known, lbs, made, interferences>>

Crash ==
  /\ held' = [p \in DOMAIN held |-> {}]
  /\ known' = service
  /\ UNCHANGED <<service, lbs, made>>

(***************************************************************************)
(* The load balancer.                                                      *)
(***************************************************************************)
Create ==
  /\ made = 0 /\ lbs = {} /\ service.finalizer
  /\ \E a \in Permits("svc"), l \in lbs' :
       lbs' = {l} /\ l.name = a.name /\ l.config = a.config
  /\ made' = 1
  /\ UNCHANGED <<service, known, held>>

Configure(p) ==
  /\ \E a \in Permits(p), l \in lbs, m \in lbs' :
       /\ lbs' = (lbs \ {l}) \cup {m}
       /\ m.id = l.id /\ m.status = l.status /\ m.name = a.name /\ m.config = a.config
  /\ UNCHANGED <<service, known, held, made, interferences>>

Delete ==
  /\ ~Wants(service) /\ Permits("svc") # {}
  /\ lbs' = {}
  /\ UNCHANGED <<service, known, held, made, interferences>>

(***************************************************************************)
(* What is written to the Service.                                         *)
(***************************************************************************)
Guard ==
  /\ service.phase = "live"
  /\ service' = [service EXCEPT !.finalizer = TRUE]
  /\ UNCHANGED <<known, held, lbs, made, interferences>>

Release ==
  /\ ~Wants(service) /\ (lbs = {} \/ service.disown)
  /\ service' = [service EXCEPT !.finalizer = FALSE,
                                !.phase = IF @ = "deleting" THEN "gone" ELSE @]
  /\ UNCHANGED <<known, held, lbs, made, interferences>>

\* The ID and the address are those of a load balancer that has been created.
Refer ==
  /\ \E id \in 1..made : service' \in {[service EXCEPT !.id = id], [service EXCEPT !.status = id]}
  /\ UNCHANGED <<known, held, lbs, made, interferences>>

Unpublish ==
  /\ ~Wants(service)
  /\ service' = [service EXCEPT !.status = 0]
  /\ UNCHANGED <<known, held, lbs, made, interferences>>

(***************************************************************************)
(* From outside.                                                           *)
(***************************************************************************)
Edit ==
  /\ interferences' # interferences
  /\ service'.finalizer = service.finalizer /\ service'.id = service.id
  /\ service'.status = service.status
  /\ UNCHANGED <<known, held, lbs, made>>

\* The cloud finishes what it has started, or somebody edits the load balancer.
Cloud ==
  /\ \E l \in lbs, m \in lbs' :
       /\ lbs' = (lbs \ {l}) \cup {m} /\ m.id = l.id /\ m.name = l.name
       /\ interferences' = interferences => m.config = l.config
  /\ UNCHANGED <<service, known, held, made>>

Next ==
  \/ Learn \/ Crash \/ Create \/ Delete \/ Guard \/ Release \/ Refer \/ Unpublish \/ Edit \/ Cloud
  \/ \E p \in DOMAIN held : Hold(p) \/ Configure(p)

Spec == Init /\ [][Next]_vars
================================================================================
