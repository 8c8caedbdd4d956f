---------------------------- MODULE LBServicePromise ----------------------------
(***************************************************************************)
(* How the state of LBService maps to that of LBPromise: what the owner of *)
(* the Service sees of the two workers.                                    *)
(***************************************************************************)
EXTENDS LBService

\* What the workers' objects ask for; the ID is left out.
Copies ==
  [p \in Workers |->
     IF obj[p] = Nil THEN {}
     ELSE {[name |-> obj[p].name, config |-> obj[p].config, disown |-> obj[p].disown]}]

Promise ==
  INSTANCE LBPromise WITH
    service       <- svc,
    known         <- lister,
    held          <- Copies,
    made          <- nextID - 1,
    interferences <- disturbed.times

\* The two workers, their shared object and all failures come to no more than
\* the steps of LBPromise.  In particular EnsureLoadBalancer, UpdateLoadBalancer
\* and EnsureLoadBalancerDeleted touch the load balancer only on behalf of a copy
\* of the Service that does not disown it, and delete it only if the Service
\* itself, not just the copy, has stopped asking for it.
KeepsPromise == Promise!Spec
=================================================================================
