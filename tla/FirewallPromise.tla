---------------------------- MODULE FirewallPromise ----------------------------
(***************************************************************************)
(* What the public access firewall controller promises the account it      *)
(* works in, without cache, queue, lookups or goroutines.  A pass takes    *)
(* one snapshot of the Services and writes at most one firewall once:      *)
(* under the managed name and with all the rules of that snapshot.  A      *)
(* write may fail, and one that was given up may take effect later, once.  *)
(* Whatever else happens to a firewall is interference from outside.       *)
(***************************************************************************)
CONSTANTS RulesOf(_),   \* the rules a list of Services asks for
          ManagedName   \* the name of the controller's firewall

VARIABLES store,        \* the Services the controller knows of
          snapshot,     \* the list of the pass under way: empty or a singleton
          late,         \* the rules of the writes that were given up
          firewalls,    \* the account's firewalls [id, name, rules]
          interferences \* counts what comes from outside

vars == <<store, snapshot, late, firewalls, interferences>>

Init == snapshot = {} /\ late = {}

Put(id, rules) ==
  firewalls' = {f \in firewalls : f.id # id}
                 \cup {[id |-> id, name |-> ManagedName, rules |-> rules]}

Learn == UNCHANGED <<snapshot, late, firewalls>>

Begin ==
  /\ snapshot = {} /\ snapshot' = {store}
  /\ UNCHANGED <<store, late, firewalls>>

Write(id) ==
  /\ \E list \in snapshot : Put(id, RulesOf(list))
  /\ snapshot' = {}
  /\ UNCHANGED <<store, late, interferences>>

\* A pass ends without a write; a crash may lose what is known of the Services.
End ==
  /\ snapshot' = {}
  /\ UNCHANGED <<late, firewalls>>

GiveUp ==
  /\ \E list \in snapshot : late' = late \cup {RulesOf(list)}
  /\ snapshot' = {}
  /\ UNCHANGED <<store, firewalls>>

LateWrite(id) ==
  /\ \E rules \in late : Put(id, rules) /\ late' \in {late, late \ {rules}}
  /\ UNCHANGED <<store, snapshot, interferences>>

Forget ==
  /\ late' \subseteq late
  /\ UNCHANGED <<store, snapshot, firewalls>>

Interfere ==
  /\ interferences' # interferences
  /\ UNCHANGED <<store, snapshot, late>>

Next ==
  \/ Learn \/ Begin \/ End \/ GiveUp \/ Forget
  \/ \E id \in {f.id : f \in firewalls'} : Write(id) \/ LateWrite(id)
  \/ Interfere

Spec == Init /\ [][Next]_vars
================================================================================
