----------------------------- MODULE MCLBBackends -----------------------------
(***************************************************************************)
(* Small instances of LBBackends for TLC.                                  *)
(***************************************************************************)
EXTENDS LBBackends

node ==
  [v4 |-> TRUE, v6 |-> FALSE, internal4 |-> TRUE, private |-> FALSE,
   ready |-> TRUE, held |-> FALSE, providerID |-> "set", found |-> TRUE]

\* The addresses a droplet may have, and the label that goes with them.
noAddress   == [node EXCEPT !.v4 = FALSE, !.internal4 = FALSE]
privateOnly == [node EXCEPT !.v4 = FALSE]
addressed   == {noAddress, privateOnly, node,
                [privateOnly EXCEPT !.private = TRUE]}
ipv6Only    == [noAddress EXCEPT !.v6 = TRUE]

readiness(specs) ==
  specs \cup {[s EXCEPT !.ready = FALSE] : s \in specs} \cup {[s EXCEPT !.held = TRUE] : s \in specs}

unlinked(specs) == {[s EXCEPT !.providerID = "empty"] : s \in specs}

dual    == [node EXCEPT !.v6 = TRUE]
MCNodes == readiness({node, dual}) \cup addressed \cup {ipv6Only}
             \cup unlinked({node, [node EXCEPT !.found = FALSE]})
             \cup {[node EXCEPT !.providerID = "bad"]}

MCConfigs ==
  [type : {"REGIONAL", "REGIONAL_NETWORK"}, network : {"EXTERNAL", "INTERNAL"},
   stack : {NoStack, "IPV4", "DUALSTACK", "IPV6"}]
===============================================================================
