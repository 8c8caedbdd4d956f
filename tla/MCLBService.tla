------------------------------ MODULE MCLBService ------------------------------
(***************************************************************************)
(* Small instances of LBService for TLC.                                   *)
(***************************************************************************)
EXTENDS LBServicePromise

node ==
  [v4 |-> TRUE, v6 |-> FALSE, internal4 |-> TRUE, private |-> FALSE,
   ready |-> TRUE, held |-> FALSE, providerID |-> "set", found |-> TRUE]

MCReady       == {node}
MCNodeSpecs   == {node, [node EXCEPT !.ready = FALSE]}
MCInitNodes   == {[n \in Names |-> node]}
MCConfig      == [type |-> "REGIONAL_NETWORK", network |-> "EXTERNAL", stack |-> NoStack]
================================================================================
