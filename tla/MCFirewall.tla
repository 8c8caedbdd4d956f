------------------------------ MODULE MCFirewall ------------------------------
(***************************************************************************)
(* Small instances of FirewallController for TLC.                          *)
(***************************************************************************)
EXTENDS FirewallController

web == [protocol |-> "TCP", port |-> 80, nodePort |-> 30080]

nodePort ==
  [type |-> "NodePort", managed |-> Unset, lbType |-> Unset, network |-> Unset,
   lbID |-> Unset, local |-> FALSE, hcNodePort |-> 0, ports |-> <<web>>]

networkLB == [nodePort EXCEPT !.type = "LoadBalancer"]

badLB == [networkLB EXCEPT !.lbType = "GLOBAL"]

MCSpecsTwo   == {nodePort}
MCSpecsThree == {nodePort, badLB}
MCNoEdits    == {}
===============================================================================
