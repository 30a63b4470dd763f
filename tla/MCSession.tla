------------------------------ MODULE MCSession ------------------------------
(* Instances of Session for TLC: two interfaces, a range of source         *)
(* addresses, and answers of the kernel with and without a gateway.        *)
EXTENDS Session

CONSTANTS eth0, eth1, gw, host, mac1, mac2

MCAddressOf == (eth0 :> 1) @@ (eth1 :> 2)
\* 1.0 to 1.2, a range that is none, and the broadcast address
MCSourceArgs == {<<Swap(4), Swap(6)>>, <<Swap(6), Swap(4)>>, <<15, 15>>}

Route(m, i, g) == [main |-> m, oif |-> i, gateway |-> g]
Near(d, a)     == [inet |-> TRUE, dst |-> d, lladdr |-> a]
Many(ms) == [type |-> "messages", multi |-> TRUE, messages |-> ms]
Done  == [type |-> "done"]
Error == [type |-> "error"]

MCRoutes ==
  {<<Many(<<Route(TRUE, eth0, NULL), Route(TRUE, eth1, gw)>>), Done>>,
   <<Many(<<Route(FALSE, eth0, NULL)>>), Done>>, <<Error>>}

MCNeighbours ==
  {<<Many(<<Near(host, mac1)>>), Many(<<Near(gw, mac2)>>), Done>>,
   <<Many(<<Near(host, mac1), Near(gw, NULL)>>), Done>>,
   <<Many(<<Near(host, "long")>>), Done>>}
=============================================================================
