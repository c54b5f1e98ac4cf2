---------------------------- MODULE MCOrderLocking ----------------------------
(* OrderLocking with two sessions on an order of a goods and a service line. *)
EXTENDS OrderLocking

MCLines == {"item", "service"}
MCOrdered == [l \in MCLines |-> 2]
MCFirst == [l \in MCLines |-> 1]

Ask(op, ls) == [op |-> op, lines |-> ls, qty |-> 1, coded |-> FALSE]

MCRequests ==
    { Ask("deliver", <<"item", "service">>), Ask("deliver", <<"service">>),
      Ask("invoice", <<"service", "item">>), Ask("invoice", <<"item">>),
      Ask("return", <<"item">>), Ask("credit", <<"item">>),
      Ask("credit", <<"service", "item">>),
      [Ask("credit", <<"service">>) EXCEPT !.coded = TRUE] }
=============================================================================
