--------------------------- MODULE MCOrderDelivery ---------------------------
(* OrderDelivery in one of three casts, chosen at the start: an order of an  *)
(* agent that may have two connections, the one it lost, half open, and the  *)
(* one it made next; two orders of that agent, whose frames compete for one  *)
(* place in the buffer and for the redelivery limit; and an order of it and  *)
(* an older one of a store whose agent never connects, competing for the     *)
(* limit alone.                                                              *)
EXTENDS OrderDelivery, TLC

CONSTANTS o1, o2, o3, s1, s2, c1, c2

VARIABLE cast    \* which orders, connections and faults there are

MCScope == (o1 :> s1) @@ (o2 :> s1) @@ (o3 :> s2)
OneAggregate == [o \in Events |-> o]
SSEOnly == <<"sse-broadcast">>

HalfOpen == [orders |-> {o1}, conns |-> {c1, c2}, cut |-> {c1, c2}, mortal |-> {o1}, cooked |-> {}, faults |-> 1]
OneBuffer == [orders |-> {o1, o2}, conns |-> {c1, c2}, cut |-> {c1}, mortal |-> {}, cooked |-> {}, faults |-> 0]
OneLimit == [orders |-> {o1, o3}, conns |-> {c1}, cut |-> {c1}, mortal |-> {o3}, cooked |-> {o1}, faults |-> 0]

Exist == {o \in Orders : ord[o].status # "none"}

(* Orders and agents keep to the cast.  Of two orders of one store o1 comes  *)
(* first, and both once the connection that stays is there; the order of the *)
(* offline store is older than o1.  An agent has at most one connection that *)
(* it has not lost.  No fair action is held back.                            *)
InCast ==
  /\ Exist \subseteq cast.orders
  /\ o2 \in Exist => o1 \in Exist
  /\ o1 \in Exist /\ o2 \in cast.orders => conn[c2] # "off"
  /\ o1 \in Exist /\ o3 \in cast.orders => o3 \in Exist
  /\ \A o \in Exist \ cast.mortal : ord[o].status # "deleted" /\ ord[o].age # "expired"
  /\ \A o \in Exist \ cast.cooked : ord[o].status # "advanced"
  /\ \A c \in Conns : conn[c] = "off" \/ c \in (IF conn[c] = "cut" THEN cast.cut ELSE cast.conns)
  /\ Cardinality({c \in Conns : conn[c] \in {"waking", "live"}}) <= 1
  /\ clients[s2] = {}
  /\ faults <= cast.faults

MCInit == DeliveryInit /\ cast \in {HalfOpen, OneBuffer, OneLimit}

MCNext == DeliveryNext /\ UNCHANGED cast /\ InCast'

MCSpec == MCInit /\ [][MCNext]_<<deliveryVars, cast>> /\ DeliveryFairness
=============================================================================
