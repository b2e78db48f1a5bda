------------------------- MODULE OrderDeliveryProofs -------------------------
(* Order delivery implements its contract (DeliveryContract), step by step:  *)
(* for any number of orders, stores, connections, redeliveries, lost acks    *)
(* and restarts of main.                                                     *)
EXTENDS OrderDelivery, SseBrokerProofs

Placed(o) == ord[o].status # "none"
Held(o) == o \in kept[OrderScope[o]]

DeliveryTypes ==
  /\ ord \in [Orders -> OrderRow]
  /\ kept \in [Scopes -> SUBSET Orders]
  /\ acks \in SUBSET Orders
  /\ batch \in SUBSET Orders
  /\ dh \in DOMAIN HandlerSeq
  /\ DOMAIN row = Orders

(* What the outbox, its dispatcher or a stream holds was placed before: an   *)
(* agent can be sent only a committed order.                                 *)
RowsArePlaced == \A o \in Orders : \A h \in Handlers : row[o][h] # "none" => Placed(o)
BatchIsPlaced == \A o \in batch : Placed(o)
FramesArePlaced == \A c \in Conns : \A i \in DOMAIN buf[c] : Placed(buf[c][i])

(* An acknowledgement is under way, or stamped, only for an order that its   *)
(* own store's agent keeps.                                                  *)
AcksAreHeld == \A o \in acks : Held(o)
AckedIsHeld == \A o \in Orders : ord[o].acked => Held(o)

DeliveryInv ==
  /\ BrokerInv
  /\ ScopeIsolation
  /\ DeliveryTypes
  /\ RowsArePlaced
  /\ BatchIsPlaced
  /\ FramesArePlaced
  /\ AcksAreHeld
  /\ AckedIsHeld

-----------------------------------------------------------------------------
(* The orders, and the scopes they are published to.                         *)
LEMMA OrderScopes ==
  /\ Frames = Orders /\ FrameScope = OrderScope
  /\ \A o \in Orders : OrderScope[o] \in Scopes
BY BrokerAssumption, DeliveryAssumption DEF Orders, OrderScope

(* Every kind of step, one by one: the proofs below go through them.         *)
LEMMA DeliverySteps ==
  ASSUME [DeliveryNext]_deliveryVars
  PROVE  \/ UNCHANGED deliveryVars
         \/ \E o \in Orders : CreateOrder(o)
         \/ \E o \in Orders : DeleteOrder(o)
         \/ \E o \in Orders : FloorUpdate(o)
         \/ \E o \in Orders : BecomeDue(o) \/ Expire(o)
         \/ \E o \in Orders : HandleAck(o)
         \/ \E o \in Orders : AckLost(o)
         \/ \E o \in Orders : RetryDue(o)
         \/ \E o \in Orders : RecentPasses(o)
         \/ \E c \in Conns, s \in Scopes : Connect(c, s)
         \/ \E c \in Conns : Woken(c)
         \/ \E c \in Conns : ConnectionLost(c)
         \/ \E c \in Conns : StreamEnds(c)
         \/ \E c \in Conns : WriteFrame(c)
         \/ \E o \in Orders : SSEHandle(o)
         \/ Tick /\ UNCHANGED <<unrelated, brokerVars>>
         \/ Poll /\ UNCHANGED <<unrelated, brokerVars>>
         \/ PollFails /\ UNCHANGED <<unrelated, brokerVars>>
         \/ \E o \in Orders : Mark(o) /\ UNCHANGED <<unrelated, brokerVars>>
         \/ \E o \in Orders : MarkFails(o) /\ UNCHANGED <<unrelated, brokerVars>>
         \/ RedeliverStart \/ RedeliverEnd
         \/ \E o \in Orders : RedeliverRow(o)
         \/ \E o \in Orders : RedeliverLoadFails(o)
         \/ MainRestarts
BY Zenon DEF DeliveryNext, DispatcherStep, RedeliverStep

(* To the broker, every step of delivery is one of its own or none.          *)
LEMMA DeliveryBrokerStep ==
  ASSUME DeliveryInv, [DeliveryNext]_deliveryVars
  PROVE  [BrokerNext]_brokerVars
<1>1. CASE UNCHANGED brokerVars BY <1>1
<1>2. ASSUME NEW c \in Conns, NEW s \in Scopes, Connect(c, s) PROVE BrokerNext
  BY <1>2 DEF Connect, BrokerNext, AnyDevice
<1>3. ASSUME NEW c \in Conns, StreamEnds(c) PROVE BrokerNext BY <1>3 DEF StreamEnds, BrokerNext
<1>4. ASSUME NEW c \in Conns, WriteFrame(c) PROVE BrokerNext BY <1>4 DEF WriteFrame, BrokerNext
<1>5. ASSUME NEW o \in Orders, PublishOrder(o) PROVE BrokerNext
  <2>1. o \in Frames /\ Publish(FrameScope[o], o) BY <1>5, OrderScopes DEF PublishOrder
  <2> QED BY <2>1 DEF BrokerNext
<1>6. ASSUME NEW o \in Orders, SSEHandle(o) PROVE BrokerNext BY <1>5, <1>6 DEF SSEHandle
<1>7. ASSUME NEW o \in Orders, RedeliverRow(o) PROVE [BrokerNext]_brokerVars
  BY <1>5, <1>7 DEF RedeliverRow
<1>8. CASE MainRestarts BY <1>8 DEF MainRestarts, BrokerNext
<1>9. ASSUME \/ UNCHANGED deliveryVars
             \/ \E o \in Orders : \/ CreateOrder(o) \/ DeleteOrder(o) \/ FloorUpdate(o) \/ BecomeDue(o)
                                  \/ Expire(o) \/ HandleAck(o) \/ AckLost(o)
      PROVE  UNCHANGED brokerVars
  BY <1>9 DEF deliveryVars, CreateOrder, DeleteOrder, FloorUpdate, BecomeDue, Expire, HandleAck, AckLost
<1>10. ASSUME \/ \E o \in Orders : RetryDue(o) \/ RecentPasses(o) \/ RedeliverLoadFails(o)
              \/ \E c \in Conns : Woken(c) \/ ConnectionLost(c)
              \/ UNCHANGED <<unrelated, brokerVars>>
              \/ RedeliverStart \/ RedeliverEnd
       PROVE  UNCHANGED brokerVars
  BY <1>10 DEF RetryDue, RecentPasses, RedeliverLoadFails, Woken, ConnectionLost, RedeliverStart, RedeliverEnd
<1> QED BY <1>1, <1>2, <1>3, <1>4, <1>6, <1>7, <1>8, <1>9, <1>10, DeliverySteps

-----------------------------------------------------------------------------
(* The contract's variables, as functions of the program's state.            *)
PlacedOrders == {o \in Orders : ord[o].status # "none"}
HeldOrders == {o \in Orders : o \in kept[OrderScope[o]]}
AckedOrders == {o \in Orders : ord[o].acked}

(* A step writes row r for order o, and changes no other order.              *)
Writes(o, r) ==
  /\ ord' \in [Orders -> OrderRow]
  /\ ord'[o] = r
  /\ \A x \in Orders : x # o => ord'[x] = ord[x]

(* CreateOrder places the order.                                             *)
LEMMA CreateIsPlace ==
  ASSUME DeliveryInv, NEW o \in Orders, CreateOrder(o)
  PROVE  Contract!Place(o) /\ ord' \in [Orders -> OrderRow]
<1>0. ord \in [Orders -> OrderRow] BY DEF DeliveryInv, DeliveryTypes
<1> DEFINE r == [status |-> "received", age |-> ord[o].age, acked |-> ord[o].acked]
<1>1. r \in OrderRow BY <1>0 DEF OrderRow
<1>2. Writes(o, r)
  <2>1. ord' = [ord EXCEPT ![o].status = "received"] BY DEF CreateOrder
  <2> QED BY <1>0, <2>1 DEF OrderRow, Writes
<1>3. r.status = "received" /\ r.acked = ord[o].acked OBVIOUS
<1> HIDE DEF r
<1>4. HeldOrders' = HeldOrders BY DEF CreateOrder, HeldOrders
<1>5. PlacedOrders' = PlacedOrders \cup {o} BY <1>2, <1>3 DEF PlacedOrders, Writes
<1>6. AckedOrders' = AckedOrders BY <1>2, <1>3 DEF AckedOrders, Writes
<1>7. o \notin PlacedOrders BY DEF CreateOrder, PlacedOrders
<1> QED BY <1>2, <1>4, <1>5, <1>6, <1>7 DEF Contract!Place, PlacedOrders, HeldOrders, AckedOrders, Writes

(* FloorUpdate and HandleAck confirm the order, or only repeat it.           *)
LEMMA AckIsConfirm ==
  ASSUME DeliveryInv, NEW o \in Orders, FloorUpdate(o) \/ HandleAck(o)
  PROVE  /\ Contract!Confirm(o) \/ UNCHANGED Contract!contractVars
         /\ ord' \in [Orders -> OrderRow]
<1>0. ord \in [Orders -> OrderRow] /\ AcksAreHeld BY DEF DeliveryInv, DeliveryTypes
<1>1. Held(o) BY <1>0 DEF FloorUpdate, HandleAck, AcksAreHeld, Held
<1>2. PICK r \in OrderRow : /\ Writes(o, r)
                            /\ ord[o].acked => r.acked
                            /\ r.status = "none" <=> ord[o].status = "none"
  <2>1. CASE FloorUpdate(o)
    <3>1. PICK a \in {ord[o].acked, TRUE} :
            ord' = [ord EXCEPT ![o].status = "advanced", ![o].acked = a]
      BY <2>1 DEF FloorUpdate
    <3> DEFINE r == [status |-> "advanced", age |-> ord[o].age, acked |-> a]
    <3>2. r \in OrderRow BY <1>0 DEF OrderRow
    <3>3. Writes(o, r) BY <1>0, <3>1 DEF OrderRow, Writes
    <3>4. ord[o].acked => r.acked OBVIOUS
    <3>5. r.status # "none" /\ ord[o].status # "none" BY <2>1 DEF FloorUpdate
    <3> QED BY <3>2, <3>3, <3>4, <3>5
  <2>2. CASE HandleAck(o)
    <3> DEFINE r == [status |-> ord[o].status, age |-> ord[o].age, acked |-> ord[o].acked \/ Exists(o)]
    <3>1. r \in OrderRow BY <1>0 DEF OrderRow
    <3>2. Writes(o, r)
      <4>1. ord' = [ord EXCEPT ![o].acked = @ \/ Exists(o)] BY <2>2 DEF HandleAck
      <4> QED BY <1>0, <4>1 DEF OrderRow, Writes
    <3> QED BY <3>1, <3>2
  <2> QED BY <2>1, <2>2
<1>4. HeldOrders' = HeldOrders BY DEF FloorUpdate, HandleAck, HeldOrders
<1>5. PlacedOrders' = PlacedOrders BY <1>2 DEF PlacedOrders, Writes
<1>6. AckedOrders' = AckedOrders \/ (o \notin AckedOrders /\ AckedOrders' = AckedOrders \cup {o})
  BY <1>2 DEF AckedOrders, Writes
<1>7. o \in HeldOrders BY <1>1 DEF HeldOrders, Held
<1> QED BY <1>2, <1>4, <1>5, <1>6, <1>7
    DEF Writes, Contract!Confirm, Contract!contractVars, PlacedOrders, HeldOrders, AckedOrders

(* A deletion or the passing of time leaves the contract where it is.        *)
LEMMA AgingIsInvisible ==
  ASSUME DeliveryInv, NEW o \in Orders, DeleteOrder(o) \/ BecomeDue(o) \/ Expire(o)
  PROVE  UNCHANGED Contract!contractVars /\ ord' \in [Orders -> OrderRow]
<1>0. ord \in [Orders -> OrderRow] BY DEF DeliveryInv, DeliveryTypes
<1>1. PICK r \in OrderRow : /\ Writes(o, r)
                            /\ r.acked = ord[o].acked
                            /\ r.status # "none" /\ ord[o].status # "none"
  <2>1. CASE DeleteOrder(o)
    <3> DEFINE r == [status |-> "deleted", age |-> ord[o].age, acked |-> ord[o].acked]
    <3>1. r \in OrderRow BY <1>0 DEF OrderRow
    <3>2. Writes(o, r)
      <4>1. ord' = [ord EXCEPT ![o].status = "deleted"] BY <2>1 DEF DeleteOrder
      <4> QED BY <1>0, <4>1 DEF OrderRow, Writes
    <3> QED BY <3>1, <3>2, <2>1 DEF DeleteOrder, Exists
  <2>2. ASSUME NEW a \in {"due", "expired"}, Exists(o), ord' = [ord EXCEPT ![o].age = a]
        PROVE  \E r \in OrderRow : /\ Writes(o, r)
                                   /\ r.acked = ord[o].acked
                                   /\ r.status # "none" /\ ord[o].status # "none"
    <3> DEFINE r == [status |-> ord[o].status, age |-> a, acked |-> ord[o].acked]
    <3>1. r \in OrderRow BY <1>0 DEF OrderRow
    <3>2. Writes(o, r) BY <1>0, <2>2 DEF OrderRow, Writes
    <3> QED BY <3>1, <3>2, <2>2 DEF Exists
  <2> QED BY <2>1, <2>2 DEF BecomeDue, Expire
<1>2. HeldOrders' = HeldOrders BY DEF DeleteOrder, BecomeDue, Expire, HeldOrders
<1>3. PlacedOrders' = PlacedOrders /\ AckedOrders' = AckedOrders
  BY <1>1 DEF PlacedOrders, AckedOrders, Writes
<1> QED BY <1>1, <1>2, <1>3 DEF Writes, Contract!contractVars, PlacedOrders, HeldOrders, AckedOrders

(* A written frame is held by its own store, and by no other order's.        *)
LEMMA WriteIsHold ==
  ASSUME DeliveryInv, NEW c \in Conns, WriteFrame(c)
  PROVE  /\ (\E o \in Orders : Contract!Hold(o)) \/ UNCHANGED Contract!contractVars
         /\ kept' \in [Scopes -> SUBSET Orders]
         /\ \A o \in acks' : o \in acks \/ Held(o)'
<1>0. /\ BrokerTypeOK /\ ScopeIsolation /\ FramesArePlaced
      /\ kept \in [Scopes -> SUBSET Orders] /\ ord \in [Orders -> OrderRow]
  BY DEF DeliveryInv, DeliveryTypes, BrokerInv
<1>1. CASE conn[c] # "live"
  <2>1. UNCHANGED <<ord, kept, acks>> BY <1>1 DEF WriteFrame
  <2> QED BY <1>0, <2>1 DEF Contract!contractVars
<1>2. CASE conn[c] = "live"
  <2> DEFINE s == handler[c].scope
  <2>0. 1 \in DOMAIN buf[c] /\ Head(buf[c]) = buf[c][1] /\ Head(buf[c]) \in Frames
    BY <1>0 DEF WriteFrame, Take, BrokerTypeOK
  <2>1. PICK f \in Frames : f = Head(buf[c]) BY <2>0
  <2>2. f \in Orders /\ OrderScope[f] = s /\ s \in Scopes
    BY <1>0, <2>0, <2>1, OrderScopes DEF ScopeIsolation
  <2>3. Placed(f) BY <1>0, <2>0, <2>1 DEF FramesArePlaced
  <2>4. kept' = [kept EXCEPT ![s] = @ \cup {f}] /\ acks' = acks \cup {f} /\ UNCHANGED ord
    BY <1>2, <2>1 DEF WriteFrame
  <2> HIDE DEF s
  <2>5. kept' \in [Scopes -> SUBSET Orders] BY <1>0, <2>2, <2>4
  <2>6. kept'[s] = kept[s] \cup {f} /\ \A x \in Scopes : x # s => kept'[x] = kept[x]
    BY <1>0, <2>2, <2>4
  <2>7. HeldOrders' = HeldOrders \cup {f} BY <2>2, <2>6, OrderScopes DEF HeldOrders
  <2>8. PlacedOrders' = PlacedOrders /\ AckedOrders' = AckedOrders BY <2>4 DEF PlacedOrders, AckedOrders
  <2>9. f \in PlacedOrders BY <2>2, <2>3 DEF PlacedOrders, Placed
  <2>10. Contract!Hold(f) \/ UNCHANGED Contract!contractVars
    BY <2>7, <2>8, <2>9 DEF Contract!Hold, Contract!contractVars, PlacedOrders, HeldOrders, AckedOrders
  <2> QED BY <2>2, <2>4, <2>5, <2>6, <2>10 DEF Held
<1> QED BY <1>1, <1>2

(* The steps that touch neither the orders nor what the agents keep.         *)
LEMMA OtherSteps ==
  ASSUME [DeliveryNext]_deliveryVars
  PROVE  \/ UNCHANGED <<ord, kept>>
         \/ \E o \in Orders : CreateOrder(o)
         \/ \E o \in Orders : FloorUpdate(o) \/ HandleAck(o)
         \/ \E o \in Orders : DeleteOrder(o) \/ BecomeDue(o) \/ Expire(o)
         \/ \E c \in Conns : WriteFrame(c)
<1>1. ASSUME \/ UNCHANGED deliveryVars
             \/ \E o \in Orders : AckLost(o) \/ RetryDue(o) \/ RecentPasses(o) \/ SSEHandle(o)
             \/ \E c \in Conns, s \in Scopes : Connect(c, s)
             \/ \E c \in Conns : Woken(c) \/ ConnectionLost(c) \/ StreamEnds(c)
             \/ UNCHANGED <<unrelated, brokerVars>>
      PROVE  UNCHANGED <<ord, kept>>
  BY <1>1 DEF deliveryVars, AckLost, RetryDue, RecentPasses, SSEHandle, Connect, Woken, ConnectionLost,
     StreamEnds, unrelated
<1>2. ASSUME \/ RedeliverStart \/ RedeliverEnd \/ MainRestarts
             \/ \E o \in Orders : RedeliverRow(o) \/ RedeliverLoadFails(o)
      PROVE  UNCHANGED <<ord, kept>>
  BY <1>2 DEF RedeliverStart, RedeliverEnd, MainRestarts, RedeliverRow, RedeliverLoadFails
<1> QED BY <1>1, <1>2, DeliverySteps

(* Every step of delivery is a step of the contract, or none.                *)
LEMMA ContractStep ==
  ASSUME DeliveryInv, [DeliveryNext]_deliveryVars
  PROVE  /\ [Contract!ContractNext]_(Contract!contractVars)
         /\ ord' \in [Orders -> OrderRow]
         /\ kept' \in [Scopes -> SUBSET Orders]
<1>0. ord \in [Orders -> OrderRow] /\ kept \in [Scopes -> SUBSET Orders]
  BY DEF DeliveryInv, DeliveryTypes
<1> DEFINE Goal == /\ Contract!ContractNext \/ UNCHANGED Contract!contractVars
                   /\ ord' \in [Orders -> OrderRow]
                   /\ kept' \in [Scopes -> SUBSET Orders]
<1>1. ASSUME UNCHANGED <<ord, kept>> PROVE Goal
  BY <1>0, <1>1 DEF Contract!contractVars
<1>2. ASSUME NEW o \in Orders, CreateOrder(o) PROVE Goal
  <2>1. UNCHANGED kept BY <1>2 DEF CreateOrder
  <2> QED BY <1>0, <1>2, <2>1, CreateIsPlace DEF Contract!ContractNext
<1>3. ASSUME NEW o \in Orders, FloorUpdate(o) \/ HandleAck(o) PROVE Goal
  <2>1. UNCHANGED kept BY <1>3 DEF FloorUpdate, HandleAck
  <2> QED BY <1>0, <1>3, <2>1, AckIsConfirm DEF Contract!ContractNext
<1>4. ASSUME NEW o \in Orders, DeleteOrder(o) \/ BecomeDue(o) \/ Expire(o) PROVE Goal
  <2>1. UNCHANGED kept BY <1>4 DEF DeleteOrder, BecomeDue, Expire
  <2> QED BY <1>0, <1>4, <2>1, AgingIsInvisible
<1>5. ASSUME NEW c \in Conns, WriteFrame(c) PROVE Goal
  <2>1. UNCHANGED ord BY <1>5 DEF WriteFrame
  <2> QED BY <1>0, <1>5, <2>1, WriteIsHold DEF Contract!ContractNext
<1> HIDE DEF Goal
<1>6. Goal BY <1>1, <1>2, <1>3, <1>4, <1>5, OtherSteps
<1> QED BY <1>6 DEF Goal

(* The contract takes nothing back, and confirms only what is held.          *)
LEMMA NothingIsTakenBack ==
  ASSUME DeliveryInv, [DeliveryNext]_deliveryVars
  PROVE  /\ \A o \in Orders : Placed(o) => Placed(o)'
         /\ \A o \in Orders : Held(o) => Held(o)'
         /\ AckedIsHeld'
<1>1. [Contract!ContractNext]_(Contract!contractVars) BY ContractStep
<1>2. AckedOrders \subseteq HeldOrders BY DEF DeliveryInv, AckedIsHeld, AckedOrders, HeldOrders, Held
<1>3. PlacedOrders \subseteq PlacedOrders' /\ HeldOrders \subseteq HeldOrders' /\ AckedOrders' \subseteq HeldOrders'
  BY <1>1, <1>2 DEF Contract!ContractNext, Contract!Place, Contract!Hold, Contract!Confirm,
     Contract!contractVars, PlacedOrders, HeldOrders, AckedOrders
<1> QED BY <1>3 DEF PlacedOrders, HeldOrders, AckedOrders, Placed, Held, AckedIsHeld

-----------------------------------------------------------------------------
(* The outbox: rows exist only for placed orders, and the dispatcher's batch *)
(* is taken from them.                                                       *)
LEMMA OutboxStep ==
  ASSUME DeliveryInv, [DeliveryNext]_deliveryVars
  PROVE  /\ DOMAIN row' = Orders
         /\ dh' \in DOMAIN HandlerSeq
         /\ batch' \in SUBSET Orders
         /\ RowsArePlaced'
         /\ BatchIsPlaced'
<1> DEFINE Goal == /\ DOMAIN row' = Orders
                   /\ dh' \in DOMAIN HandlerSeq
                   /\ batch' \in SUBSET Orders
                   /\ RowsArePlaced'
                   /\ BatchIsPlaced'
<1>0. /\ DOMAIN row = Orders /\ dh \in DOMAIN HandlerSeq /\ batch \in SUBSET Orders
      /\ RowsArePlaced /\ BatchIsPlaced
  BY DEF DeliveryInv, DeliveryTypes
<1>1. \A o \in Orders : Placed(o) => Placed(o)' BY NothingIsTakenBack
<1>2. DOMAIN HandlerSeq = {1}
  <2>1. HandlerSeq = <<SSE>> BY DeliveryAssumption
  <2> QED BY <2>1
<1>3. H \in Handlers BY <1>0 DEF H, Handlers
<1>4. ASSUME UNCHANGED row, dh' = dh \/ dh' = 1, batch' \subseteq batch PROVE Goal
  BY <1>0, <1>1, <1>2, <1>4 DEF RowsArePlaced, BatchIsPlaced
<1>5. ASSUME DOMAIN row' = Orders, UNCHANGED dh, batch' \subseteq batch,
             \A o \in Orders : Placed(o)' \/ \A h \in Handlers : row'[o][h] = row[o][h]
      PROVE  Goal
  BY <1>0, <1>1, <1>5 DEF RowsArePlaced, BatchIsPlaced
<1>6. ASSUME NextHandler PROVE dh' = dh BY <1>0, <1>2, <1>6, DeliveryAssumption DEF NextHandler
<1>7. ASSUME NEW o \in Orders, CreateOrder(o) PROVE Goal
  <2>1. Placed(o)'
    <3>1. ord \in [Orders -> OrderRow] /\ ord' = [ord EXCEPT ![o].status = "received"]
      BY <1>7 DEF DeliveryInv, DeliveryTypes, CreateOrder
    <3>2. ord'[o] = [status |-> "received", age |-> ord[o].age, acked |-> ord[o].acked]
      BY <3>1 DEF OrderRow
    <3> QED BY <3>2 DEF Placed
  <2>2. row' = [row EXCEPT ![o] = [h \in Handlers |-> "due"]] BY <1>7 DEF CreateOrder, Emit
  <2>3. DOMAIN row' = Orders /\ \A x \in Orders : x # o => row'[x] = row[x] BY <1>0, <2>2
  <2>4. UNCHANGED <<dh, batch>> BY <1>7 DEF CreateOrder
  <2> QED BY <1>5, <2>1, <2>3, <2>4
<1>8. ASSUME NEW o \in Orders, DeleteOrder(o) PROVE Goal
  <2>1. Placed(o)' BY <1>1, <1>8 DEF DeleteOrder, Exists, Placed
  <2>2. row' = [x \in Orders |-> IF x \in {o} /\ Written(x) THEN [h \in Handlers |-> "gone"] ELSE row[x]]
    BY <1>8 DEF DeleteOrder, Purge, Orders
  <2>3. DOMAIN row' = Orders /\ \A x \in Orders : x # o => row'[x] = row[x] BY <2>2
  <2>4. UNCHANGED <<dh, batch>> BY <1>8 DEF DeleteOrder
  <2> QED BY <1>5, <2>1, <2>3, <2>4
<1>9. ASSUME NEW o \in Orders, RetryDue(o) PROVE Goal
  <2>1. PICK h \in Handlers : row[o][h] = "backoff" /\ row' = [row EXCEPT ![o][h] = "due"]
    BY <1>9 DEF RetryDue, BackoffExpires
  <2>2. Placed(o)' BY <1>0, <1>1, <2>1 DEF RowsArePlaced
  <2>3. DOMAIN row' = Orders /\ \A x \in Orders : x # o => row'[x] = row[x] BY <1>0, <2>1
  <2>4. UNCHANGED <<dh, batch>> BY <1>9 DEF RetryDue, BackoffExpires
  <2> QED BY <1>5, <2>2, <2>3, <2>4
<1>10. ASSUME NEW o \in Orders, Mark(o) PROVE Goal
  <2>1. Placed(o)' BY <1>0, <1>1, <1>10 DEF Mark, IsNext, BatchIsPlaced
  <2>2. row' = [row EXCEPT ![o][H] = Marked(@)] BY <1>10 DEF Mark
  <2>3. DOMAIN row' = Orders /\ \A x \in Orders : x # o => row'[x] = row[x] BY <1>0, <2>2
  <2>4. dh' = dh /\ batch' \subseteq batch BY <1>6, <1>10 DEF Mark, AfterMark
  <2> QED BY <1>5, <2>1, <2>3, <2>4
<1>11. ASSUME NEW c \in Conns, Woken(c) PROVE Goal
  <2>1. UNCHANGED <<dh, batch>> BY <1>11 DEF Woken, WakeScope
  <2>2. UNCHANGED row \/ ResetBackoffForScope(handler[c].scope) BY <1>11 DEF Woken, WakeScope
  <2>3. CASE UNCHANGED row BY <1>4, <2>1, <2>3
  <2>4. CASE ResetBackoffForScope(handler[c].scope)
    <3> DEFINE s == handler[c].scope
    <3>1. row' = [x \in Orders |-> [h \in Handlers |->
                   IF EventScope[x] = s /\ row[x][h] = "backoff" THEN "due" ELSE row[x][h]]]
      BY <2>4 DEF ResetBackoffForScope, Orders
    <3> HIDE DEF s
    <3>2. DOMAIN row' = Orders BY <3>1
    <3>3. \A x \in Orders : \A h \in Handlers : row'[x][h] # "none" => row[x][h] # "none" BY <3>1
    <3>4. RowsArePlaced' BY <1>0, <1>1, <3>3 DEF RowsArePlaced
    <3> QED BY <1>0, <1>1, <2>1, <3>2, <3>4 DEF BatchIsPlaced
  <2> QED BY <2>2, <2>3, <2>4
<1>12. ASSUME Poll PROVE Goal
  <2>1. \A o \in batch' : o \in Orders /\ row[o][H] = "due" BY <1>12 DEF Poll, Pending, Due, Orders
  <2>2. \A o \in batch' : Placed(o)' BY <1>0, <1>1, <1>3, <2>1 DEF RowsArePlaced
  <2>3. dh' = dh /\ UNCHANGED row BY <1>6, <1>12 DEF Poll
  <2> QED BY <1>0, <1>1, <2>1, <2>2, <2>3 DEF RowsArePlaced, BatchIsPlaced
<1>13. ASSUME \/ Tick \/ PollFails \/ MainRestarts
              \/ \E o \in Orders : MarkFails(o) \/ SSEHandle(o)
       PROVE  Goal
  <2>1. UNCHANGED row /\ (dh' = dh \/ dh' = 1) /\ batch' \subseteq batch
    BY <1>6, <1>13 DEF Tick, PollFails, MainRestarts, DispatcherRestart, MarkFails, AfterMark, SSEHandle, Handled
  <2> QED BY <1>4, <2>1
<1>14. ASSUME UNCHANGED dispatchVars PROVE Goal BY <1>4, <1>14 DEF dispatchVars
<1>15. ASSUME \/ UNCHANGED deliveryVars
              \/ \E o \in Orders : \/ FloorUpdate(o) \/ BecomeDue(o) \/ Expire(o) \/ HandleAck(o)
                                   \/ AckLost(o) \/ RecentPasses(o)
              \/ \E c \in Conns, s \in Scopes : Connect(c, s)
       PROVE  UNCHANGED dispatchVars
  BY <1>15 DEF deliveryVars, FloorUpdate, BecomeDue, Expire, HandleAck, AckLost, RecentPasses, Connect
<1>16. ASSUME \/ \E c \in Conns : ConnectionLost(c) \/ StreamEnds(c) \/ WriteFrame(c)
              \/ \E o \in Orders : RedeliverRow(o) \/ RedeliverLoadFails(o)
              \/ RedeliverStart \/ RedeliverEnd
       PROVE  UNCHANGED dispatchVars
  BY <1>16 DEF ConnectionLost, StreamEnds, WriteFrame, RedeliverRow, RedeliverLoadFails, RedeliverStart,
     RedeliverEnd
<1> HIDE DEF Goal
<1>17. Goal
  BY <1>7, <1>8, <1>9, <1>10, <1>11, <1>12, <1>13, <1>14, <1>15, <1>16, DeliverySteps
<1> QED BY <1>17 DEF Goal

(* What waits in a stream was published, so placed: by the dispatcher, from  *)
(* its batch, or by a redelivery, which loads the order first.               *)
LEMMA FramesStep ==
  ASSUME DeliveryInv, [DeliveryNext]_deliveryVars
  PROVE  FramesArePlaced'
<1>0. BrokerTypeOK /\ FramesArePlaced /\ BatchIsPlaced BY DEF DeliveryInv, BrokerInv
<1>1. \A o \in Orders : Placed(o) => Placed(o)' BY NothingIsTakenBack
<1>2. \A c \in Conns : buf[c] \in Seq(Orders) BY <1>0, OrderScopes DEF BrokerTypeOK
<1>3. ASSUME NEW c \in Conns, buf'[c] = buf[c] \/ buf'[c] = <<>> \/ (buf[c] # <<>> /\ buf'[c] = Tail(buf[c]))
      PROVE  \A i \in DOMAIN buf'[c] : ord'[buf'[c][i]].status # "none"
  <2>1. \A i \in DOMAIN buf'[c] : \E j \in DOMAIN buf[c] : buf'[c][i] = buf[c][j]
    <3>1. CASE buf'[c] = buf[c] BY <3>1
    <3>2. CASE buf'[c] = <<>> BY <3>2
    <3>3. CASE buf[c] # <<>> /\ buf'[c] = Tail(buf[c])
      <4>1. DOMAIN buf[c] = 1..Len(buf[c]) /\ Len(buf[c]) \in Nat /\ Len(buf[c]) # 0 BY <1>2, <3>3
      <4>2. DOMAIN Tail(buf[c]) = 1..(Len(buf[c]) - 1) BY <1>2, <3>3, <4>1
      <4>3. \A i \in 1..(Len(buf[c]) - 1) : Tail(buf[c])[i] = buf[c][i + 1] /\ i + 1 \in DOMAIN buf[c]
        BY <1>2, <3>3, <4>1
      <4> QED BY <3>3, <4>2, <4>3
    <3> QED BY <1>3, <3>1, <3>2, <3>3
  <2>2. \A j \in DOMAIN buf[c] : buf[c][j] \in Orders /\ Placed(buf[c][j]) BY <1>0, <1>2 DEF FramesArePlaced
  <2>3. \A i \in DOMAIN buf'[c] : buf'[c][i] \in Orders /\ Placed(buf'[c][i]) BY <2>1, <2>2
  <2>4. SUFFICES ASSUME NEW i \in DOMAIN buf'[c] PROVE ord'[buf'[c][i]].status # "none" OBVIOUS
  <2>5. PICK o \in Orders : o = buf'[c][i] /\ Placed(o) BY <2>3
  <2>6. Placed(o)' BY <1>1, <2>5
  <2> QED BY <2>5, <2>6 DEF Placed
<1>4. ASSUME \A c \in Conns : buf'[c] = buf[c] \/ buf'[c] = <<>> \/ (buf[c] # <<>> /\ buf'[c] = Tail(buf[c]))
      PROVE  FramesArePlaced'
  BY <1>3, <1>4 DEF FramesArePlaced, Placed
<1>5. ASSUME NEW o \in Orders, PublishOrder(o), Placed(o) PROVE FramesArePlaced'
  <2>1. SUFFICES ASSUME NEW c \in Conns PROVE \A i \in DOMAIN buf'[c] : ord'[buf'[c][i]].status # "none"
    BY DEF FramesArePlaced, Placed
  <2>2. CASE c \notin Reached(OrderScope[o])
    <3>1. buf'[c] = buf[c] BY <1>5, <2>2 DEF PublishOrder, Publish
    <3> QED BY <1>3, <3>1
  <2>3. CASE c \in Reached(OrderScope[o])
    <3>1. buf'[c] = Append(buf[c], o) BY <1>5, <2>3 DEF PublishOrder, Publish
    <3>2. Placed(o)' BY <1>1, <1>5
    <3>3. SUFFICES ASSUME NEW i \in DOMAIN buf'[c] PROVE ord'[buf'[c][i]].status # "none" OBVIOUS
    <3>4. i = Len(buf[c]) + 1 \/ i \in DOMAIN buf[c] BY <1>2, <3>1, <3>3
    <3>5. PICK x \in Orders : x = buf'[c][i] /\ Placed(x)'
      <4>1. CASE i = Len(buf[c]) + 1
        <5>1. buf'[c][i] = o BY <1>2, <3>1, <4>1
        <5> QED BY <3>2, <5>1
      <4>2. CASE i \in DOMAIN buf[c]
        <5>1. buf'[c][i] = buf[c][i] /\ buf[c][i] \in Orders /\ Placed(buf[c][i])
          BY <1>0, <1>2, <3>1, <4>2 DEF FramesArePlaced
        <5>2. PICK x \in Orders : x = buf'[c][i] /\ Placed(x) BY <5>1
        <5> QED BY <1>1, <5>2
      <4> QED BY <3>4, <4>1, <4>2
    <3> QED BY <3>5 DEF Placed
  <2> QED BY <2>2, <2>3
<1>6. ASSUME NEW o \in Orders, SSEHandle(o) PROVE FramesArePlaced'
  <2>1. PublishOrder(o) /\ Placed(o) BY <1>0, <1>6 DEF SSEHandle, Handled, IsNext, BatchIsPlaced
  <2> QED BY <1>5, <2>1
<1>7. ASSUME UNCHANGED buf PROVE FramesArePlaced' BY <1>4, <1>7
<1>8. ASSUME NEW o \in Orders, RedeliverRow(o) PROVE FramesArePlaced'
  <2>1. CASE Resend(o)
    <3>1. PublishOrder(o) /\ Placed(o) BY <1>8, <2>1 DEF RedeliverRow, Resend, Exists, Placed
    <3> QED BY <1>5, <3>1
  <2>2. CASE ~Resend(o)
    <3>1. UNCHANGED buf BY <1>8, <2>2 DEF RedeliverRow, brokerVars
    <3> QED BY <1>7, <3>1
  <2> QED BY <2>1, <2>2
<1>9. ASSUME \/ \E c \in Conns, s \in Scopes : Connect(c, s)
             \/ \E c \in Conns : StreamEnds(c) \/ WriteFrame(c)
             \/ MainRestarts
      PROVE  FramesArePlaced'
  <2>1. \A c \in Conns : buf'[c] = buf[c] \/ buf'[c] = <<>> \/ (buf[c] # <<>> /\ buf'[c] = Tail(buf[c]))
    BY <1>0, <1>9 DEF Connect, SubscribeAs, StreamEnds, ClientGone, Unsubscribe, WriteFrame, Take, MainRestarts,
       BrokerRestart, BrokerTypeOK
  <2> QED BY <1>4, <2>1
<1>10. ASSUME \/ UNCHANGED deliveryVars
              \/ \E o \in Orders : \/ CreateOrder(o) \/ DeleteOrder(o) \/ FloorUpdate(o) \/ BecomeDue(o)
                                   \/ Expire(o) \/ HandleAck(o) \/ AckLost(o)
       PROVE  UNCHANGED buf
  BY <1>10 DEF deliveryVars, brokerVars, CreateOrder, DeleteOrder, FloorUpdate, BecomeDue, Expire, HandleAck,
     AckLost
<1>11. ASSUME \/ \E o \in Orders : RetryDue(o) \/ RecentPasses(o) \/ RedeliverLoadFails(o)
              \/ \E c \in Conns : Woken(c) \/ ConnectionLost(c)
              \/ UNCHANGED <<unrelated, brokerVars>>
              \/ RedeliverStart \/ RedeliverEnd
       PROVE  UNCHANGED buf
  BY <1>11 DEF brokerVars, RetryDue, RecentPasses, RedeliverLoadFails, Woken, ConnectionLost, RedeliverStart,
     RedeliverEnd
<1> QED BY <1>6, <1>7, <1>8, <1>9, <1>10, <1>11, DeliverySteps

(* Only an agent that stored the order sends an acknowledgement of it.       *)
LEMMA AcksStep ==
  ASSUME DeliveryInv, [DeliveryNext]_deliveryVars
  PROVE  acks' \in SUBSET Orders /\ AcksAreHeld'
<1>0. acks \in SUBSET Orders /\ AcksAreHeld BY DEF DeliveryInv, DeliveryTypes
<1>1. \A o \in Orders : Held(o) => Held(o)' BY NothingIsTakenBack
<1>2. ASSUME acks' \subseteq acks PROVE acks' \in SUBSET Orders /\ AcksAreHeld'
  BY <1>0, <1>1, <1>2 DEF AcksAreHeld
<1>3. ASSUME NEW c \in Conns, WriteFrame(c) PROVE acks' \in SUBSET Orders /\ AcksAreHeld'
  <2>1. acks' \in SUBSET Orders
    <3>1. Head(buf[c]) \in Orders
      BY <1>3, OrderScopes DEF WriteFrame, Take, DeliveryInv, BrokerInv, BrokerTypeOK
    <3> QED BY <1>0, <1>3, <3>1 DEF WriteFrame
  <2>2. \A o \in acks' : o \in acks \/ Held(o)' BY <1>3, WriteIsHold
  <2> QED BY <1>0, <1>1, <2>1, <2>2 DEF AcksAreHeld
<1>4. ASSUME \/ UNCHANGED deliveryVars
             \/ \E o \in Orders : \/ CreateOrder(o) \/ DeleteOrder(o) \/ FloorUpdate(o) \/ BecomeDue(o)
                                  \/ Expire(o) \/ HandleAck(o) \/ AckLost(o)
             \/ MainRestarts
      PROVE  acks' \subseteq acks
  BY <1>4 DEF deliveryVars, CreateOrder, DeleteOrder, FloorUpdate, BecomeDue, Expire, HandleAck, AckLost,
     MainRestarts
<1>5. ASSUME \/ \E o \in Orders : RetryDue(o) \/ RecentPasses(o) \/ SSEHandle(o)
             \/ \E c \in Conns, s \in Scopes : Connect(c, s)
             \/ \E c \in Conns : Woken(c) \/ ConnectionLost(c) \/ StreamEnds(c)
             \/ UNCHANGED <<unrelated, brokerVars>>
      PROVE  acks' \subseteq acks
  BY <1>5 DEF RetryDue, RecentPasses, SSEHandle, Connect, Woken, ConnectionLost, StreamEnds, unrelated
<1>6. ASSUME \/ RedeliverStart \/ RedeliverEnd
             \/ \E o \in Orders : RedeliverRow(o) \/ RedeliverLoadFails(o)
      PROVE  acks' \subseteq acks
  BY <1>6 DEF RedeliverStart, RedeliverEnd, RedeliverRow, RedeliverLoadFails
<1> QED BY <1>2, <1>3, <1>4, <1>5, <1>6, DeliverySteps

-----------------------------------------------------------------------------
(* The invariant holds when main starts.                                     *)
LEMMA DeliveryInitInv == DeliveryInit => DeliveryInv
<1> SUFFICES ASSUME DeliveryInit PROVE DeliveryInv OBVIOUS
<1>1. BrokerInv BY BrokerInitInv DEF DeliveryInit
<1>2. ScopeIsolation BY DEF DeliveryInit, BrokerInit, ScopeIsolation
<1>3. DeliveryTypes
  <2>1. HandlerSeq = <<SSE>> BY DeliveryAssumption
  <2>2. 1 \in DOMAIN HandlerSeq BY <2>1
  <2> QED BY <2>2 DEF DeliveryInit, DispatchInit, DeliveryTypes, OrderRow, NoOrder, Orders
<1>4. RowsArePlaced /\ BatchIsPlaced BY DEF DeliveryInit, DispatchInit, RowsArePlaced, BatchIsPlaced, Orders
<1>5. FramesArePlaced BY DEF DeliveryInit, BrokerInit, FramesArePlaced
<1>6. AcksAreHeld /\ AckedIsHeld BY DEF DeliveryInit, NoOrder, AcksAreHeld, AckedIsHeld
<1> QED BY <1>1, <1>2, <1>3, <1>4, <1>5, <1>6 DEF DeliveryInv

(* No step breaks it; the broker's part is the broker's own proof.           *)
LEMMA DeliveryNextInv == DeliveryInv /\ [DeliveryNext]_deliveryVars => DeliveryInv'
<1> SUFFICES ASSUME DeliveryInv, [DeliveryNext]_deliveryVars PROVE DeliveryInv' OBVIOUS
<1>1. [BrokerNext]_brokerVars BY DeliveryBrokerStep
<1>2. BrokerInv' BY <1>1, BrokerNextInv DEF DeliveryInv
<1>3. ScopeIsolation' BY <1>1, IsolationStep DEF DeliveryInv
<1>4. DeliveryTypes' BY ContractStep, AcksStep, OutboxStep DEF DeliveryTypes
<1> QED BY <1>2, <1>3, <1>4, OutboxStep, FramesStep, AcksStep, NothingIsTakenBack DEF DeliveryInv

(* It holds in every state the program reaches.                              *)
LEMMA DeliveryInvariant == DeliverySpec => []DeliveryInv
BY DeliveryInitInv, DeliveryNextInv, PTL DEF DeliverySpec

(* The whole path from the outbox to the store's agent implements its        *)
(* contract: an order is placed once, its own store's agent holds it only    *)
(* after the commit and for good, and main takes it for acknowledged only    *)
(* when that agent holds it; with any number of orders, stores and streams,  *)
(* of redeliveries, lost frames and acks, deletions and restarts.            *)
THEOREM DeliveryImplementsContract == DeliverySpec => MeetsContract
<1>1. DeliveryInit => Contract!ContractInit
  <2> SUFFICES ASSUME DeliveryInit PROVE Contract!ContractInit OBVIOUS
  <2>1. PlacedOrders = {} /\ AckedOrders = {} BY DEF DeliveryInit, NoOrder, PlacedOrders, AckedOrders
  <2>2. HeldOrders = {} BY OrderScopes DEF DeliveryInit, HeldOrders
  <2> QED BY <2>1, <2>2 DEF Contract!ContractInit, PlacedOrders, HeldOrders, AckedOrders
<1>2. DeliveryInv /\ [DeliveryNext]_deliveryVars => [Contract!ContractNext]_(Contract!contractVars)
  BY ContractStep
<1> QED BY <1>1, <1>2, DeliveryInvariant, PTL DEF DeliverySpec, MeetsContract, Contract!ContractSpec

(* The broker keeps its promises inside delivery too: no panic, only live    *)
(* streams are counted, and no agent gets another store's orders, whatever   *)
(* dispatcher, redelivery and half-open connections do together.             *)
THEOREM DeliveryKeepsBrokerSafe == DeliverySpec => [](NoPanic /\ RegisteredIsLive /\ ScopeIsolation)
<1>1. DeliveryInv => NoPanic /\ RegisteredIsLive /\ ScopeIsolation BY DEF DeliveryInv, BrokerInv
<1> QED BY <1>1, DeliveryInvariant, PTL

=============================================================================
